-------------------------------- MODULE ZipJob --------------------------------
(***************************************************************************)
(* Archive jobs on the one ZipProcessor of the service (zip_worker.rs).    *)
(* A job walks its image entries in order: take a permit of the per-image  *)
(* gate, read the entry, hand entry and permit to a task of its JoinSet;   *)
(* only when every entry is scheduled does it drain the finished tasks     *)
(* into the output archive.  A task runs its frame on a blocking worker.   *)
(*                                                                         *)
(* Jobs share the gate and the processor's error counter.  A job that      *)
(* stops early drops its JoinSet: the tasks are cancelled and give their   *)
(* permits back, but a blocking worker cannot be cancelled and runs on.    *)
(*                                                                         *)
(* The gate follows effective_concurrency(), asked before every            *)
(* acquisition.  No runtime setting changes it, but without                *)
(* MAX_CONCURRENT_IMAGES it is derived from the CPUs the process may use   *)
(* at that moment (affinity, cgroup quota).  A changed value makes the     *)
(* next acquisition replace the semaphore, while permits and waiters of    *)
(* the old one stay with it.                                               *)
(***************************************************************************)
EXTENDS Naturals, FiniteSets

CONSTANTS Jobs,        \* archive jobs, each run once
          Entries,     \* how many entries an archive has
          Capacities,  \* values effective_concurrency() may take
          MaxChanges,  \* bound: how often that value changes
          MaxErrors    \* bound: the error counter saturates here

ASSUME ZipAssumption ==
  /\ IsFiniteSet(Jobs) /\ Entries \in Nat
  /\ Capacities \subseteq Nat \ {0}
  /\ MaxChanges \in Nat /\ MaxErrors \in Nat

VARIABLES
  desired,   \* what effective_concurrency() answers now, and its changes
  gate,      \* the semaphores made so far, by generation: size and free permits
  errors,    \* ZipProcessor.errors
  job,       \* phase, semaphore generation waited on, outcome
  entry      \* the fate of every entry: where it is, whose permit it holds

vars == <<desired, gate, errors, job, entry>>

Names == 1..Entries
Gens  == 0..MaxChanges
Tasks == Jobs \X Names

Semaphore == [size : {0} \cup Capacities, free : Nat]
Phases    == {"idle", "acquire", "wait", "read", "drain", "done", "failed"}
Finished  == {"payload", "degraded", "bad", "panicked"}   \* waiting in the JoinSet
Holding   == {"reading", "spawned", "working"}            \* with a permit
Places    == {"todo", "over", "orphan"} \cup Holding \cup Finished

(* A finished job reports how many errors it counted, the entries named in *)
(* the error report and the entries written to the output archive.         *)
Job   == [pc : Phases, gen : Gens, count : Nat, report : SUBSET Names, out : SUBSET Names]
Entry == [at : Places, gen : Gens]

Newest == CHOOSE g \in Gens : gate[g].size > 0 /\ \A h \in Gens : gate[h].size > 0 => h <= g
Todo(j) == {e \in Names : entry[<<j, e>>].at = "todo"}
Holders(g) == {t \in Tasks : entry[t].at \in Holding /\ entry[t].gen = g}
Live(j) == job[j].pc \in {"acquire", "wait", "read", "drain"}

Init ==
  /\ \E c \in Capacities :
        /\ desired = [cap |-> c, changes |-> 0]
        /\ gate = [g \in Gens |-> IF g = 0 THEN [size |-> c, free |-> c]
                                           ELSE [size |-> 0, free |-> 0]]
  /\ errors = 0
  /\ job = [j \in Jobs |->
              [pc |-> "idle", gen |-> 0, count |-> 0, report |-> {}, out |-> {}]]
  /\ entry = [t \in Tasks |-> [at |-> "todo", gen |-> 0]]

------------------------------------------------------------------------------
(* Moves shared by the actions.                                            *)

Goto(j, pc) == job' = [job EXCEPT ![j].pc = pc]
Put(j, e, place) ==
  entry' = [entry EXCEPT ![<<j, e>>] =
              [at |-> place, gen |-> IF place \in Holding THEN @.gen ELSE 0]]
Count(n) == errors' = IF n <= MaxErrors THEN n ELSE MaxErrors
GiveBack(g) == gate' = [gate EXCEPT ![g].free = @ + 1]

(* The CPUs available to the process change; nothing else happens until    *)
(* the next acquisition.                                                   *)
ChangeCapacity(c) ==
  /\ desired.changes < MaxChanges /\ c # desired.cap
  /\ desired' = [cap |-> c, changes |-> desired.changes + 1]
  /\ UNCHANGED <<gate, errors, job, entry>>

(* A job resets the shared counter, then either refuses the archive        *)
(* (unreadable, too many entries) or sorts out the unsupported entries.    *)
StartRefused(j) ==
  /\ job[j].pc = "idle"
  /\ Count(0)
  /\ Goto(j, "failed")
  /\ UNCHANGED <<desired, gate, entry>>

Start(j, unsupported) ==
  /\ job[j].pc = "idle"
  /\ Count(Cardinality(unsupported))
  /\ job' = [job EXCEPT ![j].pc = "acquire", ![j].report = unsupported]
  /\ entry' = [t \in Tasks |-> IF t[1] = j /\ t[2] \in unsupported
                               THEN [entry[t] EXCEPT !.at = "over"] ELSE entry[t]]
  /\ UNCHANGED <<desired, gate>>

(* acquire_permit: refresh the gate, then queue on the semaphore it gave.  *)
Refresh(j) ==
  /\ job[j].pc = "acquire" /\ Todo(j) # {}
  /\ LET fresh == desired.cap # gate[Newest].size
         g     == IF fresh THEN Newest + 1 ELSE Newest IN
     /\ gate' = IF fresh THEN [gate EXCEPT ![g] = [size |-> desired.cap, free |-> desired.cap]]
                         ELSE gate
     /\ job' = [job EXCEPT ![j].pc = "wait", ![j].gen = g]
  /\ UNCHANGED <<desired, errors, entry>>

Acquire_ungated(j) ==
  LET g == job[j].gen
      e == CHOOSE f \in Todo(j) : \A h \in Todo(j) : f <= h IN
  /\ job[j].pc = "wait"
  /\ gate' = [gate EXCEPT ![g].free = @ - 1]
  /\ entry' = [entry EXCEPT ![<<j, e>>] = [at |-> "reading", gen |-> g]]
  /\ job' = [job EXCEPT ![j].pc = "read", ![j].gen = 0]
  /\ UNCHANGED <<desired, errors>>

Acquire(j) ==
  LET g == job[j].gen
      e == CHOOSE f \in Todo(j) : \A h \in Todo(j) : f <= h IN
  /\ job[j].pc = "wait" /\ gate[g].free > 0
  /\ gate' = [gate EXCEPT ![g].free = @ - 1]
  /\ entry' = [entry EXCEPT ![<<j, e>>] = [at |-> "reading", gen |-> g]]
  /\ job' = [job EXCEPT ![j].pc = "read", ![j].gen = 0]
  /\ UNCHANGED <<desired, errors>>

(* The entry cannot be read, or its camera's row cannot be had: counted,   *)
(* reported, and its permit dropped.                                       *)
Skip(j, e) ==
  /\ entry[<<j, e>>].at = "reading"
  /\ Count(errors + 1)
  /\ job' = [job EXCEPT ![j].pc = "acquire", ![j].report = @ \cup {e}]
  /\ Put(j, e, "over")
  /\ GiveBack(entry[<<j, e>>].gen)
  /\ UNCHANGED desired

Spawn(j, e) ==
  /\ entry[<<j, e>>].at = "reading"
  /\ Put(j, e, "spawned")
  /\ Goto(j, "acquire")
  /\ UNCHANGED <<desired, gate, errors>>

StartDraining(j) ==
  /\ job[j].pc = "acquire" /\ Todo(j) = {}
  /\ Goto(j, "drain")
  /\ UNCHANGED <<desired, gate, errors, entry>>

------------------------------------------------------------------------------
(* Tasks.  process_one_image never fails its caller: it leaves a payload,  *)
(* a payload of the full-frame failsafe with a message, or only a message; *)
(* it counts one error, or two when the failsafe frame cannot be encoded.  *)
(* The permit lives as long as the task.                                   *)

StartWork(j, e) ==
  /\ entry[<<j, e>>].at = "spawned" /\ Live(j)
  /\ Put(j, e, "working")
  /\ UNCHANGED <<desired, gate, errors, job>>

Counted(result) ==
  CASE result = "degraded" -> {1}
    [] result = "bad"      -> {1, 2}
    [] OTHER               -> {0}

FinishWork_permitWithResult(j, e, result) ==
  /\ entry[<<j, e>>].at = "working" /\ Live(j)
  /\ \E n \in Counted(result) : Count(errors + n)
  /\ Put(j, e, result)
  /\ UNCHANGED <<desired, gate, job>>

FinishWork(j, e, result) ==
  /\ entry[<<j, e>>].at = "working" /\ Live(j)
  /\ \E n \in Counted(result) : Count(errors + n)
  /\ Put(j, e, result)
  /\ GiveBack(entry[<<j, e>>].gen)
  /\ UNCHANGED <<desired, job>>

(* A worker whose task was cancelled runs to its end and still counts.     *)
OrphanEnds(j, e) ==
  /\ entry[<<j, e>>].at = "orphan"
  /\ \E result \in Finished : \E n \in Counted(result) : Count(errors + n)
  /\ Put(j, e, "over")
  /\ UNCHANGED <<desired, gate, job>>

------------------------------------------------------------------------------
(* drain_results takes one finished task.  Messages go to the report,      *)
(* payloads to the archive, unless writing them fails.                     *)

Drain_payloadOnly(j, e) ==
  LET at == entry[<<j, e>>].at IN
  /\ job[j].pc = "drain" /\ at \in Finished
  /\ \E written \in BOOLEAN :
        /\ written => at = "payload" \/ at = "degraded"
        /\ job' = [job EXCEPT ![j].out = IF written THEN @ \cup {e} ELSE @,
                              ![j].report = IF at = "panicked" THEN @ \cup {e} ELSE @]
        /\ Count(IF written \/ at = "bad" THEN errors ELSE errors + 1)
  /\ Put(j, e, "over")
  /\ UNCHANGED <<desired, gate>>

Drain(j, e) ==
  LET at == entry[<<j, e>>].at IN
  /\ job[j].pc = "drain" /\ at \in Finished
  /\ \E written \in BOOLEAN :
        /\ written => at = "payload" \/ at = "degraded"
        /\ job' = [job EXCEPT ![j].out = IF written THEN @ \cup {e} ELSE @,
                              ![j].report = IF written /\ at = "payload" THEN @ ELSE @ \cup {e}]
        /\ Count(IF written \/ at = "bad" THEN errors ELSE errors + 1)
  /\ Put(j, e, "over")
  /\ UNCHANGED <<desired, gate>>

(* Everything drained: the detections are stored, the archive is finished  *)
(* -- or cannot be -- and the outcome takes the counter as it stands.      *)
Drained(j) == job[j].pc = "drain" /\ \A e \in Names : entry[<<j, e>>].at = "over"

Finish(j) ==
  /\ Drained(j)
  /\ job' = [job EXCEPT ![j].pc = "done", ![j].count = errors]
  /\ UNCHANGED <<desired, gate, errors, entry>>

FinishFails(j) ==
  /\ Drained(j)
  /\ Goto(j, "failed")
  /\ UNCHANGED <<desired, gate, errors, entry>>

------------------------------------------------------------------------------
(* Leaving early: an archive limit is exceeded while an entry is read, or  *)
(* the client goes away.  The entry being read gives its permit back at    *)
(* once, finished results are dropped, the tasks are cancelled one by one. *)

Abandon(j) ==
  /\ Live(j)
  /\ Goto(j, "failed")
  /\ entry' = [t \in Tasks |->
                 IF t[1] = j /\ entry[t].at \in {"todo", "reading"} \cup Finished
                 THEN [at |-> "over", gen |-> 0] ELSE entry[t]]
  /\ gate' = [g \in Gens |->
                IF \E e \in Names : entry[<<j, e>>].at = "reading" /\ entry[<<j, e>>].gen = g
                THEN [gate[g] EXCEPT !.free = @ + 1] ELSE gate[g]]
  /\ UNCHANGED <<desired, errors>>

Cancel_keepsPermit(j, e) ==
  /\ job[j].pc = "failed"
  /\ \/ entry[<<j, e>>].at = "spawned" /\ Put(j, e, "over") /\ GiveBack(entry[<<j, e>>].gen)
     \/ entry[<<j, e>>].at = "working" /\ Put(j, e, "orphan") /\ UNCHANGED gate
  /\ UNCHANGED <<desired, errors, job>>

Cancel(j, e) ==
  /\ job[j].pc = "failed"
  /\ \/ entry[<<j, e>>].at = "spawned" /\ Put(j, e, "over")
     \/ entry[<<j, e>>].at = "working" /\ Put(j, e, "orphan")
  /\ GiveBack(entry[<<j, e>>].gen)
  /\ UNCHANGED <<desired, errors, job>>

------------------------------------------------------------------------------
Scheduling(j) ==
  \/ Refresh(j) \/ Acquire(j) \/ StartDraining(j)
  \/ \E e \in Names : Skip(j, e) \/ Spawn(j, e)

TaskStep(j) ==
  \E e \in Names :
     \/ StartWork(j, e)
     \/ \E result \in Finished : FinishWork(j, e, result)
     \/ OrphanEnds(j, e)
     \/ Cancel(j, e)

Draining(j) ==
  \/ \E e \in Names : Drain(j, e)
  \/ Finish(j) \/ FinishFails(j)

Progress(j) == Scheduling(j) \/ TaskStep(j) \/ Draining(j)

Next ==
  \/ \E c \in Capacities : ChangeCapacity(c)
  \/ \E j \in Jobs :
        \/ StartRefused(j)
        \/ \E bad \in SUBSET Names : Start(j, bad)
        \/ Progress(j)
        \/ Abandon(j)

Spec == Init /\ [][Next]_vars

(* The runtime polls every ready task and runs every blocking worker to    *)
(* its end.  Nothing forces a job to start or a client to go away.         *)
FairSpec == Spec /\ \A j \in Jobs : WF_vars(Progress(j))

------------------------------------------------------------------------------
TypeOK ==
  /\ desired \in [cap : Capacities, changes : Gens]
  /\ gate \in [Gens -> Semaphore]
  /\ errors \in Nat
  /\ job \in [Jobs -> Job]
  /\ entry \in [Tasks -> Entry]

(* No permit is lost or made up, on whatever path the entry or its job     *)
(* ends, and a permit returns to the semaphore it came from although the   *)
(* gate may have been replaced meanwhile (zip_worker.rs:238-263).          *)
PermitsConserved ==
  \A g \in Gens : gate[g].free + Cardinality(Holders(g)) = gate[g].size

(* A job that ends well accounts for every entry of its archive: written,  *)
(* or named in the error report, or both (zip_worker.rs:586-692).          *)
NothingLost ==
  \A j \in Jobs : job[j].pc = "done" => job[j].out \cup job[j].report = Names

(* A job that was started ends, whatever the others do, whatever the gate  *)
(* is resized to and however many entries compete for it: nobody waits for *)
(* a permit that only his own drain would return.                          *)
JobsEnd ==
  \A j \in Jobs : Live(j) ~> job[j].pc \in {"done", "failed"}

==============================================================================
