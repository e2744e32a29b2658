----------------------------- MODULE ZipJob_proofs -----------------------------
(***************************************************************************)
(* Proofs about ZipJob for every finite set of jobs, every archive length, *)
(* every set of capacities and any number of changes of the capacity.      *)
(***************************************************************************)
EXTENDS ZipJob, FiniteSetTheorems, TLAPS

------------------------------------------------------------------------------
(***************************************************************************)
(* The inductive invariant.                                                *)
(***************************************************************************)

(* Semaphores are made one after the other, at most one per change of the  *)
(* capacity: when the newest is out of date there is room for the next.    *)
NewestIs(n) ==
  /\ \A g \in Gens : gate[g].size > 0 <=> g <= n
  /\ n <= desired.changes
  /\ desired.cap # gate[n].size => n < desired.changes

GatesInOrder == \E n \in Gens : NewestIs(n)

(* A job reads one entry at a time: a job that leaves early gives back one *)
(* permit, the one of that entry.                                          *)
OneReading ==
  \A j \in Jobs, e \in Names : entry[<<j, e>>].at = "reading" =>
     /\ job[j].pc = "read"
     /\ \A f \in Names : entry[<<j, f>>].at = "reading" => f = e

(* A job queues for a permit only with an entry to spend it on.            *)
Pending == \A j \in Jobs : job[j].pc = "wait" => Todo(j) # {}

(* Where an entry may be in each phase of its job.                         *)
Reported ==
  \A j \in Jobs, e \in Names :
    /\ entry[<<j, e>>].at = "over" =>
          job[j].pc = "failed" \/ e \in job[j].out \cup job[j].report
    /\ entry[<<j, e>>].at = "orphan" => job[j].pc = "failed"
    /\ job[j].pc = "idle" => entry[<<j, e>>].at = "todo"
    /\ job[j].pc = "done" => entry[<<j, e>>].at = "over"

IInv ==
  TypeOK /\ PermitsConserved /\ GatesInOrder /\ OneReading /\ Pending /\ Reported

------------------------------------------------------------------------------
(* The next-state relation, unfolded into the actions of one job.          *)
EntryStep(j, e) ==
  \/ Skip(j, e) \/ Spawn(j, e) \/ StartWork(j, e)
  \/ \E result \in Finished : FinishWork(j, e, result)
  \/ OrphanEnds(j, e) \/ Cancel(j, e) \/ Drain(j, e)

JobStep(j) ==
  \/ StartRefused(j)
  \/ \E bad \in SUBSET Names : Start(j, bad)
  \/ Refresh(j) \/ Acquire(j) \/ StartDraining(j)
  \/ Finish(j) \/ FinishFails(j) \/ Abandon(j)

LEMMA NextSplits ==
  ASSUME Next
  PROVE  \/ \E c \in Capacities : ChangeCapacity(c)
         \/ \E j \in Jobs : JobStep(j)
         \/ \E j \in Jobs, e \in Names : EntryStep(j, e)
  <1>1. ASSUME NEW j \in Jobs, Progress(j)
        PROVE  JobStep(j) \/ \E e \in Names : EntryStep(j, e)
    <2>1. CASE Scheduling(j)
      BY <2>1, Zenon DEF Scheduling, JobStep, EntryStep
    <2>2. CASE TaskStep(j)
      BY <2>2, Zenon DEF TaskStep, EntryStep
    <2>3. CASE Draining(j)
      BY <2>3, Zenon DEF Draining, JobStep, EntryStep
    <2> QED
      BY <1>1, <2>1, <2>2, <2>3 DEF Progress
  <1>2. CASE \E c \in Capacities : ChangeCapacity(c)
    BY <1>2
  <1>3. ASSUME NEW j \in Jobs,
               \/ StartRefused(j)
               \/ \E bad \in SUBSET Names : Start(j, bad)
               \/ Progress(j)
               \/ Abandon(j)
        PROVE  JobStep(j) \/ \E e \in Names : EntryStep(j, e)
    BY <1>1, <1>3, Zenon DEF JobStep
  <1> QED
    BY <1>2, <1>3, Zenon DEF Next

LEMMA GenFacts == MaxChanges \in Nat /\ 0 \in Gens /\ Gens \subseteq Nat
  BY ZipAssumption DEF Gens

LEMMA CapacitiesPositive ==
  ASSUME NEW c \in Capacities
  PROVE  c \in Nat /\ c > 0
  <1>1. c \in Nat \ {0}
    BY ZipAssumption
  <1> QED
    BY <1>1

(* The tasks that hold a permit of one semaphore can be counted.           *)
LEMMA HoldersFinite ==
  ASSUME NEW g
  PROVE  IsFiniteSet(Holders(g)) /\ Cardinality(Holders(g)) \in Nat
  <1>1. IsFiniteSet(Names)
    BY ZipAssumption, FS_Interval DEF Names
  <1>2. IsFiniteSet(Tasks)
    BY <1>1, ZipAssumption, FS_Product DEF Tasks
  <1>3. Holders(g) \subseteq Tasks
    BY DEF Holders
  <1> QED
    BY <1>2, <1>3, FS_Subset, FS_CardinalityType

(* A non-empty set of entries has a first one.  (The library's induction   *)
(* over the naturals needs an operator; the order on finite sets does.)    *)
LEMMA FirstExists ==
  ASSUME NEW S \in SUBSET Names, S # {}
  PROVE  \E f \in S : \A h \in S : f <= h
  <1> DEFINE below(x) == {y \in S : y < x}
             chain == {below(x) : x \in S}
  <1>1. IsFiniteSet(Names) /\ Names \subseteq Nat
    BY ZipAssumption, FS_Interval DEF Names
  <1>2. chain \subseteq FiniteSubsetsOf(Names) /\ chain # {}
    <2>1. chain \subseteq SUBSET Names /\ chain # {}
      OBVIOUS
    <2> QED
      BY <1>1, <2>1, FS_FiniteSubsetsOfFinite
  <1>3. PICK b \in chain : \A c \in chain : <<c, b>> \notin StrictSubsetOrdering(Names)
    BY <1>2, FS_StrictSubsetOrderingWellFounded, WFMin
  <1>4. PICK f \in S : b = below(f)
    BY <1>3
  <1>5. ASSUME NEW h \in S, h < f PROVE FALSE
    <2>1. below(h) \in chain /\ below(h) \subseteq below(f)
      <3>1. below(h) \in chain
        OBVIOUS
      <3>2. f \in Nat /\ h \in Nat /\ \A y \in S : y \in Nat
        BY <1>1
      <3>3. ASSUME NEW y \in below(h) PROVE y \in below(f)
        BY <1>5, <3>2
      <3> QED
        BY <3>1, <3>3
    <2>2. h \in below(f) /\ ~ (h < h)
      BY <1>1, <1>5
    <2>3. <<below(h), below(f)>> \in StrictSubsetOrdering(Names)
      <3>1. below(h) # below(f)
        BY <2>2
      <3> QED
        BY <2>1, <3>1 DEF StrictSubsetOrdering
    <2> QED
      BY <1>3, <1>4, <2>1, <2>3
  <1> QED
    BY <1>1, <1>5

First(j) == CHOOSE f \in Todo(j) : \A h \in Todo(j) : f <= h

LEMMA FirstTodo ==
  ASSUME NEW j, Todo(j) # {}
  PROVE  First(j) \in Todo(j) /\ First(j) \in Names
  <1>1. Todo(j) \in SUBSET Names
    BY DEF Todo
  <1>2. \E f \in Todo(j) : \A h \in Todo(j) : f <= h
    BY <1>1, FirstExists
  <1> QED
    BY <1>1, <1>2 DEF First

------------------------------------------------------------------------------
(***************************************************************************)
(* What the shared moves do to the permits.                                *)
(***************************************************************************)

(* An entry that moves within the holding places, or within the others,    *)
(* moves no permit.                                                        *)
LEMMA MoveHolders ==
  ASSUME TypeOK, NEW j \in Jobs, NEW e \in Names, NEW place,
         Put(j, e, place), place \in Holding <=> entry[<<j, e>>].at \in Holding,
         NEW g \in Gens
  PROVE  Holders(g)' = Holders(g)
  BY DEF TypeOK, Put, Holders, Tasks

LEMMA MoveConserves ==
  ASSUME TypeOK, PermitsConserved, NEW j \in Jobs, NEW e \in Names, NEW place,
         Put(j, e, place), place \in Holding <=> entry[<<j, e>>].at \in Holding,
         gate' = gate
  PROVE  PermitsConserved'
  <1>1. ASSUME NEW g \in Gens PROVE Holders(g)' = Holders(g)
    BY MoveHolders
  <1> QED
    BY <1>1, Zenon DEF PermitsConserved

(* An entry that stops holding and gives its permit back to its semaphore. *)
LEMMA ReturnHolders ==
  ASSUME TypeOK, NEW j \in Jobs, NEW e \in Names, NEW place,
         Put(j, e, place), entry[<<j, e>>].at \in Holding, place \notin Holding
  PROVE  /\ entry[<<j, e>>].gen \in Gens
         /\ <<j, e>> \in Holders(entry[<<j, e>>].gen)
         /\ \A g \in Gens : Holders(g)' = IF g = entry[<<j, e>>].gen
                                          THEN Holders(g) \ {<<j, e>>} ELSE Holders(g)
  <1>1. <<j, e>> \in Tasks /\ entry[<<j, e>>] \in Entry
    BY DEF TypeOK, Tasks
  <1>2. ASSUME NEW g \in Gens
        PROVE  Holders(g)' = IF g = entry[<<j, e>>].gen
                             THEN Holders(g) \ {<<j, e>>} ELSE Holders(g)
    BY DEF TypeOK, Put, Holders, Tasks
  <1> QED
    BY <1>1, <1>2 DEF Entry, Holders

LEMMA ReturnConserves ==
  ASSUME TypeOK, PermitsConserved, NEW j \in Jobs, NEW e \in Names, NEW place,
         Put(j, e, place), entry[<<j, e>>].at \in Holding, place \notin Holding,
         GiveBack(entry[<<j, e>>].gen)
  PROVE  PermitsConserved'
  <1> DEFINE k == entry[<<j, e>>].gen
  <1>1. /\ k \in Gens /\ <<j, e>> \in Holders(k)
        /\ \A g \in Gens : Holders(g)' = IF g = k THEN Holders(g) \ {<<j, e>>} ELSE Holders(g)
    BY ReturnHolders
  <1>2. ASSUME NEW g \in Gens
        PROVE  /\ gate'[g].free = IF g = k THEN gate[g].free + 1 ELSE gate[g].free
               /\ gate'[g].size = gate[g].size
    BY DEF TypeOK, GiveBack, Semaphore
  <1>3. Cardinality(Holders(k) \ {<<j, e>>}) = Cardinality(Holders(k)) - 1
    BY <1>1, HoldersFinite, FS_RemoveElement
  <1>4. ASSUME NEW g \in Gens
        PROVE  gate'[g].free + Cardinality(Holders(g)') = gate'[g].size
    <2>1. /\ gate[g].free + Cardinality(Holders(g)) = gate[g].size
          /\ gate[g].free \in Nat /\ Cardinality(Holders(g)) \in Nat
      BY HoldersFinite DEF PermitsConserved, TypeOK, Semaphore
    <2>2. CASE g = k
      <3>1. Cardinality(Holders(g)') = Cardinality(Holders(g)) - 1
        BY <1>1, <1>3, <2>2, Zenon
      <3> QED
        BY <1>2, <2>1, <2>2, <3>1
    <2>3. CASE g # k
      BY <1>1, <1>2, <2>1, <2>3
    <2> QED
      BY <2>2, <2>3
  <1> QED
    BY <1>4 DEF PermitsConserved

(* A job that takes a free permit of semaphore k for an entry without one. *)
LEMMA TakeHolders ==
  ASSUME TypeOK, NEW j \in Jobs, NEW e \in Names, NEW k \in Gens,
         entry[<<j, e>>].at \notin Holding,
         entry' = [entry EXCEPT ![<<j, e>>] = [at |-> "reading", gen |-> k]]
  PROVE  /\ <<j, e>> \notin Holders(k)
         /\ \A g \in Gens : Holders(g)' = IF g = k
                                          THEN Holders(g) \cup {<<j, e>>} ELSE Holders(g)
  <1>1. ASSUME NEW g \in Gens
        PROVE  Holders(g)' = IF g = k THEN Holders(g) \cup {<<j, e>>} ELSE Holders(g)
    BY DEF TypeOK, Holders, Holding, Tasks
  <1> QED
    BY <1>1 DEF Holders

LEMMA TakeConserves ==
  ASSUME TypeOK, PermitsConserved, NEW j \in Jobs, NEW e \in Names, NEW k \in Gens,
         entry[<<j, e>>].at \notin Holding, gate[k].free > 0,
         entry' = [entry EXCEPT ![<<j, e>>] = [at |-> "reading", gen |-> k]],
         gate' = [gate EXCEPT ![k].free = @ - 1]
  PROVE  PermitsConserved'
  <1>1. /\ <<j, e>> \notin Holders(k)
        /\ \A g \in Gens : Holders(g)' = IF g = k THEN Holders(g) \cup {<<j, e>>} ELSE Holders(g)
    BY TakeHolders
  <1>2. ASSUME NEW g \in Gens
        PROVE  /\ gate'[g].free = IF g = k THEN gate[g].free - 1 ELSE gate[g].free
               /\ gate'[g].size = gate[g].size
    BY DEF TypeOK, Semaphore
  <1>3. Cardinality(Holders(k) \cup {<<j, e>>}) = Cardinality(Holders(k)) + 1
    BY <1>1, HoldersFinite, FS_AddElement
  <1>4. ASSUME NEW g \in Gens
        PROVE  gate'[g].free + Cardinality(Holders(g)') = gate'[g].size
    <2>1. /\ gate[g].free + Cardinality(Holders(g)) = gate[g].size
          /\ gate[g].free \in Nat /\ Cardinality(Holders(g)) \in Nat
      BY HoldersFinite DEF PermitsConserved, TypeOK, Semaphore
    <2>2. CASE g = k
      <3>1. Cardinality(Holders(g)') = Cardinality(Holders(g)) + 1
        BY <1>1, <1>3, <2>2, Zenon
      <3> QED
        BY <1>2, <2>1, <2>2, <3>1
    <2>3. CASE g # k
      BY <1>1, <1>2, <2>1, <2>3
    <2> QED
      BY <2>2, <2>3
  <1> QED
    BY <1>4 DEF PermitsConserved

------------------------------------------------------------------------------
(* The newest semaphore is the one the invariant names.                    *)
LEMMA NewestExists ==
  ASSUME TypeOK, NEW n \in Gens, NewestIs(n)
  PROVE  Newest = n
  <1>1. gate[n].size > 0 /\ \A h \in Gens : gate[h].size > 0 => h <= n
    BY GenFacts DEF NewestIs
  <1>2. ASSUME NEW m \in Gens, gate[m].size > 0,
               \A h \in Gens : gate[h].size > 0 => h <= m
        PROVE  m = n
    BY <1>1, <1>2, GenFacts
  <1> QED
    BY <1>1, <1>2 DEF Newest

(* What Refresh does: nothing to the gate, or one more semaphore, of the   *)
(* wanted capacity, in a generation no permit belongs to yet.              *)
LEMMA RefreshEffect ==
  ASSUME IInv, NEW j \in Jobs, Refresh(j), NEW n \in Gens, NewestIs(n)
  PROVE  \/ /\ desired.cap = gate[n].size /\ gate' = gate
            /\ job' = [job EXCEPT ![j].pc = "wait", ![j].gen = n]
         \/ /\ n + 1 \in Gens /\ n + 1 <= desired.changes
            /\ gate[n+1] = [size |-> 0, free |-> 0] /\ Holders(n+1) = {}
            /\ gate' = [gate EXCEPT ![n+1] = [size |-> desired.cap, free |-> desired.cap]]
            /\ job' = [job EXCEPT ![j].pc = "wait", ![j].gen = n + 1]
  <1> USE DEF IInv
  <1>1. Newest = n
    BY NewestExists
  <1>2. CASE desired.cap = gate[n].size
    BY <1>1, <1>2 DEF Refresh
  <1>3. CASE desired.cap # gate[n].size
    <2>1. n + 1 \in Gens /\ n + 1 <= desired.changes
      <3>1. n < desired.changes /\ desired.changes \in Gens /\ n \in Nat
        BY <1>3, GenFacts DEF NewestIs, TypeOK
      <3> QED
        BY <3>1, GenFacts DEF Gens
    <2>2. ~ (gate[n+1].size > 0)
      BY <2>1, GenFacts DEF NewestIs
    <2>3. gate[n+1] \in Semaphore
      BY <2>1 DEF TypeOK
    <2>4. gate[n+1].size = 0 /\ gate[n+1].free \in Nat
      BY <2>2, <2>3, CapacitiesPositive DEF Semaphore
    <2>5. gate[n+1].free + Cardinality(Holders(n+1)) = 0
      BY <2>1, <2>4 DEF PermitsConserved
    <2>6. gate[n+1].free = 0 /\ Cardinality(Holders(n+1)) = 0
      BY <2>4, <2>5, HoldersFinite
    <2>7. Holders(n+1) = {}
      BY <2>6, HoldersFinite, FS_EmptySet
    <2>8. gate[n+1] = [size |-> 0, free |-> 0]
      BY <2>3, <2>4, <2>6 DEF Semaphore
    <2> QED
      BY <1>1, <1>3, <2>1, <2>7, <2>8 DEF Refresh
  <1> QED
    BY <1>2, <1>3

LEMMA CapacityPositive ==
  ASSUME TypeOK
  PROVE  desired.cap \in Capacities /\ desired.cap \in Nat /\ desired.cap > 0
  <1>1. desired.cap \in Capacities
    BY DEF TypeOK
  <1> QED
    BY <1>1, CapacitiesPositive

(* A job that leaves early stops holding for the one entry it was reading, *)
(* if any, and gives back that permit; its other tasks keep theirs.        *)
ReadBy(j, g) == {t \in Holders(g) : t[1] = j /\ entry[t].at = "reading"}

LEMMA AbandonHolders ==
  ASSUME TypeOK, OneReading, NEW j \in Jobs, Abandon(j), NEW g \in Gens
  PROVE  /\ Holders(g)' = Holders(g) \ ReadBy(j, g)
         /\ \/ /\ \E t \in Holders(g) : ReadBy(j, g) = {t}
               /\ gate'[g] = [gate[g] EXCEPT !.free = @ + 1]
            \/ ReadBy(j, g) = {} /\ gate'[g] = gate[g]
  <1>1. ASSUME NEW t \in Tasks
        PROVE  t \in Holders(g)' <=> t \in Holders(g) /\ t \notin ReadBy(j, g)
    <2>1. CASE t[1] = j /\ entry[t].at \in {"todo", "reading"} \cup Finished
      <3>1. entry'[t] = [at |-> "over", gen |-> 0]
        BY <2>1 DEF Abandon
      <3>2. t \notin Holders(g)'
        BY <3>1 DEF Holders, Holding
      <3> QED
        BY <2>1, <3>2 DEF ReadBy, Holders, Holding, Finished
    <2>2. CASE ~(t[1] = j /\ entry[t].at \in {"todo", "reading"} \cup Finished)
      <3>1. entry'[t] = entry[t]
        BY <2>2 DEF Abandon
      <3> QED
        BY <2>2, <3>1 DEF ReadBy, Holders
    <2> QED
      BY <2>1, <2>2
  <1>2. Holders(g)' = Holders(g) \ ReadBy(j, g)
    BY <1>1 DEF Holders
  <1>3. CASE \E e \in Names : entry[<<j, e>>].at = "reading" /\ entry[<<j, e>>].gen = g
    <2>1. PICK e \in Names : entry[<<j, e>>].at = "reading" /\ entry[<<j, e>>].gen = g
      BY <1>3
    <2>2. <<j, e>> \in Holders(g)
      BY <2>1 DEF Holders, Holding, Tasks
    <2>3. ReadBy(j, g) = {<<j, e>>}
      <3>1. ASSUME NEW t \in ReadBy(j, g) PROVE t = <<j, e>>
        <4>1. PICK f \in Names : t = <<j, f>>
          BY DEF ReadBy, Holders, Tasks
        <4> QED
          BY <2>1, <4>1 DEF ReadBy, OneReading
      <3> QED
        BY <2>1, <2>2, <3>1 DEF ReadBy
    <2>4. gate'[g] = [gate[g] EXCEPT !.free = @ + 1]
      BY <1>3 DEF Abandon
    <2> QED
      BY <1>2, <2>2, <2>3, <2>4
  <1>4. CASE ~ \E e \in Names : entry[<<j, e>>].at = "reading" /\ entry[<<j, e>>].gen = g
    <2>1. ReadBy(j, g) = {}
      BY <1>4 DEF ReadBy, Holders, Tasks
    <2>2. gate'[g] = gate[g]
      BY <1>4 DEF Abandon
    <2> QED
      BY <1>2, <2>1, <2>2
  <1> QED
    BY <1>3, <1>4

LEMMA AbandonConserves ==
  ASSUME TypeOK, OneReading, PermitsConserved, NEW j \in Jobs, Abandon(j)
  PROVE  PermitsConserved'
  <1>1. ASSUME NEW g \in Gens
        PROVE  gate'[g].free + Cardinality(Holders(g)') = gate'[g].size
    <2>1. /\ gate[g].free + Cardinality(Holders(g)) = gate[g].size
          /\ gate[g].free \in Nat /\ Cardinality(Holders(g)) \in Nat
          /\ gate[g] \in Semaphore
      BY HoldersFinite DEF PermitsConserved, TypeOK, Semaphore
    <2>2. Holders(g)' = Holders(g) \ ReadBy(j, g)
      BY AbandonHolders
    <2>3. CASE /\ \E t \in Holders(g) : ReadBy(j, g) = {t}
               /\ gate'[g] = [gate[g] EXCEPT !.free = @ + 1]
      <3>1. Cardinality(Holders(g)') = Cardinality(Holders(g)) - 1
        <4>1. PICK t \in Holders(g) : ReadBy(j, g) = {t}
          BY <2>3
        <4>2. Holders(g)' = Holders(g) \ {t}
          BY <2>2, <4>1
        <4> QED
          BY <4>1, <4>2, HoldersFinite, FS_RemoveElement
      <3>2. gate'[g].free = gate[g].free + 1 /\ gate'[g].size = gate[g].size
        BY <2>1, <2>3 DEF Semaphore
      <3> QED
        BY <2>1, <3>1, <3>2
    <2>4. CASE ReadBy(j, g) = {} /\ gate'[g] = gate[g]
      <3>1. Holders(g)' = Holders(g)
        BY <2>2, <2>4
      <3> QED
        BY <2>1, <2>4, <3>1
    <2> QED
      BY <2>3, <2>4, AbandonHolders
  <1> QED
    BY <1>1 DEF PermitsConserved

------------------------------------------------------------------------------
(***************************************************************************)
(* Types.                                                                  *)
(***************************************************************************)

LEMMA CountType ==
  ASSUME NEW n \in Nat, Count(n)
  PROVE  errors' \in Nat
  BY ZipAssumption DEF Count

LEMMA PutType ==
  ASSUME TypeOK, NEW j \in Jobs, NEW e \in Names, NEW place \in Places, Put(j, e, place)
  PROVE  entry' \in [Tasks -> Entry]
  <1>1. <<j, e>> \in Tasks /\ entry[<<j, e>>] \in Entry
    BY DEF TypeOK, Tasks
  <1>2. [at |-> place, gen |-> IF place \in Holding THEN entry[<<j, e>>].gen ELSE 0] \in Entry
    BY <1>1, GenFacts DEF Entry
  <1> QED
    BY <1>1, <1>2 DEF TypeOK, Put

LEMMA GiveBackType ==
  ASSUME TypeOK, NEW g \in Gens, GiveBack(g)
  PROVE  gate' \in [Gens -> Semaphore]
  BY DEF TypeOK, GiveBack, Semaphore

(* A job record keeps its type when its phase and its lists change.        *)
LEMMA JobType ==
  ASSUME TypeOK, NEW j \in Jobs, NEW r,
         job' = [job EXCEPT ![j] = r], r \in Job
  PROVE  job' \in [Jobs -> Job]
  BY DEF TypeOK

LEMMA GotoType ==
  ASSUME TypeOK, NEW j \in Jobs, NEW pc \in Phases, Goto(j, pc)
  PROVE  job' \in [Jobs -> Job]
  BY DEF TypeOK, Goto, Job

LEMMA PlaceFacts ==
  /\ "todo" \in Places /\ "over" \in Places /\ "orphan" \in Places
  /\ "reading" \in Places /\ "spawned" \in Places /\ "working" \in Places
  /\ Finished \subseteq Places
  BY DEF Places, Holding, Finished

LEMMA CountedType ==
  ASSUME NEW result, NEW n \in Counted(result)
  PROVE  n \in Nat
  BY DEF Counted

LEMMA EntryStepTypeOK ==
  ASSUME TypeOK, NEW j \in Jobs, NEW e \in Names, EntryStep(j, e)
  PROVE  TypeOK'
  <1>0. /\ errors \in Nat /\ entry[<<j, e>>].gen \in Gens
        /\ job[j] \in Job /\ entry[<<j, e>>].at \in Places
    BY DEF TypeOK, Tasks, Entry
  <1>1. CASE Skip(j, e)
    <2>1. errors' \in Nat
      BY <1>0, <1>1, CountType DEF Skip
    <2>2. job' \in [Jobs -> Job]
      BY <1>1 DEF Skip, TypeOK, Job, Phases
    <2> QED
      BY <1>0, <1>1, <2>1, <2>2, PutType, GiveBackType, PlaceFacts DEF Skip, TypeOK
  <1>2. CASE Spawn(j, e)
    <2>1. job' \in [Jobs -> Job]
      BY <1>2, GotoType DEF Spawn, Phases
    <2> QED
      BY <1>2, <2>1, PutType, PlaceFacts DEF Spawn, TypeOK
  <1>3. CASE StartWork(j, e)
    BY <1>3, PutType, PlaceFacts DEF StartWork, TypeOK
  <1>4. ASSUME NEW result \in Finished, FinishWork(j, e, result) PROVE TypeOK'
    <2>1. PICK n \in Counted(result) : Count(errors + n)
      BY <1>4 DEF FinishWork
    <2>2. errors' \in Nat
      BY <1>0, <2>1, CountedType, CountType
    <2> QED
      BY <1>0, <1>4, <2>2, PutType, GiveBackType, PlaceFacts DEF FinishWork, TypeOK
  <1>5. CASE OrphanEnds(j, e)
    <2>1. PICK result \in Finished : \E n \in Counted(result) : Count(errors + n)
      BY <1>5 DEF OrphanEnds
    <2>2. PICK n \in Counted(result) : Count(errors + n)
      BY <2>1
    <2>3. errors' \in Nat
      BY <1>0, <2>2, CountedType, CountType
    <2> QED
      BY <1>5, <2>3, PutType, PlaceFacts DEF OrphanEnds, TypeOK
  <1>6. CASE Cancel(j, e)
    <2>1. entry' \in [Tasks -> Entry]
      BY <1>6, PutType, PlaceFacts DEF Cancel
    <2>2. gate' \in [Gens -> Semaphore]
      BY <1>0, <1>6, GiveBackType DEF Cancel
    <2> QED
      BY <1>6, <2>1, <2>2 DEF Cancel, TypeOK
  <1>7. CASE Drain(j, e)
    <2>1. PICK written \in BOOLEAN :
            /\ job' = [job EXCEPT
                 ![j].out = IF written THEN @ \cup {e} ELSE @,
                 ![j].report = IF written /\ entry[<<j, e>>].at = "payload"
                               THEN @ ELSE @ \cup {e}]
            /\ Count(IF written \/ entry[<<j, e>>].at = "bad" THEN errors ELSE errors + 1)
      BY <1>7 DEF Drain
    <2>2. errors' \in Nat
      BY <1>0, <2>1, CountType
    <2>3. job' \in [Jobs -> Job]
      <3> DEFINE o == IF written THEN job[j].out \cup {e} ELSE job[j].out
                 r == IF written /\ entry[<<j, e>>].at = "payload"
                      THEN job[j].report ELSE job[j].report \cup {e}
      <3>1. job' = [job EXCEPT ![j].out = o, ![j].report = r]
        BY <2>1
      <3>2. o \in SUBSET Names /\ r \in SUBSET Names
        BY <1>0 DEF Job
      <3> HIDE DEF o, r
      <3> QED
        BY <1>0, <3>1, <3>2 DEF TypeOK, Job
    <2> QED
      BY <1>7, <2>2, <2>3, PutType, PlaceFacts DEF Drain, TypeOK
  <1> QED
    BY <1>1, <1>2, <1>3, <1>4, <1>5, <1>6, <1>7 DEF EntryStep

LEMMA JobStepTypeOK ==
  ASSUME IInv, NEW j \in Jobs, JobStep(j)
  PROVE  TypeOK'
  <1>0. TypeOK /\ errors \in Nat /\ job[j] \in Job /\ 0 \in Nat /\ 0 \in Gens
    BY GenFacts DEF IInv, TypeOK
  <1>1. CASE StartRefused(j)
    BY <1>0, <1>1, GotoType, CountType DEF StartRefused, TypeOK, Phases
  <1>2. ASSUME NEW bad \in SUBSET Names, Start(j, bad) PROVE TypeOK'
    <2>1. IsFiniteSet(Names)
      BY ZipAssumption, FS_Interval DEF Names
    <2>2. errors' \in Nat
      BY <1>2, <2>1, FS_Subset, FS_CardinalityType, CountType DEF Start
    <2>3. job' \in [Jobs -> Job]
      BY <1>0, <1>2 DEF Start, TypeOK, Job, Phases
    <2>4. entry' \in [Tasks -> Entry]
      BY <1>0, <1>2 DEF Start, TypeOK, Entry, Places
    <2> QED
      BY <1>0, <1>2, <2>2, <2>3, <2>4 DEF Start, TypeOK
  <1>3. CASE Refresh(j)
    <2>1. PICK n \in Gens : NewestIs(n)
      BY DEF IInv, GatesInOrder
    <2>2. /\ \E g \in Gens : job' = [job EXCEPT ![j].pc = "wait", ![j].gen = g]
          /\ gate' \in [Gens -> Semaphore]
      BY <1>0, <1>3, <2>1, RefreshEffect, CapacityPositive DEF TypeOK, Semaphore
    <2>3. job' \in [Jobs -> Job]
      <3>1. PICK g \in Gens : job' = [job EXCEPT ![j].pc = "wait", ![j].gen = g]
        BY <2>2
      <3> QED
        BY <1>0, <3>1 DEF TypeOK, Job, Phases
    <2> QED
      BY <1>0, <1>3, <2>2, <2>3 DEF Refresh, TypeOK
  <1>4. CASE Acquire(j)
    <2> DEFINE g == job[j].gen
    <2>1. g \in Gens
      BY <1>0 DEF Job
    <2>2. Todo(j) # {} /\ First(j) \in Names
      BY <1>4, FirstTodo DEF IInv, Pending, Acquire
    <2>3. gate' \in [Gens -> Semaphore]
      <3>1. gate[g] \in Semaphore /\ gate[g].free > 0
        BY <1>0, <1>4, <2>1 DEF Acquire, TypeOK
      <3>2. gate[g].free - 1 \in Nat
        BY <3>1 DEF Semaphore
      <3> QED
        BY <1>0, <1>4, <2>1, <3>1, <3>2 DEF Acquire, TypeOK, Semaphore
    <2>4. entry' \in [Tasks -> Entry]
      <3>1. entry' = [entry EXCEPT ![<<j, First(j)>>] = [at |-> "reading", gen |-> g]]
        BY <1>4 DEF Acquire, First
      <3>2. [at |-> "reading", gen |-> g] \in Entry
        BY <2>1, PlaceFacts DEF Entry
      <3> QED
        BY <1>0, <3>1, <3>2 DEF TypeOK
    <2>5. job' \in [Jobs -> Job]
      BY <1>0, <1>4 DEF Acquire, TypeOK, Job, Phases
    <2> QED
      BY <1>0, <1>4, <2>3, <2>4, <2>5 DEF Acquire, TypeOK
  <1>5. CASE StartDraining(j)
    BY <1>0, <1>5, GotoType DEF StartDraining, TypeOK, Phases
  <1>6. CASE Finish(j)
    <2>1. job' \in [Jobs -> Job]
      BY <1>0, <1>6 DEF Finish, TypeOK, Job, Phases
    <2> QED
      BY <1>0, <1>6, <2>1 DEF Finish, TypeOK
  <1>7. CASE FinishFails(j)
    BY <1>0, <1>7, GotoType DEF FinishFails, TypeOK, Phases
  <1>8. CASE Abandon(j)
    <2>1. job' \in [Jobs -> Job]
      BY <1>0, <1>8, GotoType DEF Abandon, Phases
    <2>2. entry' \in [Tasks -> Entry]
      BY <1>0, <1>8, PlaceFacts DEF Abandon, TypeOK, Entry
    <2>3. gate' \in [Gens -> Semaphore]
      BY <1>0, <1>8 DEF Abandon, TypeOK, Semaphore
    <2> QED
      BY <1>0, <1>8, <2>1, <2>2, <2>3 DEF Abandon, TypeOK
  <1> QED
    BY <1>1, <1>2, <1>3, <1>4, <1>5, <1>6, <1>7, <1>8 DEF JobStep

------------------------------------------------------------------------------
(***************************************************************************)
(* Permits and semaphores.                                                 *)
(***************************************************************************)

LEMMA EntryStepConserves ==
  ASSUME TypeOK, PermitsConserved, NEW j \in Jobs, NEW e \in Names, EntryStep(j, e)
  PROVE  PermitsConserved'
  <1> USE DEF Holding
  <1>1. CASE Skip(j, e)
    BY <1>1, ReturnConserves DEF Skip
  <1>2. CASE Spawn(j, e)
    BY <1>2, MoveConserves DEF Spawn
  <1>3. CASE StartWork(j, e)
    BY <1>3, MoveConserves DEF StartWork
  <1>4. ASSUME NEW result \in Finished, FinishWork(j, e, result)
        PROVE  PermitsConserved'
    <2>1. result \notin Holding
      BY DEF Finished
    <2> QED
      BY <1>4, <2>1, ReturnConserves DEF FinishWork
  <1>5. CASE OrphanEnds(j, e)
    BY <1>5, MoveConserves DEF OrphanEnds
  <1>6. CASE Cancel(j, e)
    BY <1>6, ReturnConserves DEF Cancel
  <1>7. CASE Drain(j, e)
    <2>1. entry[<<j, e>>].at \notin Holding
      BY <1>7 DEF Drain, Finished
    <2> QED
      BY <1>7, <2>1, MoveConserves DEF Drain
  <1> QED
    BY <1>1, <1>2, <1>3, <1>4, <1>5, <1>6, <1>7 DEF EntryStep

(* A job that starts only closes entries that hold nothing yet.            *)
LEMMA StartHolders ==
  ASSUME TypeOK, Reported, NEW j \in Jobs, NEW bad \in SUBSET Names, Start(j, bad),
         NEW g \in Gens
  PROVE  Holders(g)' = Holders(g)
  <1>1. ASSUME NEW t \in Tasks
        PROVE  \/ entry'[t] = entry[t]
               \/ /\ entry[t].at = "todo"
                  /\ entry'[t] = [entry[t] EXCEPT !.at = "over"]
    <2>1. CASE t[1] = j /\ t[2] \in bad
      <3>1. entry[t].at = "todo"
        BY <2>1 DEF Reported, Start, Tasks
      <3> QED
        BY <2>1, <3>1 DEF Start
    <2> QED
      BY <2>1 DEF Start
  <1>2. ASSUME NEW t \in Tasks PROVE t \in Holders(g)' <=> t \in Holders(g)
    BY <1>1 DEF TypeOK, Entry, Holders, Holding
  <1> QED
    BY <1>2 DEF Holders

(* Nothing the permits depend on changes.                                  *)
LEMMA SameConserves ==
  ASSUME PermitsConserved, UNCHANGED <<gate, entry>>
  PROVE  PermitsConserved'
  BY DEF PermitsConserved, Holders

LEMMA JobStepConserves ==
  ASSUME IInv, NEW j \in Jobs, JobStep(j)
  PROVE  PermitsConserved'
  <1>0. TypeOK /\ PermitsConserved
    BY DEF IInv
  <1>1. CASE StartRefused(j)
    BY <1>0, <1>1, SameConserves DEF StartRefused
  <1>2. ASSUME NEW bad \in SUBSET Names, Start(j, bad) PROVE PermitsConserved'
    <2>1. ASSUME NEW g \in Gens PROVE Holders(g)' = Holders(g)
      BY <1>2, StartHolders DEF IInv
    <2> QED
      BY <1>0, <1>2, <2>1, Zenon DEF PermitsConserved, Start
  <1>3. CASE Refresh(j)
    <2>1. PICK n \in Gens : NewestIs(n)
      BY DEF IInv, GatesInOrder
    <2>2. entry' = entry /\ \A g \in Gens : Holders(g)' = Holders(g)
      BY <1>3 DEF Refresh, Holders
    <2>3. CASE gate' = gate
      BY <1>0, <2>2, <2>3, SameConserves
    <2>4. CASE gate' # gate
      <3>1. /\ n + 1 \in Gens /\ Holders(n+1) = {}
            /\ gate' = [gate EXCEPT ![n+1] = [size |-> desired.cap, free |-> desired.cap]]
        BY <1>3, <2>1, <2>4, RefreshEffect
      <3>2. ASSUME NEW g \in Gens, g # n + 1
            PROVE  gate'[g].free + Cardinality(Holders(g)') = gate'[g].size
        <4>1. gate'[g] = gate[g] /\ Holders(g)' = Holders(g)
          BY <2>2, <3>1, <3>2 DEF TypeOK
        <4> QED
          BY <1>0, <4>1 DEF PermitsConserved
      <3>3. gate'[n+1].free + Cardinality(Holders(n+1)') = gate'[n+1].size
        <4>1. Cardinality(Holders(n+1)') = 0
          BY <2>2, <3>1, FS_EmptySet
        <4>2. gate'[n+1] = [size |-> desired.cap, free |-> desired.cap]
          BY <1>0, <3>1 DEF TypeOK
        <4> QED
          BY <1>0, <4>1, <4>2, CapacityPositive
      <3> QED
        BY <3>2, <3>3 DEF PermitsConserved
    <2> QED
      BY <2>3, <2>4
  <1>4. CASE Acquire(j)
    <2> DEFINE g == job[j].gen
    <2>1. g \in Gens /\ g = job[j].gen
      BY <1>0 DEF TypeOK, Job
    <2>2. First(j) \in Todo(j) /\ First(j) \in Names
      BY <1>4, FirstTodo DEF IInv, Pending, Acquire
    <2>3. entry[<<j, First(j)>>].at \notin Holding
      BY <2>2 DEF Todo, Holding
    <2>4. /\ gate[g].free > 0 /\ gate' = [gate EXCEPT ![g].free = @ - 1]
          /\ entry' = [entry EXCEPT ![<<j, First(j)>>] = [at |-> "reading", gen |-> g]]
      BY <1>4 DEF Acquire, First
    <2> HIDE DEF g
    <2> QED
      BY <1>0, <2>1, <2>2, <2>3, <2>4, TakeConserves
  <1>5. CASE StartDraining(j)
    BY <1>0, <1>5, SameConserves DEF StartDraining
  <1>6. CASE Finish(j)
    BY <1>0, <1>6, SameConserves DEF Finish
  <1>7. CASE FinishFails(j)
    BY <1>0, <1>7, SameConserves DEF FinishFails
  <1>8. CASE Abandon(j)
    BY <1>0, <1>8, AbandonConserves DEF IInv
  <1> QED
    BY <1>1, <1>2, <1>3, <1>4, <1>5, <1>6, <1>7, <1>8 DEF JobStep

(* Only a refresh makes a semaphore; nothing changes the size of one that  *)
(* was made.                                                               *)
LEMMA SizesKept ==
  ASSUME IInv, NEW j \in Jobs, JobStep(j) \/ (\E e \in Names : EntryStep(j, e)),
         ~ Refresh(j)
  PROVE  desired' = desired /\ \A g \in Gens : gate'[g].size = gate[g].size
  <1>0. gate \in [Gens -> Semaphore] /\ \A g \in Gens : gate[g] \in Semaphore
    BY DEF IInv, TypeOK
  <1>1. ASSUME NEW h, GiveBack(h)
        PROVE  \A g \in Gens : gate'[g].size = gate[g].size
    BY <1>0, <1>1 DEF GiveBack, Semaphore
  <1>2. ASSUME NEW e \in Names, EntryStep(j, e)
        PROVE  desired' = desired /\ \A g \in Gens : gate'[g].size = gate[g].size
    <2>1. desired' = desired /\ (gate' = gate \/ \E h : GiveBack(h))
      BY <1>2, Zenon DEF EntryStep, Skip, Spawn, StartWork, FinishWork, OrphanEnds, Cancel, Drain
    <2> QED
      BY <1>1, <2>1
  <1>3. CASE Acquire(j)
    BY <1>0, <1>3 DEF Acquire, Semaphore
  <1>4. CASE Abandon(j)
    BY <1>0, <1>4 DEF Abandon, Semaphore
  <1>5. CASE JobStep(j) /\ ~ Acquire(j) /\ ~ Abandon(j)
    <2>1. desired' = desired /\ gate' = gate
      BY <1>5 DEF JobStep, StartRefused, Start, StartDraining, Finish, FinishFails
    <2> QED
      BY <2>1
  <1> QED
    BY <1>2, <1>3, <1>4, <1>5, Zenon

LEMMA StepGates ==
  ASSUME IInv, NEW j \in Jobs, JobStep(j) \/ (\E e \in Names : EntryStep(j, e))
  PROVE  GatesInOrder'
  <1>0. TypeOK /\ desired.changes \in Nat /\ Gens \subseteq Nat
    BY GenFacts DEF IInv, TypeOK
  <1>1. PICK n \in Gens : NewestIs(n)
    BY DEF IInv, GatesInOrder
  <1>2. CASE Refresh(j)
    <2>1. desired' = desired
      BY <1>2 DEF Refresh
    <2>2. CASE gate' = gate
      BY <1>1, <2>1, <2>2 DEF GatesInOrder, NewestIs
    <2>3. CASE gate' # gate
      <3>1. /\ n + 1 \in Gens /\ n + 1 <= desired.changes
            /\ gate' = [gate EXCEPT ![n+1] = [size |-> desired.cap, free |-> desired.cap]]
        BY <1>1, <1>2, <2>3, RefreshEffect
      <3>2. gate'[n+1].size = desired.cap /\ desired.cap \in Nat /\ desired.cap > 0
        BY <1>0, <3>1, CapacityPositive DEF TypeOK
      <3>3. ASSUME NEW g \in Gens PROVE gate'[g].size > 0 <=> g <= n + 1
        <4>1. CASE g = n + 1
          BY <1>0, <3>2, <4>1
        <4>2. CASE g # n + 1
          <5>1. gate'[g] = gate[g]
            BY <1>0, <3>1, <4>2 DEF TypeOK
          <5> QED
            BY <1>0, <1>1, <4>2, <5>1 DEF NewestIs
        <4> QED
          BY <4>1, <4>2
      <3>4. NewestIs(n + 1)'
        BY <2>1, <3>1, <3>2, <3>3 DEF NewestIs
      <3> QED
        BY <3>1, <3>4 DEF GatesInOrder
    <2> QED
      BY <2>2, <2>3
  <1>3. CASE ~ Refresh(j)
    <2>1. desired' = desired /\ \A g \in Gens : gate'[g].size = gate[g].size
      BY <1>3, SizesKept
    <2>2. NewestIs(n)'
      BY <1>1, <2>1 DEF NewestIs
    <2> QED
      BY <2>2 DEF GatesInOrder
  <1> QED
    BY <1>2, <1>3

------------------------------------------------------------------------------
(***************************************************************************)
(* Phases and places.                                                      *)
(***************************************************************************)

Placed == OneReading /\ Pending /\ Reported

(* The phase a job is in, what its record says and where its entries are   *)
(* settle the three invariants; they do not compare one job with another.  *)
PlacedJob(j) ==
  /\ \A e, f \in Names : entry[<<j, e>>].at = "reading" =>
        job[j].pc = "read" /\ (entry[<<j, f>>].at = "reading" => f = e)
  /\ job[j].pc = "wait" => \E e \in Names : entry[<<j, e>>].at = "todo"
  /\ \A e \in Names :
        /\ entry[<<j, e>>].at = "over" =>
              job[j].pc = "failed" \/ e \in job[j].out \cup job[j].report
        /\ entry[<<j, e>>].at = "orphan" => job[j].pc = "failed"
        /\ job[j].pc = "idle" => entry[<<j, e>>].at = "todo"
        /\ job[j].pc = "done" => entry[<<j, e>>].at = "over"

AllPlaced == \A j \in Jobs : PlacedJob(j)

LEMMA PlacedByJob == Placed <=> AllPlaced
  <1>1. Pending <=> \A j \in Jobs :
          job[j].pc = "wait" => \E e \in Names : entry[<<j, e>>].at = "todo"
    BY DEF Pending, Todo
  <1>2. OneReading <=> \A j \in Jobs : \A e, f \in Names : entry[<<j, e>>].at = "reading" =>
          job[j].pc = "read" /\ (entry[<<j, f>>].at = "reading" => f = e)
    BY DEF OneReading
  <1>3. Reported <=> \A j \in Jobs : \A e \in Names :
          /\ entry[<<j, e>>].at = "over" =>
                job[j].pc = "failed" \/ e \in job[j].out \cup job[j].report
          /\ entry[<<j, e>>].at = "orphan" => job[j].pc = "failed"
          /\ job[j].pc = "idle" => entry[<<j, e>>].at = "todo"
          /\ job[j].pc = "done" => entry[<<j, e>>].at = "over"
    BY DEF Reported
  <1> QED
    BY <1>1, <1>2, <1>3, Zenon DEF Placed, AllPlaced, PlacedJob

(* A step of one job leaves the record and the entries of the others.      *)
LEMMA OthersUntouched ==
  ASSUME TypeOK, NEW j \in Jobs, JobStep(j) \/ (\E e \in Names : EntryStep(j, e)),
         NEW k \in Jobs, k # j
  PROVE  job'[k] = job[k] /\ \A e \in Names : entry'[<<k, e>>] = entry[<<k, e>>]
  <1>1. ASSUME NEW e \in Names, EntryStep(j, e) PROVE job'[k] = job[k]
    <2>1. CASE Skip(j, e)
      BY <2>1 DEF Skip, TypeOK
    <2>2. CASE Spawn(j, e)
      BY <2>2 DEF Spawn, Goto, TypeOK
    <2>3. CASE Drain(j, e)
      BY <2>3 DEF Drain, TypeOK
    <2>4. CASE ~ (Skip(j, e) \/ Spawn(j, e) \/ Drain(j, e))
      BY <1>1, <2>4 DEF EntryStep, StartWork, FinishWork, OrphanEnds, Cancel
    <2> QED
      BY <2>1, <2>2, <2>3, <2>4
  <1>2. ASSUME NEW e \in Names, EntryStep(j, e), NEW f \in Names
        PROVE  entry'[<<k, f>>] = entry[<<k, f>>]
    <2>1. \E place : Put(j, e, place)
      BY <1>2, Zenon DEF EntryStep, Skip, Spawn, StartWork, FinishWork, OrphanEnds, Cancel, Drain
    <2> QED
      BY <2>1 DEF Put, TypeOK, Tasks
  <1>3. ASSUME JobStep(j) PROVE job'[k] = job[k]
    BY <1>3 DEF JobStep, StartRefused, Start, Refresh, Acquire, StartDraining,
                Finish, FinishFails, Abandon, Goto, TypeOK
  <1>4. ASSUME JobStep(j), NEW f \in Names PROVE entry'[<<k, f>>] = entry[<<k, f>>]
    <2>1. CASE \E bad \in SUBSET Names : Start(j, bad)
      BY <2>1 DEF Start, Tasks
    <2>2. CASE Acquire(j)
      BY <2>2 DEF Acquire, TypeOK, Tasks
    <2>3. CASE Abandon(j)
      BY <2>3 DEF Abandon, Tasks
    <2>4. CASE ~ ((\E bad \in SUBSET Names : Start(j, bad)) \/ Acquire(j) \/ Abandon(j))
      BY <1>4, <2>4 DEF JobStep, StartRefused, Refresh, StartDraining, Finish, FinishFails
    <2> QED
      BY <2>1, <2>2, <2>3, <2>4
  <1> QED
    BY <1>1, <1>2, <1>3, <1>4

LEMMA PutEffect ==
  ASSUME TypeOK, NEW j \in Jobs, NEW e \in Names, NEW place, Put(j, e, place)
  PROVE  /\ entry'[<<j, e>>].at = place
         /\ \A f \in Names : f # e => entry'[<<j, f>>] = entry[<<j, f>>]
  BY DEF Put, TypeOK, Tasks

LEMMA EntryStepPlaced ==
  ASSUME TypeOK, NEW j \in Jobs, PlacedJob(j), NEW e \in Names, EntryStep(j, e)
  PROVE  PlacedJob(j)'
  <1>0. job \in [Jobs -> Job] /\ job[j] \in Job
    BY DEF TypeOK
  <1>1. CASE Skip(j, e)
    <2>1. /\ job'[j].pc = "acquire" /\ job'[j].out = job[j].out
          /\ job'[j].report = job[j].report \cup {e}
      BY <1>0, <1>1 DEF Skip, Job
    <2>2. entry[<<j, e>>].at = "reading" /\ job[j].pc = "read"
      BY <1>1 DEF Skip, PlacedJob
    <2> QED
      <3>1. /\ entry'[<<j, e>>].at = "over"
            /\ \A f \in Names : f # e => entry'[<<j, f>>] = entry[<<j, f>>]
        BY <1>1, PutEffect DEF Skip
      <3>2. \A f \in Names : entry'[<<j, f>>].at # "reading"
        BY <2>2, <3>1 DEF PlacedJob
      <3> QED
        BY <2>1, <2>2, <3>1, <3>2 DEF PlacedJob
  <1>2. CASE Spawn(j, e)
    <2>1. /\ job'[j].pc = "acquire" /\ job'[j].out = job[j].out
          /\ job'[j].report = job[j].report
      BY <1>0, <1>2 DEF Spawn, Goto, Job
    <2>2. entry[<<j, e>>].at = "reading" /\ job[j].pc = "read"
      BY <1>2 DEF Spawn, PlacedJob
    <2> QED
      BY <1>2, <2>1, <2>2, PutEffect DEF Spawn, PlacedJob
  <1>3. CASE StartWork(j, e)
    BY <1>3, PutEffect DEF StartWork, PlacedJob
  <1>4. ASSUME NEW result \in Finished, FinishWork(j, e, result) PROVE PlacedJob(j)'
    <2>1. result \notin {"todo", "over", "orphan", "reading"}
      BY DEF Finished
    <2> QED
      BY <1>4, <2>1, PutEffect DEF FinishWork, PlacedJob
  <1>5. CASE OrphanEnds(j, e)
    BY <1>5, PutEffect DEF OrphanEnds, PlacedJob
  <1>6. CASE Cancel(j, e)
    <2>1. CASE entry[<<j, e>>].at = "spawned" /\ Put(j, e, "over")
      BY <1>6, <2>1, PutEffect DEF Cancel, PlacedJob
    <2>2. CASE entry[<<j, e>>].at = "working" /\ Put(j, e, "orphan")
      BY <1>6, <2>2, PutEffect DEF Cancel, PlacedJob
    <2> QED
      BY <1>6, <2>1, <2>2 DEF Cancel
  <1>7. CASE Drain(j, e)
    <2>1. PICK written \in BOOLEAN :
            job' = [job EXCEPT
              ![j].out = IF written THEN @ \cup {e} ELSE @,
              ![j].report = IF written /\ entry[<<j, e>>].at = "payload"
                            THEN @ ELSE @ \cup {e}]
      BY <1>7 DEF Drain
    <2>2. /\ job'[j].pc = "drain" /\ job[j].pc = "drain"
          /\ job[j].out \cup job[j].report \cup {e} \subseteq job'[j].out \cup job'[j].report
      <3>1. /\ job'[j].pc = job[j].pc
            /\ job'[j].out = IF written THEN job[j].out \cup {e} ELSE job[j].out
            /\ job'[j].report = IF written /\ entry[<<j, e>>].at = "payload"
                                THEN job[j].report ELSE job[j].report \cup {e}
        BY <1>0, <2>1 DEF Job
      <3> QED
        BY <1>7, <3>1 DEF Drain
    <2>3. /\ entry'[<<j, e>>].at = "over"
          /\ \A f \in Names : f # e => entry'[<<j, f>>] = entry[<<j, f>>]
      BY <1>7, PutEffect DEF Drain
    <2> QED
      BY <2>2, <2>3 DEF PlacedJob
  <1> QED
    BY <1>1, <1>2, <1>3, <1>4, <1>5, <1>6, <1>7 DEF EntryStep

LEMMA JobStepPlaced ==
  ASSUME TypeOK, NEW j \in Jobs, PlacedJob(j), JobStep(j)
  PROVE  PlacedJob(j)'
  <1>0. job \in [Jobs -> Job] /\ job[j] \in Job /\ \A e \in Names : <<j, e>> \in Tasks
    BY DEF TypeOK, Tasks
  <1>1. CASE StartRefused(j)
    <2>1. job'[j].pc = "failed"
      BY <1>0, <1>1 DEF StartRefused, Goto, Job
    <2> QED
      BY <1>1, <2>1 DEF StartRefused, PlacedJob
  <1>2. ASSUME NEW bad \in SUBSET Names, Start(j, bad) PROVE PlacedJob(j)'
    <2>1. job'[j].pc = "acquire" /\ job'[j].report = bad
      BY <1>0, <1>2 DEF Start, Job
    <2>2. ASSUME NEW e \in Names
          PROVE  entry'[<<j, e>>].at = IF e \in bad THEN "over" ELSE "todo"
      <3>1. entry[<<j, e>>].at = "todo" /\ entry[<<j, e>>] \in Entry
        BY <1>0, <1>2 DEF Start, PlacedJob, TypeOK
      <3> QED
        BY <1>0, <1>2, <3>1 DEF Start, Entry
    <2> QED
      BY <2>1, <2>2 DEF PlacedJob
  <1>3. CASE Refresh(j)
    <2>1. job'[j].pc = "wait" /\ job'[j].out = job[j].out /\ job'[j].report = job[j].report
      BY <1>0, <1>3 DEF Refresh, Job
    <2>2. \E e \in Names : entry[<<j, e>>].at = "todo"
      BY <1>3 DEF Refresh, Todo
    <2> QED
      BY <1>3, <2>1, <2>2 DEF Refresh, PlacedJob
  <1>4. CASE Acquire(j)
    <2>1. job'[j].pc = "read" /\ job'[j].out = job[j].out /\ job'[j].report = job[j].report
      BY <1>0, <1>4 DEF Acquire, Job
    <2>2. Todo(j) # {}
      BY <1>4 DEF Acquire, PlacedJob, Todo
    <2>3. First(j) \in Names /\ entry[<<j, First(j)>>].at = "todo"
      BY <2>2, FirstTodo DEF Todo
    <2>4. entry' = [entry EXCEPT ![<<j, First(j)>>] = [at |-> "reading", gen |-> job[j].gen]]
      BY <1>4 DEF Acquire, First
    <2>5. /\ entry'[<<j, First(j)>>].at = "reading"
          /\ \A f \in Names : f # First(j) => entry'[<<j, f>>] = entry[<<j, f>>]
      BY <1>0, <2>3, <2>4 DEF TypeOK
    <2>6. job[j].pc = "wait"
      BY <1>4 DEF Acquire
    <2> QED
      BY <2>1, <2>3, <2>5, <2>6 DEF PlacedJob
  <1>5. CASE StartDraining(j)
    <2>1. job'[j].pc = "drain" /\ job'[j].out = job[j].out /\ job'[j].report = job[j].report
      BY <1>0, <1>5 DEF StartDraining, Goto, Job
    <2> QED
      BY <1>5, <2>1 DEF StartDraining, PlacedJob
  <1>6. CASE Finish(j)
    <2>1. job'[j].pc = "done" /\ job'[j].out = job[j].out /\ job'[j].report = job[j].report
      BY <1>0, <1>6 DEF Finish, Job
    <2> QED
      BY <1>6, <2>1 DEF Finish, Drained, PlacedJob
  <1>7. CASE FinishFails(j)
    <2>1. job'[j].pc = "failed"
      BY <1>0, <1>7 DEF FinishFails, Goto, Job
    <2> QED
      BY <1>7, <2>1 DEF FinishFails, Drained, PlacedJob
  <1>8. CASE Abandon(j)
    <2>1. job'[j].pc = "failed"
      BY <1>0, <1>8 DEF Abandon, Goto, Job
    <2>2. ASSUME NEW e \in Names PROVE entry'[<<j, e>>].at # "reading"
      BY <1>0, <1>8 DEF Abandon
    <2> QED
      BY <2>1, <2>2 DEF PlacedJob
  <1> QED
    BY <1>1, <1>2, <1>3, <1>4, <1>5, <1>6, <1>7, <1>8 DEF JobStep

------------------------------------------------------------------------------
(***************************************************************************)
(* The theorems.                                                           *)
(***************************************************************************)

LEMMA InitIInv == Init => IInv
  <1> SUFFICES ASSUME Init PROVE IInv
    OBVIOUS
  <1>0. PICK c \in Capacities :
          /\ desired = [cap |-> c, changes |-> 0]
          /\ gate = [g \in Gens |-> IF g = 0 THEN [size |-> c, free |-> c]
                                             ELSE [size |-> 0, free |-> 0]]
    BY DEF Init
  <1>1. TypeOK
    BY <1>0, GenFacts, CapacitiesPositive
       DEF Init, TypeOK, Semaphore, Job, Entry, Phases, Places
  <1>2. PermitsConserved
    <2>1. ASSUME NEW g \in Gens PROVE Cardinality(Holders(g)) = 0
      <3>1. Holders(g) = {}
        BY DEF Init, Holders, Holding
      <3> QED
        BY <3>1, FS_EmptySet
    <2> QED
      BY <1>0, <2>1, GenFacts, CapacitiesPositive DEF PermitsConserved
  <1>3. GatesInOrder
    <2>1. NewestIs(0)
      BY <1>0, GenFacts, CapacitiesPositive DEF NewestIs
    <2> QED
      BY <2>1, GenFacts DEF GatesInOrder
  <1>4. OneReading /\ Pending /\ Reported
    BY DEF Init, OneReading, Pending, Reported, Tasks
  <1> QED
    BY <1>1, <1>2, <1>3, <1>4 DEF IInv

LEMMA NextIInv == IInv /\ [Next]_vars => IInv'
  <1> SUFFICES ASSUME IInv, [Next]_vars PROVE IInv'
    OBVIOUS
  <1>1. ASSUME NEW c \in Capacities, ChangeCapacity(c) PROVE IInv'
    <2>0. desired.changes < MaxChanges /\ desired.changes \in Gens
      BY <1>1 DEF ChangeCapacity, IInv, TypeOK
    <2>1. desired.changes \in Nat /\ desired.changes + 1 \in Gens
      BY <2>0, ZipAssumption DEF Gens
    <2>2. desired' = [cap |-> c, changes |-> desired.changes + 1]
      BY <1>1 DEF ChangeCapacity
    <2>3. TypeOK'
      BY <1>1, <2>1, <2>2 DEF ChangeCapacity, IInv, TypeOK
    <2>4. GatesInOrder'
      <3>1. PICK n \in Gens : NewestIs(n)
        BY DEF IInv, GatesInOrder
      <3>2. NewestIs(n)'
        BY <1>1, <2>1, <2>2, <3>1, GenFacts DEF NewestIs, ChangeCapacity
      <3> QED
        BY <3>2 DEF GatesInOrder
    <2>5. PermitsConserved'
      BY <1>1, SameConserves DEF ChangeCapacity, IInv
    <2>6. OneReading' /\ Pending' /\ Reported'
      BY <1>1 DEF ChangeCapacity, IInv, OneReading, Pending, Reported, Todo
    <2> QED
      BY <2>3, <2>4, <2>5, <2>6 DEF IInv
  <1>2. ASSUME NEW j \in Jobs, JobStep(j) \/ (\E e \in Names : EntryStep(j, e))
        PROVE  IInv'
    <2>1. TypeOK'
      BY <1>2, JobStepTypeOK, EntryStepTypeOK DEF IInv
    <2>2. PermitsConserved'
      BY <1>2, JobStepConserves, EntryStepConserves DEF IInv
    <2>3. GatesInOrder'
      BY <1>2, StepGates
    <2>4. TypeOK /\ \A k \in Jobs : PlacedJob(k)
      BY PlacedByJob DEF IInv, Placed, AllPlaced
    <2>5. PlacedJob(j)'
      BY <1>2, <2>4, JobStepPlaced, EntryStepPlaced
    <2>6. ASSUME NEW k \in Jobs, k # j PROVE PlacedJob(k)'
      BY <1>2, <2>4, <2>6, OthersUntouched DEF PlacedJob
    <2>7. Placed'
      <3>1. AllPlaced'
        BY <2>5, <2>6 DEF AllPlaced
      <3> QED
        BY <3>1, PlacedByJob, PTL
    <2> QED
      BY <2>1, <2>2, <2>3, <2>7 DEF IInv, Placed
  <1>3. CASE UNCHANGED vars
    BY <1>3 DEF vars, IInv, TypeOK, PermitsConserved, Holders, GatesInOrder, NewestIs,
                OneReading, Pending, Reported, Todo
  <1> QED
    BY <1>1, <1>2, <1>3, NextSplits

(* The invariant holds in every reachable state, for any number of jobs,   *)
(* entries, permits and changes of the capacity.                           *)
THEOREM Inductive == Spec => []IInv
  BY InitIInv, NextIInv, PTL DEF Spec

(* Every reachable state is well typed; above all no semaphore hands out a *)
(* permit it does not have, since `free` is a natural number.              *)
THEOREM TypeCorrect == Spec => []TypeOK
  <1>1. IInv => TypeOK
    BY DEF IInv
  <1> QED
    BY <1>1, Inductive, PTL

(* On every path an entry or its job may end, permits free and permits     *)
(* held add up to the size of the semaphore they came from                 *)
(* (zip_worker.rs:238-263).                                                *)
THEOREM PermitsNeverLost == Spec => []PermitsConserved
  <1>1. IInv => PermitsConserved
    BY DEF IInv
  <1> QED
    BY <1>1, Inductive, PTL

(* A job that ends well wrote or reported every entry                      *)
(* (zip_worker.rs:586-692).                                                *)
THEOREM EveryEntryAccounted == Spec => []NothingLost
  <1>1. IInv => NothingLost
    BY DEF IInv, TypeOK, Job, Reported, NothingLost
  <1> QED
    BY <1>1, Inductive, PTL

------------------------------------------------------------------------------
(***************************************************************************)
(* Each semaphore is a bounded exclusive resource (BoundedSlots).  Its     *)
(* size is fixed when it is made, so it is a parameter here.               *)
(***************************************************************************)
Slots(g, L) == INSTANCE BoundedSlots WITH Clients <- Tasks, Limit <- L, held <- Holders(g)

LEMMA SameCount ==
  ASSUME NEW g, NEW L
  PROVE  Slots(g, L)!Cardinality(Holders(g)) = Cardinality(Holders(g))
  BY DEF Slots!Cardinality, Cardinality

LEMMA GiveSlot ==
  ASSUME NEW g, NEW L, NEW t \in Tasks, t \in Holders(g), Holders(g)' = Holders(g) \ {t}
  PROVE  Slots(g, L)!Next
  BY DEF Slots!Next, Slots!Give

LEMMA TakeSlot ==
  ASSUME NEW g, NEW L, NEW t \in Tasks, t \notin Holders(g),
         Cardinality(Holders(g)) < L, Holders(g)' = Holders(g) \cup {t}
  PROVE  Slots(g, L)!Next
  BY SameCount DEF Slots!Next, Slots!Take

(* A step of an entry moves no permit or gives one back.                   *)
LEMMA EntryStepSlots ==
  ASSUME TypeOK, NEW j \in Jobs, NEW e \in Names, EntryStep(j, e),
         NEW g \in Gens, NEW L
  PROVE  Slots(g, L)!Next \/ UNCHANGED Holders(g)
  <1> USE DEF Holding
  <1>0. <<j, e>> \in Tasks
    BY DEF Tasks
  <1>1. ASSUME NEW place, Put(j, e, place), place \in Holding <=> entry[<<j, e>>].at \in Holding
        PROVE  UNCHANGED Holders(g)
    BY <1>1, MoveHolders
  <1>2. ASSUME NEW place, Put(j, e, place), entry[<<j, e>>].at \in Holding, place \notin Holding
        PROVE  Slots(g, L)!Next \/ UNCHANGED Holders(g)
    <2>1. /\ <<j, e>> \in Holders(entry[<<j, e>>].gen)
          /\ Holders(g)' = IF g = entry[<<j, e>>].gen
                           THEN Holders(g) \ {<<j, e>>} ELSE Holders(g)
      BY <1>2, ReturnHolders
    <2> QED
      BY <1>0, <2>1, GiveSlot
  <1>3. CASE Skip(j, e)
    BY <1>2, <1>3 DEF Skip
  <1>4. CASE Spawn(j, e)
    BY <1>1, <1>4 DEF Spawn
  <1>5. CASE StartWork(j, e)
    BY <1>1, <1>5 DEF StartWork
  <1>6. ASSUME NEW result \in Finished, FinishWork(j, e, result)
        PROVE  Slots(g, L)!Next \/ UNCHANGED Holders(g)
    BY <1>2, <1>6 DEF FinishWork, Finished
  <1>7. CASE OrphanEnds(j, e)
    BY <1>1, <1>7 DEF OrphanEnds
  <1>8. CASE Cancel(j, e)
    BY <1>2, <1>8 DEF Cancel
  <1>9. CASE Drain(j, e)
    BY <1>1, <1>9 DEF Drain, Finished
  <1> QED
    BY <1>3, <1>4, <1>5, <1>6, <1>7, <1>8, <1>9 DEF EntryStep

(* A step of a job takes one permit, gives one back, or moves none.        *)
LEMMA JobStepSlots ==
  ASSUME IInv, NEW j \in Jobs, JobStep(j),
         NEW g \in Gens, NEW L \in Nat, gate[g].size \in {0, L}
  PROVE  Slots(g, L)!Next \/ UNCHANGED Holders(g)
  <1>0. TypeOK /\ PermitsConserved /\ OneReading /\ Reported
    BY DEF IInv
  <1>1. ASSUME NEW bad \in SUBSET Names, Start(j, bad) PROVE UNCHANGED Holders(g)
    BY <1>0, <1>1, StartHolders
  <1>2. CASE Acquire(j)
    <2> DEFINE k == job[j].gen
    <2>1. k \in Gens
      BY <1>0 DEF TypeOK, Job
    <2>2. /\ First(j) \in Names /\ <<j, First(j)>> \in Tasks
          /\ entry[<<j, First(j)>>].at \notin Holding
      BY <1>2, FirstTodo DEF IInv, Pending, Acquire, Todo, Holding, Tasks
    <2>3. /\ gate[k].free > 0
          /\ entry' = [entry EXCEPT ![<<j, First(j)>>] = [at |-> "reading", gen |-> k]]
      BY <1>2 DEF Acquire, First
    <2>4. /\ <<j, First(j)>> \notin Holders(k)
          /\ Holders(g)' = IF g = k THEN Holders(g) \cup {<<j, First(j)>>} ELSE Holders(g)
      BY <1>0, <2>1, <2>2, <2>3, TakeHolders
    <2>5. CASE g = k
      <3>1. /\ gate[g].free + Cardinality(Holders(g)) = gate[g].size
            /\ gate[g].free \in Nat /\ Cardinality(Holders(g)) \in Nat
        BY <1>0, HoldersFinite DEF PermitsConserved, TypeOK, Semaphore
      <3>2. Cardinality(Holders(g)) < L
        BY <2>3, <2>5, <3>1
      <3> QED
        BY <2>2, <2>4, <2>5, <3>2, TakeSlot
    <2> QED
      BY <2>4, <2>5
  <1>3. CASE Abandon(j)
    <2>1. Holders(g)' = Holders(g) \ ReadBy(j, g)
      BY <1>0, <1>3, AbandonHolders
    <2>2. CASE \E t \in Holders(g) : ReadBy(j, g) = {t}
      <3>1. PICK t \in Holders(g) : ReadBy(j, g) = {t}
        BY <2>2
      <3>2. t \in Tasks /\ Holders(g)' = Holders(g) \ {t}
        BY <2>1, <3>1 DEF Holders
      <3> QED
        BY <3>1, <3>2, GiveSlot
    <2>3. CASE ReadBy(j, g) = {}
      BY <2>1, <2>3
    <2> QED
      BY <1>0, <1>3, <2>2, <2>3, AbandonHolders
  <1>4. CASE JobStep(j) /\ entry' = entry
    BY <1>4 DEF Holders
  <1> QED
    BY <1>1, <1>2, <1>3, <1>4
       DEF JobStep, StartRefused, Refresh, StartDraining, Finish, FinishFails

(* A semaphore keeps its size from the moment it is made                   *)
(* (zip_worker.rs:238-263).                                                *)
SizeFixed ==
  [][\A g \in Gens : gate[g].size > 0 => gate'[g].size = gate[g].size]_vars

(* The size of a semaphore never changes once it is made: a changed        *)
(* capacity makes another one (zip_worker.rs:238-263).                     *)
THEOREM SizesNeverChange == Spec => SizeFixed
  <1> DEFINE Kept == \A g \in Gens : gate[g].size > 0 => gate'[g].size = gate[g].size
  <1>1. IInv /\ [Next]_vars => Kept
    <2> SUFFICES ASSUME IInv, [Next]_vars PROVE Kept
      OBVIOUS
    <2>1. ASSUME NEW j \in Jobs, Refresh(j) PROVE Kept
      <3>1. PICK n \in Gens : NewestIs(n)
        BY DEF IInv, GatesInOrder
      <3>2. CASE gate' = gate
        BY <3>2
      <3>3. CASE gate' # gate
        <4>1. /\ n + 1 \in Gens /\ gate[n+1] = [size |-> 0, free |-> 0]
              /\ gate' = [gate EXCEPT ![n+1] = [size |-> desired.cap, free |-> desired.cap]]
          BY <2>1, <3>1, <3>3, RefreshEffect
        <4>2. ASSUME NEW g \in Gens, gate[g].size > 0 PROVE gate'[g] = gate[g]
          <5>1. g # n + 1
            BY <4>1, <4>2
          <5> QED
            BY <4>1, <5>1 DEF IInv, TypeOK
        <4> QED
          BY <4>2
      <3> QED
        BY <3>2, <3>3
    <2>2. CASE UNCHANGED gate
      BY <2>2
    <2> QED
      BY <2>1, <2>2, SizesKept, NextSplits DEF ChangeCapacity, vars
  <1> QED
    BY <1>1, Inductive, PTL DEF Spec, SizeFixed

(* The semaphore of every generation, once made with L permits, behaves as *)
(* a resource of L slots: at most L tasks hold one, and a step takes one   *)
(* slot while one is free or gives one back, whichever semaphore is the    *)
(* newest meanwhile (zip_worker.rs:238-263).                               *)
THEOREM GateRefinesSlots ==
  ASSUME NEW g \in Gens, NEW L \in Nat
  PROVE  Spec /\ [](gate[g].size \in {0, L}) => Slots(g, L)!Spec
  <1>1. Init => Slots(g, L)!Init
    BY DEF Init, Slots!Init, Holders, Holding
  <1>2. IInv /\ gate[g].size \in {0, L} /\ [Next]_vars => [Slots(g, L)!Next]_(Holders(g))
    <2> SUFFICES ASSUME IInv, gate[g].size \in {0, L}, [Next]_vars
                 PROVE  Slots(g, L)!Next \/ UNCHANGED Holders(g)
      OBVIOUS
    <2>1. ASSUME NEW c \in Capacities, ChangeCapacity(c) PROVE UNCHANGED Holders(g)
      BY <2>1 DEF ChangeCapacity, Holders
    <2>2. ASSUME NEW j \in Jobs, JobStep(j) PROVE Slots(g, L)!Next \/ UNCHANGED Holders(g)
      BY <2>2, JobStepSlots
    <2>3. ASSUME NEW j \in Jobs, NEW e \in Names, EntryStep(j, e)
          PROVE  Slots(g, L)!Next \/ UNCHANGED Holders(g)
      BY <2>3, EntryStepSlots DEF IInv
    <2>4. CASE UNCHANGED vars
      BY <2>4 DEF vars, Holders
    <2> QED
      BY <2>1, <2>2, <2>3, <2>4, NextSplits
  <1> QED
    BY <1>1, <1>2, Inductive, PTL DEF Spec, Slots!Spec
==============================================================================
