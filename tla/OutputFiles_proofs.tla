-------------------------- MODULE OutputFiles_proofs --------------------------
(***************************************************************************)
(* Proofs about OutputFiles, for any requests, jobs, archives, sizes and   *)
(* caps.  First, what the lock and the guards of the handlers keep true of *)
(* the uploads on disk, and of a batch's byte budget: nearly every action  *)
(* either ends its actor (Return) or moves an actor that is at work on to  *)
(* another stage of its work, and one lemma for each carries the proof.    *)
(* Then what the output files hold: there an action writes a file, opens   *)
(* one, or does neither, and again there is one lemma for each.            *)
(***************************************************************************)
EXTENDS OutputFiles, FiniteSetTheorems, TLAPS

(* The stages in which a request works on its uploads.                     *)
Busy == Stages \ (Ended \cup {"idle", "streaming", "detached"})

(* The inductive invariant: the progress records are well formed, an       *)
(* upload being spooled is one that was sent, a request at work holds the  *)
(* lock, and what is on disk belongs to a request at work or was cut.      *)
Shape(l) ==
  l \in [pc : Stages, k : Nat, fd : {l.fd}, outs : SUBSET Nat, hard : Nat, bytes : Nat,
         merged : BOOLEAN]
Progress ==
  /\ DOMAIN act = Actors
  /\ act = [a \in Actors |-> act[a]]
  /\ \A a \in Actors : Shape(act[a])
Sent == \A r \in Requests : act[r].pc = "spooling" => act[r].k \in 1..Len(Sends[r])
OneRequestAtATime == \A r \in Requests : act[r].pc \in Busy => lock = r
Owned ==
  \A s \in spools : s[1] \in Requests /\ act[s[1]].pc \notin {"idle", "streaming", "detached"}
IInv == Progress /\ Sent /\ OneRequestAtATime /\ Owned /\ OnlyCutUploadLeft

(* The step form of BudgetUntilSpent.                                      *)
Budget == \A r \in Batches : MaxTotal > 0 /\ act'[r].bytes > MaxTotal => act[r].bytes >= MaxTotal

LEMMA Numbers ==
  ASSUME Progress
  PROVE  MaxTotal \in Nat /\ \A a \in Actors : act[a].bytes \in Nat
<1>1. MaxTotal \in Nat
  BY OutputAssumption
<1>2. \A a \in Actors : act[a].bytes \in Nat
  BY DEF Progress, Shape
<1> QED
  BY <1>1, <1>2

LEMMA InitInv == Init => IInv
<1> SUFFICES ASSUME Init PROVE IInv
  OBVIOUS
<1>1. \A a \in Actors : Shape(act[a]) /\ act[a].pc \in {"idle", "process"}
  <2> SUFFICES ASSUME NEW a \in Actors
               PROVE  Shape(act[a]) /\ act[a].pc \in {"idle", "process"}
    OBVIOUS
  <2>1. CASE a \in S3Jobs
    <3>1. act[a] = [pc |-> "process", k |-> 1, fd |-> None, outs |-> {}, hard |-> 0,
                    bytes |-> 0, merged |-> FALSE]
      BY <2>1 DEF Init, Locals
    <3> QED
      BY <3>1 DEF Shape, Stages, Ended
  <2>2. CASE a \notin S3Jobs
    <3>1. act[a] = Locals
      BY <2>2 DEF Init
    <3> QED
      BY <3>1 DEF Locals, Shape, Stages, Ended
  <2> QED
    BY <2>1, <2>2
<1>2. Progress
  BY <1>1 DEF Init, Progress
<1>3. \A r \in Requests : act[r].pc = "idle"
  BY OutputAssumption DEF Init, Locals, Requests, Actors
<1>4. Sent /\ OneRequestAtATime /\ Owned /\ OnlyCutUploadLeft
  BY <1>3 DEF Init, Sent, OneRequestAtATime, Owned, OnlyCutUploadLeft, Busy
<1> QED
  BY <1>2, <1>4 DEF IInv

(* Steps that leave the actors, the lock and the uploads alone.            *)
LEMMA Unmoved ==
  ASSUME IInv, UNCHANGED <<act, lock, spools>>
  PROVE  IInv' /\ Budget
<1>1. IInv'
  BY DEF IInv, Progress, Shape, Sent, OneRequestAtATime, Owned, OnlyCutUploadLeft
<1>2. Budget
  BY Numbers DEF IInv, Budget, Actors, Requests
<1> QED
  BY <1>1, <1>2

(* An actor that needs its uploads no longer: none is left, but one that   *)
(* was cut.                                                                *)
LEMMA EndKeeps ==
  ASSUME IInv, NEW a \in Actors, NEW l, Shape(l), act' = [act EXCEPT ![a] = l],
         l.pc \in Ended \cup {"streaming", "detached"}, l.bytes \in {0, act[a].bytes},
         \A r \in Requests \ {a} : lock = r => lock' = r,
         spools' \subseteq spools,
         \A s \in spools' : s[1] = a => l.pc = "gone" /\ s[2] = l.k
  PROVE  IInv' /\ Budget
<1>1. /\ DOMAIN act' = Actors
      /\ act'[a] = l
      /\ \A b \in Actors \ {a} : act'[b] = act[b]
  BY DEF IInv, Progress
<1>2. Progress'
  BY <1>1 DEF IInv, Progress
<1>3. Sent' /\ OneRequestAtATime'
  BY <1>1 DEF IInv, Sent, OneRequestAtATime, Requests, Actors, Ended, Busy
<1>4. Owned' /\ OnlyCutUploadLeft'
  BY <1>1 DEF IInv, Owned, OnlyCutUploadLeft, Requests, Actors
<1>5. Budget
  BY <1>1, Numbers DEF IInv, Budget, Actors, Requests
<1> QED
  BY <1>2, <1>3, <1>4, <1>5 DEF IInv

LEMMA ReturnKeeps ==
  ASSUME IInv, NEW a \in Actors, NEW p \in Ended, Return(a, p)
  PROVE  IInv' /\ Budget
<1> DEFINE l == [Locals EXCEPT !.pc = p]
<1>1. Shape(l) /\ l.pc = p /\ l.bytes = 0
  BY DEF Shape, Locals, Stages
<1>2. act' = [act EXCEPT ![a] = l]
  BY DEF Return
<1> HIDE DEF l
<1> QED
  BY <1>1, <1>2, EndKeeps, OutputAssumption DEF Return

(* An actor at work goes on, within its budget.                            *)
LEMMA MoveKeeps ==
  ASSUME IInv, NEW a \in Actors, NEW l, Shape(l), act' = [act EXCEPT ![a] = l],
         act[a].pc \in Busy \/ a \in S3Jobs, l.pc \in Busy,
         l.pc = "spooling" /\ a \in Requests => l.k \in 1..Len(Sends[a]),
         a \in Batches /\ MaxTotal > 0 /\ l.bytes > MaxTotal => act[a].bytes >= MaxTotal,
         lock' = lock,
         \A s \in spools' : s \in spools \/ (s[1] = a /\ a \in Requests)
  PROVE  IInv' /\ Budget
<1>1. /\ DOMAIN act' = Actors
      /\ act'[a] = l
      /\ \A b \in Actors \ {a} : act'[b] = act[b]
  BY DEF IInv, Progress
<1>2. Progress'
  BY <1>1 DEF IInv, Progress
<1>3. Sent' /\ OneRequestAtATime'
  BY <1>1, OutputAssumption DEF IInv, Sent, OneRequestAtATime, Requests, Actors
<1>4. Owned' /\ OnlyCutUploadLeft'
  BY <1>1, OutputAssumption DEF IInv, Owned, OnlyCutUploadLeft, Requests, Actors, Busy
<1>5. Budget
  BY <1>1, Numbers DEF IInv, Budget, Actors, Requests
<1> QED
  BY <1>2, <1>3, <1>4, <1>5 DEF IInv

------------------------------------------------------------------------------
LEMMA BeginKeeps ==
  ASSUME IInv, NEW r \in Requests, Begin(r)
  PROVE  IInv' /\ Budget
<1>1. CASE lock # None /\ Goto(r, "busy") /\ UNCHANGED lock
  <2> DEFINE l == [act[r] EXCEPT !.pc = "busy"]
  <2>1. Shape(l) /\ l.pc = "busy" /\ l.bytes = act[r].bytes
    BY DEF IInv, Progress, Shape, Stages, Ended, Actors
  <2>2. act' = [act EXCEPT ![r] = l]
    BY <1>1 DEF Goto
  <2>3. \A s \in spools : s[1] # r
    BY DEF IInv, Owned, Begin
  <2> HIDE DEF l
  <2> QED
    BY <1>1, <2>1, <2>2, <2>3, EndKeeps DEF Begin, Ended, Actors
<1>2. CASE lock = None /\ Goto(r, "next") /\ lock' = r
  <2> DEFINE l == [act[r] EXCEPT !.pc = "next"]
  <2>1. Shape(l) /\ l.pc = "next" /\ l.bytes = act[r].bytes
    BY DEF IInv, Progress, Shape, Stages, Ended, Actors
  <2>2. /\ DOMAIN act' = Actors
        /\ act' = [act EXCEPT ![r] = l]
        /\ act'[r] = l
        /\ \A b \in Actors \ {r} : act'[b] = act[b]
    BY <1>2 DEF Goto, IInv, Progress, Actors
  <2> HIDE DEF l
  <2>3. \A q \in Requests \ {r} : act[q].pc \notin Busy
    BY <1>2, OutputAssumption DEF IInv, OneRequestAtATime, Actors
  <2>4. spools' = spools
    BY DEF Begin
  <2>5. Progress'
    BY <2>1, <2>2 DEF IInv, Progress
  <2>6. Sent' /\ OneRequestAtATime'
    BY <1>2, <2>1, <2>2, <2>3 DEF IInv, Sent, OneRequestAtATime, Actors
  <2>7. Owned' /\ OnlyCutUploadLeft'
    BY <2>1, <2>2, <2>4 DEF IInv, Owned, OnlyCutUploadLeft, Actors, Ended
  <2>8. Budget
    BY <2>1, <2>2, Numbers DEF IInv, Budget, Actors, Requests
  <2> QED
    BY <2>5, <2>6, <2>7, <2>8 DEF IInv
<1> QED
  BY <1>1, <1>2 DEF Begin

LEMMA ReceiveKeeps ==
  ASSUME IInv, NEW r \in Requests, Receive(r)
  PROVE  IInv' /\ Budget
<1> DEFINE l == [act[r] EXCEPT !.pc = "spooling", !.k = @ + 1]
<1>1. Shape(l) /\ l.pc = "spooling" /\ l.bytes = act[r].bytes
  <2>1. Shape(act[r])
    BY DEF IInv, Progress, Actors
  <2>2. act[r].k + 1 \in Nat
    BY <2>1 DEF Shape
  <2> QED
    BY <2>1, <2>2 DEF Shape, Stages
<1>2. l.k \in 1..Len(Sends[r])
  <2>1. act[r].k \in Nat /\ l.k = act[r].k + 1
    BY DEF IInv, Progress, Shape, Actors
  <2>2. Len(Sends[r]) \in Nat /\ act[r].k < Len(Sends[r])
    BY OutputAssumption DEF Receive, Actors
  <2> HIDE DEF l
  <2> QED
    BY <2>1, <2>2
<1>3. act' = [act EXCEPT ![r] = l] /\ act[r].pc = "next"
  BY DEF Receive
<1>4. lock' = lock /\ \A s \in spools' : s \in spools \/ s[1] = r
  BY DEF Receive
<1> HIDE DEF l
<1>5. r \in Batches /\ MaxTotal > 0 /\ l.bytes > MaxTotal => act[r].bytes >= MaxTotal
  BY <1>1, Numbers DEF IInv, Actors
<1> QED
  BY <1>1, <1>2, <1>3, <1>4, <1>5, MoveKeeps DEF Actors, Busy, Stages, Ended

(* The cap of a batch that has not used up its total is what remains of    *)
(* it, or less.                                                            *)
LEMMA CapWithin ==
  ASSUME IInv, NEW r \in Batches, MaxTotal > 0, act[r].bytes < MaxTotal
  PROVE  Cap(r) \in 1..(MaxTotal - act[r].bytes)
<1>1. MaxTotal \in Nat /\ act[r].bytes \in Nat /\ MaxArchive \in Nat
  BY Numbers, OutputAssumption DEF IInv, Actors, Requests
<1>2. Remaining(r) = MaxTotal - act[r].bytes
  BY <1>1 DEF Remaining
<1>3. Cap(r) = MinCap(MaxArchive, MaxTotal - act[r].bytes)
  BY <1>2, OutputAssumption DEF Cap
<1> QED
  BY <1>1, <1>3 DEF MinCap

LEMMA SpooledKeeps ==
  ASSUME IInv, NEW r \in Requests, Spooled(r)
  PROVE  IInv' /\ Budget
<1>1. PICK size \in Sizes(r) :
        /\ Cap(r) = 0 \/ size <= Cap(r)
        /\ act' = [act EXCEPT ![r].pc = "process", ![r].bytes = @ + size]
  BY DEF Spooled
<1>2. size \in Nat
  <2>1. Sends[r] \in Seq(Uploads) /\ act[r].k \in 1..Len(Sends[r])
    BY OutputAssumption DEF IInv, Sent, Spooled, Actors
  <2>2. Sends[r][act[r].k] \in Uploads
    BY <2>1
  <2> QED
    BY <2>2, OutputAssumption DEF Sizes
<1> DEFINE l == [act[r] EXCEPT !.pc = "process", !.bytes = @ + size]
<1>3. Shape(l) /\ l.pc = "process" /\ l.bytes = act[r].bytes + size
  <2>1. Shape(act[r])
    BY DEF IInv, Progress, Actors
  <2>2. act[r].bytes + size \in Nat
    BY <1>2, <2>1 DEF Shape
  <2> QED
    BY <2>1, <2>2 DEF Shape, Stages
<1>4. act' = [act EXCEPT ![r] = l] /\ lock' = lock /\ spools' = spools /\ act[r].pc = "spooling"
  BY <1>1 DEF Spooled
<1> HIDE DEF l
<1>5. r \in Batches /\ MaxTotal > 0 /\ l.bytes > MaxTotal => act[r].bytes >= MaxTotal
  <2> SUFFICES ASSUME r \in Batches, MaxTotal > 0, act[r].bytes < MaxTotal
               PROVE  ~(l.bytes > MaxTotal)
    BY Numbers DEF IInv, Actors
  <2>1. MaxTotal \in Nat /\ act[r].bytes \in Nat
    BY Numbers DEF IInv, Actors
  <2>2. size <= MaxTotal - act[r].bytes
    BY <1>1, <1>2, <2>1, CapWithin
  <2> QED
    BY <1>2, <1>3, <2>1, <2>2
<1> QED
  BY <1>3, <1>4, <1>5, MoveKeeps DEF Actors, Busy, Stages, Ended

(* Going on without receiving a byte.                                      *)
LEMMA StageKeeps ==
  ASSUME IInv, NEW a \in Actors, NEW l, Shape(l), act' = [act EXCEPT ![a] = l],
         act[a].pc \in Busy \/ a \in S3Jobs, l.pc \in Busy \ {"spooling"},
         l.bytes = act[a].bytes, UNCHANGED <<lock, spools>>
  PROVE  IInv' /\ Budget
<1>1. a \in Batches /\ MaxTotal > 0 /\ l.bytes > MaxTotal => act[a].bytes >= MaxTotal
  BY Numbers DEF IInv
<1> QED
  BY <1>1, MoveKeeps

LEMMA UploadStopKeeps ==
  ASSUME IInv, NEW r \in Requests, TooMuch(r) \/ IngestTimeout(r)
  PROVE  IInv' /\ Budget
<1>1. Return(r, "aborted")
  BY DEF TooMuch, IngestTimeout, Abandon
<1> QED
  BY <1>1, ReturnKeeps DEF Ended, Actors

LEMMA EndOfFormKeeps ==
  ASSUME IInv, NEW r \in Requests, EndOfForm(r)
  PROVE  IInv' /\ Budget
<1>1. CASE Goto(r, "close") /\ UNCHANGED <<lock, spools>>
  <2> DEFINE l == [act[r] EXCEPT !.pc = "close"]
  <2>1. Shape(l) /\ l.pc = "close" /\ l.bytes = act[r].bytes
    BY DEF IInv, Progress, Shape, Stages, Actors
  <2>2. act' = [act EXCEPT ![r] = l] /\ act[r].pc = "next"
    BY <1>1 DEF Goto, EndOfForm
  <2> HIDE DEF l
  <2> QED
    BY <1>1, <2>1, <2>2, StageKeeps DEF Actors, Busy, Stages, Ended
<1>2. CASE Return(r, "rejected")
  BY <1>2, ReturnKeeps DEF Ended, Actors
<1> QED
  BY <1>1, <1>2 DEF EndOfForm

LEMMA CloseKeeps ==
  ASSUME IInv, NEW r \in Requests, Close(r)
  PROVE  IInv' /\ Budget
<1>1. CASE Goto(r, "answer") /\ UNCHANGED <<lock, spools>>
  <2> DEFINE l == [act[r] EXCEPT !.pc = "answer"]
  <2>1. Shape(l) /\ l.pc = "answer" /\ l.bytes = act[r].bytes
    BY DEF IInv, Progress, Shape, Stages, Actors
  <2>2. act' = [act EXCEPT ![r] = l] /\ act[r].pc = "close"
    BY <1>1 DEF Goto, Close
  <2> HIDE DEF l
  <2> QED
    BY <1>1, <2>1, <2>2, StageKeeps DEF Actors, Busy, Stages, Ended
<1>2. CASE Return(r, "rejected")
  BY <1>2, ReturnKeeps DEF Ended, Actors
<1> QED
  BY <1>1, <1>2 DEF Close

LEMMA AfterKeeps ==
  ASSUME IInv, NEW a \in Actors, NEW ok \in BOOLEAN, After(a, ok),
         act[a].pc \in {"process", "writing"}
  PROVE  IInv' /\ Budget
<1> USE DEF After
<1>0. Shape(act[a]) /\ act[a].hard + 1 \in Nat /\ act[a].k \in Nat
  BY DEF IInv, Progress, Shape
<1>1. CASE a \in Batches
  <2> DEFINE l == [act[a] EXCEPT !.pc = "next", !.fd = None,
                                 !.outs = IF ok THEN @ \cup {act[a].k} ELSE @,
                                 !.hard = IF ok THEN @ ELSE @ + 1]
  <2>1. Shape(l) /\ l.pc = "next" /\ l.bytes = act[a].bytes
    BY <1>0 DEF Shape, Stages
  <2>2. act' = [act EXCEPT ![a] = l] /\ UNCHANGED <<lock, spools>>
    BY <1>1
  <2> HIDE DEF l
  <2> QED
    BY <2>1, <2>2, StageKeeps DEF Busy, Stages, Ended
<1>2. CASE a \notin Batches /\ ok
  <2> DEFINE l == [act[a] EXCEPT !.pc = "answer", !.fd = None, !.outs = {act[a].k}]
  <2>1. Shape(l) /\ l.pc = "answer" /\ l.bytes = act[a].bytes
    BY <1>0 DEF Shape, Stages
  <2>2. act' = [act EXCEPT ![a] = l] /\ UNCHANGED <<lock, spools>>
    BY <1>2
  <2> HIDE DEF l
  <2> QED
    BY <2>1, <2>2, StageKeeps DEF Busy, Stages, Ended
<1>3. CASE a \notin Batches /\ ~ok
  BY <1>3, ReturnKeeps DEF Ended
<1> QED
  BY <1>1, <1>2, <1>3

LEMMA OpenKeeps ==
  ASSUME IInv, NEW a \in Actors, NEW n, NEW p \in {"writing", "merging"}, OpenFor(a, n, p),
         act[a].pc \in {"process", "close"}
  PROVE  IInv' /\ Budget
<1> DEFINE l == [act[a] EXCEPT !.pc = p, !.fd = Inode(n)]
<1>1. Shape(l) /\ l.pc = p /\ l.bytes = act[a].bytes
  BY DEF IInv, Progress, Shape, Stages
<1>2. act' = [act EXCEPT ![a] = l] /\ UNCHANGED <<lock, spools>>
  BY DEF OpenFor
<1> HIDE DEF l
<1> QED
  BY <1>1, <1>2, StageKeeps DEF Busy, Stages, Ended

LEMMA MergeCopyKeeps ==
  ASSUME IInv, NEW r \in Requests, MergeCopy(r)
  PROVE  IInv' /\ Budget
<1>0. Shape(act[r]) /\ UNCHANGED <<lock, spools>> /\ r \in Actors
  BY DEF IInv, Progress, MergeCopy, Actors
<1>1. CASE act[r].pc = "detached"
  <2> DEFINE l == [Locals EXCEPT !.pc = "gone"]
  <2>1. Shape(l) /\ l.pc = "gone" /\ l.bytes = 0
    BY DEF Shape, Locals, Stages, Ended
  <2>2. act' = [act EXCEPT ![r] = l]
    BY <1>1 DEF MergeCopy
  <2>3. \A s \in spools : s[1] # r
    BY <1>1 DEF IInv, Owned
  <2> HIDE DEF l
  <2> QED
    BY <1>0, <2>1, <2>2, <2>3, EndKeeps DEF Ended
<1>2. CASE act[r].pc = "merging"
  <2> DEFINE l == [act[r] EXCEPT !.pc = "drop", !.fd = None]
  <2>1. Shape(l) /\ l.pc = "drop" /\ l.bytes = act[r].bytes
    BY <1>0 DEF Shape, Stages
  <2>2. act' = [act EXCEPT ![r] = l]
    BY <1>2 DEF MergeCopy
  <2> HIDE DEF l
  <2> QED
    BY <1>0, <1>2, <2>1, <2>2, StageKeeps DEF Busy, Stages, Ended
<1> QED
  BY <1>1, <1>2 DEF MergeCopy

LEMMA DropPartsKeeps ==
  ASSUME IInv, NEW r \in Requests, DropParts(r)
  PROVE  IInv' /\ Budget
<1> DEFINE l == [act[r] EXCEPT !.pc = "answer", !.merged = TRUE]
<1>1. Shape(l) /\ l.pc = "answer" /\ l.bytes = act[r].bytes
  BY DEF IInv, Progress, Shape, Stages, Actors
<1>2. act' = [act EXCEPT ![r] = l] /\ UNCHANGED <<lock, spools>> /\ act[r].pc = "drop"
  BY DEF DropParts
<1> HIDE DEF l
<1> QED
  BY <1>1, <1>2, StageKeeps DEF Busy, Stages, Ended, Actors

LEMMA AnswerKeeps ==
  ASSUME IInv, NEW a \in Actors, Answer(a)
  PROVE  IInv' /\ Budget
<1>1. CASE Return(a, "missing")
  BY <1>1, ReturnKeeps DEF Ended
<1>2. CASE ~Return(a, "missing")
  <2> DEFINE l == [act[a] EXCEPT !.pc = "streaming", !.fd = dir[Result(a)]]
  <2>1. Shape(l) /\ l.pc = "streaming" /\ l.bytes = act[a].bytes
    BY DEF IInv, Progress, Shape, Stages
  <2>2. /\ act' = [act EXCEPT ![a] = l]
        /\ lock' = IF lock = a THEN None ELSE lock
        /\ spools' = {s \in spools : s[1] # a}
    BY <1>2 DEF Answer
  <2> HIDE DEF l
  <2> QED
    BY <2>1, <2>2, EndKeeps
<1> QED
  BY <1>1, <1>2

LEMMA StreamKeeps ==
  ASSUME IInv, NEW a \in Actors, Stream(a)
  PROVE  IInv' /\ Budget
<1>0. UNCHANGED <<lock, spools>> /\ act[a].pc = "streaming" /\ Shape(act[a])
  BY DEF Stream, IInv, Progress
<1>1. CASE a \in S3Jobs
  <2> DEFINE l == [act[a] EXCEPT !.pc = "remove", !.fd = None]
  <2>1. Shape(l) /\ l.pc = "remove" /\ l.bytes = act[a].bytes
    BY <1>0 DEF Shape, Stages
  <2>2. act' = [act EXCEPT ![a] = l]
    BY <1>1 DEF Stream
  <2> HIDE DEF l
  <2> QED
    BY <1>0, <1>1, <2>1, <2>2, StageKeeps DEF Busy, Stages, Ended
<1>2. CASE a \notin S3Jobs
  <2> DEFINE l == [Locals EXCEPT !.pc = "done"]
  <2>1. Shape(l) /\ l.pc = "done" /\ l.bytes = 0
    BY DEF Shape, Locals, Stages, Ended
  <2>2. act' = [act EXCEPT ![a] = l]
    BY <1>2 DEF Stream
  <2>3. \A s \in spools : s[1] # a
    BY <1>0 DEF IInv, Owned
  <2>4. /\ \A q \in Requests \ {a} : lock = q => lock' = q
        /\ spools' \subseteq spools
        /\ \A s \in spools' : s[1] = a => l.pc = "gone" /\ s[2] = l.k
    BY <1>0, <2>3
  <2>5. l.pc \in Ended /\ l.bytes \in {0, act[a].bytes}
    BY <2>1 DEF Ended
  <2> HIDE DEF l
  <2> QED
    BY <2>1, <2>2, <2>4, <2>5, EndKeeps
<1> QED
  BY <1>1, <1>2

LEMMA DisconnectKeeps ==
  ASSUME IInv, NEW r \in Requests, Disconnect(r)
  PROVE  IInv' /\ Budget
<1>0. /\ Shape(act[r]) /\ act[r].k \in Nat /\ r \in Actors
      /\ \A q \in Requests \ {r} : lock = q => lock' = q
      /\ spools' = {s \in spools : s[1] # r \/ (act[r].pc = "spooling" /\ s[2] = act[r].k)}
  BY DEF Disconnect, IInv, Progress, Shape, Actors
<1>1. CASE act[r].pc = "merging"
  <2> DEFINE l == [act[r] EXCEPT !.pc = "detached"]
  <2>1. Shape(l) /\ l.pc = "detached" /\ l.bytes = act[r].bytes
    BY <1>0 DEF Shape, Stages
  <2>2. act' = [act EXCEPT ![r] = l]
    BY <1>1 DEF Disconnect
  <2> HIDE DEF l
  <2> QED
    BY <1>0, <1>1, <2>1, <2>2, EndKeeps
<1>2. CASE act[r].pc # "merging"
  <2> DEFINE l == [Locals EXCEPT !.pc = "gone", !.k = act[r].k]
  <2>1. Shape(l) /\ l.pc = "gone" /\ l.bytes = 0 /\ l.k = act[r].k
    BY <1>0 DEF Shape, Locals, Stages, Ended
  <2>2. act' = [act EXCEPT ![r] = l]
    BY <1>2 DEF Disconnect
  <2>3. /\ spools' \subseteq spools
        /\ \A s \in spools' : s[1] = r => l.pc = "gone" /\ s[2] = l.k
    BY <1>0, <2>1
  <2>4. l.pc \in Ended /\ l.bytes \in {0, act[r].bytes}
    BY <2>1 DEF Ended
  <2> HIDE DEF l
  <2> QED
    BY <1>0, <2>1, <2>2, <2>3, <2>4, EndKeeps
<1> QED
  BY <1>1, <1>2

LEMMA JobKeeps ==
  ASSUME IInv, NEW a \in Actors, Job(a)
  PROVE  IInv' /\ Budget
<1>1. CASE Reject(a) \/ GiveUp(a)
  <2>1. After(a, FALSE) /\ act[a].pc \in {"process", "writing"}
    BY <1>1 DEF Reject, GiveUp
  <2> QED
    BY <2>1, AfterKeeps
<1>2. CASE Create(a)
  <2>1. OpenFor(a, OutOf(a, act[a].k), "writing") /\ act[a].pc = "process"
    BY <1>2 DEF Create
  <2> QED
    BY <2>1, OpenKeeps
<1>3. CASE Finish(a)
  <2>1. After(a, TRUE) /\ act[a].pc = "writing"
    BY <1>3 DEF Finish
  <2> QED
    BY <2>1, AfterKeeps
<1> QED
  BY <1>1, <1>2, <1>3, AnswerKeeps, StreamKeeps DEF Job

LEMMA RequestKeeps ==
  ASSUME IInv, NEW r \in Requests,
         Begin(r) \/ Receive(r) \/ EndOfForm(r) \/ Handler(r) \/ Disconnect(r)
  PROVE  IInv' /\ Budget
<1>1. CASE MergeInto(r)
  <2>1. OpenFor(r, Combined, "merging") /\ act[r].pc = "close" /\ r \in Actors
    BY <1>1 DEF MergeInto, Actors
  <2> QED
    BY <2>1, OpenKeeps
<1>2. CASE MergeFail(r)
  <2>1. \E p \in Ended : Return(r, p)
    BY <1>2 DEF MergeFail, Ended
  <2> QED
    BY <2>1, ReturnKeeps DEF Actors
<1> QED
  BY <1>1, <1>2, BeginKeeps, ReceiveKeeps, EndOfFormKeeps, SpooledKeeps, UploadStopKeeps,
     CloseKeeps, MergeCopyKeeps, DropPartsKeeps, DisconnectKeeps DEF Handler

LEMMA StepKeeps == IInv /\ [Next]_vars => IInv' /\ Budget
<1> SUFFICES ASSUME IInv, [Next]_vars PROVE IInv' /\ Budget
  OBVIOUS
<1>1. CASE \E r \in Requests :
             Begin(r) \/ Receive(r) \/ EndOfForm(r) \/ Handler(r) \/ Disconnect(r)
  BY <1>1, RequestKeeps
<1>2. CASE \E a \in Actors : Job(a)
  BY <1>2, JobKeeps
<1>3. CASE \E j \in S3Jobs : UploadFails(j) \/ RemoveLocal(j)
  <2>1. PICK j \in S3Jobs : UploadFails(j) \/ RemoveLocal(j)
    BY <1>3
  <2>2. \E p \in Ended : Return(j, p)
    BY <2>1 DEF UploadFails, RemoveLocal, Ended
  <2> QED
    BY <2>2, ReturnKeeps DEF Actors
<1>4. CASE RetentionList \/ RetentionRemove \/ RetentionEnd \/ Tick \/ UNCHANGED vars
  <2>1. UNCHANGED <<act, lock, spools>>
    BY <1>4 DEF RetentionList, RetentionRemove, RetentionEnd, Tick, vars
  <2> QED
    BY <2>1, Unmoved
<1> QED
  BY <1>1, <1>2, <1>3, <1>4 DEF Next

LEMMA Invariant == Spec => []IInv
  BY InitInv, StepKeeps, PTL DEF Spec

(* No two requests work on uploads or archives at the same time, whatever   *)
(* is rejected, times out, fails or is cut off: the one that does holds the *)
(* lock.  A response that streams, or a merge whose client has gone, is out *)
(* of the lock (main.rs 808-814, 888-893).                                  *)
THEOREM OneAtATime == Spec => []OneRequestAtATime
  BY Invariant, PTL DEF IInv

(* A handler that is over has left no spooled upload, but for a transfer    *)
(* its client cut off (main.rs 840, 938, 1214-1231).                        *)
THEOREM SpoolsRemoved == Spec => []OnlyCutUploadLeft
  BY Invariant, PTL DEF IInv

(* For any caps and sizes, a batch goes over its total byte budget only     *)
(* from a state in which it has used all of it (main.rs 913-919, 1324-1330).*)
THEOREM BudgetHolds == Spec => BudgetUntilSpent
<1>1. IInv /\ [Next]_vars => [\A r \in Batches :
         MaxTotal > 0 /\ act'[r].bytes > MaxTotal => act[r].bytes >= MaxTotal]_vars
  BY StepKeeps DEF Budget
<1> QED
  BY <1>1, Invariant, PTL DEF Spec, BudgetUntilSpent

(* The lock is held by a request at work only: whatever ends a request, or   *)
(* takes it to where it waits for its client, gives the lock back.  In each  *)
(* of these stages an action is enabled that waits for no client: the        *)
(* deadline of the upload, a step of the archive or the merge, the answer.   *)
LockAtWork == \A r \in Requests : lock = r => act[r].pc \in Busy

(* A step of one actor leaves the lock where it was, takes it back from      *)
(* that actor, or gives it to it for work.                                   *)
LEMMA LockKept ==
  ASSUME IInv, LockAtWork, NEW a \in Actors, NEW l, act' = [act EXCEPT ![a] = l],
         \A r \in Requests : lock' = r => lock = r \/ r = a,
         a \in Requests /\ lock' = a => l.pc \in Busy
  PROVE  LockAtWork'
<1>1. act'[a] = l /\ \A b \in Actors \ {a} : act'[b] = act[b]
  BY DEF IInv, Progress
<1> QED
  BY <1>1 DEF LockAtWork, Requests, Actors

(* A handler that returns has given the lock back.                           *)
LEMMA LockReturned ==
  ASSUME IInv, LockAtWork, NEW a \in Actors, NEW p, Return(a, p)
  PROVE  LockAtWork'
<1> DEFINE l == [Locals EXCEPT !.pc = p]
<1>1. act' = [act EXCEPT ![a] = l] /\ lock' = IF lock = a THEN None ELSE lock
  BY DEF Return
<1>2. \A r \in Requests : lock' = r => lock = r /\ r # a
  BY <1>1, OutputAssumption DEF Requests, Actors
<1> HIDE DEF l
<1> QED
  BY <1>1, <1>2, LockKept

(* A step that keeps the lock keeps its holder at work.                      *)
LEMMA LockCarried ==
  ASSUME IInv, LockAtWork, NEW a \in Actors, NEW l, act' = [act EXCEPT ![a] = l],
         UNCHANGED lock, a \in Requests => l.pc \in Busy \/ act[a].pc \notin Busy
  PROVE  LockAtWork'
<1>1. a \in Requests /\ lock' = a => l.pc \in Busy
  BY DEF LockAtWork
<1> QED
  BY <1>1, LockKept

(* An archive that is done, or given up.                                     *)
LEMMA LockAfter ==
  ASSUME IInv, LockAtWork, NEW a \in Actors, NEW ok \in BOOLEAN, After(a, ok)
  PROVE  LockAtWork'
<1>1. CASE a \in Batches
  <2> DEFINE l == [act[a] EXCEPT !.pc = "next", !.fd = None,
                                 !.outs = IF ok THEN @ \cup {act[a].k} ELSE @,
                                 !.hard = IF ok THEN @ ELSE @ + 1]
  <2>1. l.pc = "next"
    BY DEF IInv, Progress, Shape
  <2>2. act' = [act EXCEPT ![a] = l] /\ UNCHANGED lock
    BY <1>1 DEF After
  <2> HIDE DEF l
  <2> QED
    BY <2>1, <2>2, LockCarried DEF Busy, Stages, Ended
<1>2. CASE a \notin Batches /\ ok
  <2> DEFINE l == [act[a] EXCEPT !.pc = "answer", !.fd = None, !.outs = {act[a].k}]
  <2>1. l.pc = "answer"
    BY DEF IInv, Progress, Shape
  <2>2. act' = [act EXCEPT ![a] = l] /\ UNCHANGED lock
    BY <1>2 DEF After
  <2> HIDE DEF l
  <2> QED
    BY <2>1, <2>2, LockCarried DEF Busy, Stages, Ended
<1>3. CASE a \notin Batches /\ ~ok
  BY <1>3, LockReturned DEF After
<1> QED
  BY <1>1, <1>2, <1>3

(* The next stage of the work.                                               *)
LEMMA LockMoved ==
  ASSUME IInv, LockAtWork, NEW a \in Actors, NEW p \in Busy, Goto(a, p), UNCHANGED lock
  PROVE  LockAtWork'
<1> DEFINE l == [act[a] EXCEPT !.pc = p]
<1>1. l.pc = p /\ act' = [act EXCEPT ![a] = l]
  BY DEF Goto, IInv, Progress, Shape
<1> HIDE DEF l
<1> QED
  BY <1>1, LockCarried

(* An output file that is opened for writing.                                *)
LEMMA LockOpened ==
  ASSUME IInv, LockAtWork, NEW a \in Actors, NEW n, NEW p \in {"writing", "merging"},
         OpenFor(a, n, p)
  PROVE  LockAtWork'
<1> DEFINE l == [act[a] EXCEPT !.pc = p, !.fd = Inode(n)]
<1>1. l.pc = p /\ act' = [act EXCEPT ![a] = l] /\ UNCHANGED lock
  BY DEF OpenFor, IInv, Progress, Shape
<1> HIDE DEF l
<1> QED
  BY <1>1, LockCarried DEF Busy, Stages, Ended

(* Taking the lock, and the steps of an upload.                              *)
LEMMA LockUpload ==
  ASSUME IInv, LockAtWork, NEW r \in Requests,
         Begin(r) \/ Receive(r) \/ Spooled(r) \/ TooMuch(r) \/ IngestTimeout(r) \/ EndOfForm(r)
  PROVE  LockAtWork'
<1>0. r \in Actors /\ act[r] \in [pc : Stages, k : Nat, fd : {act[r].fd}, outs : SUBSET Nat,
                                  hard : Nat, bytes : Nat, merged : BOOLEAN]
  BY DEF IInv, Progress, Shape, Actors
<1>1. CASE Begin(r)
  <2>1. CASE lock # None /\ Goto(r, "busy") /\ UNCHANGED lock
    <3> DEFINE l == [act[r] EXCEPT !.pc = "busy"]
    <3>1. act' = [act EXCEPT ![r] = l]
      BY <2>1 DEF Goto
    <3>2. act[r].pc \notin Busy
      BY <1>1 DEF Begin, Busy
    <3> HIDE DEF l
    <3> QED
      BY <1>0, <2>1, <3>1, <3>2, LockCarried
  <2>2. CASE lock = None /\ Goto(r, "next") /\ lock' = r
    <3> DEFINE l == [act[r] EXCEPT !.pc = "next"]
    <3>1. act' = [act EXCEPT ![r] = l] /\ l.pc = "next"
      BY <1>0, <2>2 DEF Goto
    <3> HIDE DEF l
    <3>2. l.pc \in Busy
      BY <3>1 DEF Busy, Stages, Ended
    <3> QED
      BY <1>0, <2>2, <3>1, <3>2, LockKept
  <2> QED
    BY <1>1, <2>1, <2>2 DEF Begin
<1>2. CASE Receive(r)
  <2> DEFINE l == [act[r] EXCEPT !.pc = "spooling", !.k = @ + 1]
  <2>1. l.pc = "spooling" /\ act' = [act EXCEPT ![r] = l] /\ UNCHANGED lock
    BY <1>0, <1>2 DEF Receive
  <2> HIDE DEF l
  <2> QED
    BY <1>0, <2>1, LockCarried DEF Busy, Stages, Ended
<1>3. CASE Spooled(r)
  <2>1. PICK size : act' = [act EXCEPT ![r].pc = "process", ![r].bytes = @ + size]
    BY <1>3 DEF Spooled
  <2> DEFINE l == [act[r] EXCEPT !.pc = "process", !.bytes = @ + size]
  <2>2. l.pc = "process" /\ act' = [act EXCEPT ![r] = l] /\ UNCHANGED lock
    BY <1>0, <1>3, <2>1 DEF Spooled
  <2> HIDE DEF l
  <2> QED
    BY <1>0, <2>2, LockCarried DEF Busy, Stages, Ended
<1>4. CASE TooMuch(r) \/ IngestTimeout(r)
  BY <1>0, <1>4, LockReturned DEF TooMuch, IngestTimeout, Abandon
<1>5. CASE EndOfForm(r)
  <2>1. (Goto(r, "close") /\ UNCHANGED lock) \/ Return(r, "rejected")
    BY <1>5 DEF EndOfForm
  <2> QED
    BY <1>0, <2>1, LockReturned, LockMoved DEF Busy, Stages, Ended
<1> QED
  BY <1>1, <1>2, <1>3, <1>4, <1>5

(* The end of a batch, and a client that goes away.                          *)
LEMMA LockClosing ==
  ASSUME IInv, LockAtWork, NEW r \in Requests,
         \/ Close(r) \/ MergeInto(r) \/ MergeCopy(r) \/ MergeFail(r) \/ DropParts(r)
         \/ Disconnect(r)
  PROVE  LockAtWork'
<1>0. r \in Actors /\ act[r] \in [pc : Stages, k : Nat, fd : {act[r].fd}, outs : SUBSET Nat,
                                  hard : Nat, bytes : Nat, merged : BOOLEAN]
  BY DEF IInv, Progress, Shape, Actors
<1>1. CASE Close(r)
  <2>1. (Goto(r, "answer") /\ UNCHANGED lock) \/ Return(r, "rejected")
    BY <1>1 DEF Close
  <2> QED
    BY <1>0, <2>1, LockReturned, LockMoved DEF Busy, Stages, Ended
<1>2. CASE MergeInto(r)
  BY <1>0, <1>2, LockOpened DEF MergeInto
<1>3. CASE MergeCopy(r)
  <2> DEFINE l == IF act[r].pc = "detached" THEN [Locals EXCEPT !.pc = "gone"]
                  ELSE [act[r] EXCEPT !.pc = "drop", !.fd = None]
  <2>1. act' = [act EXCEPT ![r] = l] /\ UNCHANGED lock
    BY <1>3 DEF MergeCopy
  <2>2. act[r].pc = "detached" \/ l.pc = "drop"
    BY <1>0
  <2>3. "drop" \in Busy /\ "detached" \notin Busy
    BY DEF Busy, Stages, Ended
  <2> HIDE DEF l
  <2> QED
    BY <1>0, <2>1, <2>2, <2>3, LockCarried
<1>4. CASE MergeFail(r)
  BY <1>0, <1>4, LockReturned DEF MergeFail
<1>5. CASE DropParts(r)
  <2> DEFINE l == [act[r] EXCEPT !.pc = "answer", !.merged = TRUE]
  <2>1. l.pc = "answer" /\ act' = [act EXCEPT ![r] = l] /\ UNCHANGED lock
    BY <1>0, <1>5 DEF DropParts
  <2> HIDE DEF l
  <2> QED
    BY <1>0, <2>1, LockCarried DEF Busy, Stages, Ended
<1>6. CASE Disconnect(r)
  <2> DEFINE l == IF act[r].pc = "merging" THEN [act[r] EXCEPT !.pc = "detached"]
                  ELSE [Locals EXCEPT !.pc = "gone", !.k = act[r].k]
  <2>1. act' = [act EXCEPT ![r] = l] /\ lock' = IF lock = r THEN None ELSE lock
    BY <1>6 DEF Disconnect
  <2>2. \A q \in Requests : lock' = q => lock = q /\ q # r
    BY <2>1, OutputAssumption DEF Requests, Actors
  <2> HIDE DEF l
  <2> QED
    BY <1>0, <2>1, <2>2, LockKept
<1> QED
  BY <1>1, <1>2, <1>3, <1>4, <1>5, <1>6

(* The steps of an archive, and of the object-store worker.                  *)
LEMMA LockJob ==
  ASSUME IInv, LockAtWork, NEW a \in Actors,
         Job(a) \/ (a \in S3Jobs /\ (UploadFails(a) \/ RemoveLocal(a)))
  PROVE  LockAtWork'
<1>0. act[a] \in [pc : Stages, k : Nat, fd : {act[a].fd}, outs : SUBSET Nat, hard : Nat,
                  bytes : Nat, merged : BOOLEAN]
  BY DEF IInv, Progress, Shape
<1>1. CASE Reject(a) \/ Finish(a) \/ GiveUp(a)
  <2>1. \E ok \in BOOLEAN : After(a, ok)
    BY <1>1 DEF Reject, Finish, GiveUp
  <2> QED
    BY <2>1, LockAfter
<1>2. CASE Create(a)
  BY <1>2, LockOpened DEF Create
<1>3. CASE Answer(a)
  <2>1. CASE Return(a, "missing")
    BY <2>1, LockReturned
  <2>2. CASE ~Return(a, "missing")
    <3> DEFINE l == [act[a] EXCEPT !.pc = "streaming", !.fd = dir[Result(a)]]
    <3>1. act' = [act EXCEPT ![a] = l] /\ lock' = IF lock = a THEN None ELSE lock
      BY <1>3, <2>2 DEF Answer
    <3>2. \A q \in Requests : lock' = q => lock = q /\ q # a
      BY <3>1, OutputAssumption DEF Requests, Actors
    <3> HIDE DEF l
    <3> QED
      BY <3>1, <3>2, LockKept
  <2> QED
    BY <2>1, <2>2
<1>4. CASE Stream(a)
  <2> DEFINE l == IF a \in S3Jobs THEN [act[a] EXCEPT !.pc = "remove", !.fd = None]
                  ELSE [Locals EXCEPT !.pc = "done"]
  <2>1. act' = [act EXCEPT ![a] = l] /\ UNCHANGED lock
    BY <1>4 DEF Stream
  <2>2. act[a].pc \notin Busy
    BY <1>4 DEF Stream, Busy
  <2> HIDE DEF l
  <2> QED
    BY <2>1, <2>2, LockCarried
<1>5. CASE UploadFails(a) \/ RemoveLocal(a)
  BY <1>5, LockReturned DEF UploadFails, RemoveLocal
<1> QED
  BY <1>1, <1>2, <1>3, <1>4, <1>5 DEF Job

(* Whoever holds the lock is at work, for any requests, jobs and caps: no    *)
(* rejection, deadline, failure or disconnect leaks it, and a client that    *)
(* reads its response slowly does not keep it (main.rs 808-814, 888-893,     *)
(* 1148-1179).                                                               *)
THEOREM LockNotLeaked == Spec => []LockAtWork
<1>1. Init => LockAtWork
  BY OutputAssumption DEF Init, LockAtWork, Actors
<1>2. IInv /\ LockAtWork /\ [Next]_vars => LockAtWork'
  <2> SUFFICES ASSUME IInv, LockAtWork, [Next]_vars PROVE LockAtWork'
    OBVIOUS
  <2>1. CASE \E r \in Requests :
               Begin(r) \/ Receive(r) \/ EndOfForm(r) \/ Handler(r) \/ Disconnect(r)
    BY <2>1, LockUpload, LockClosing DEF Handler
  <2>2. CASE \E a \in Actors : Job(a)
    BY <2>2, LockJob
  <2>3. CASE \E j \in S3Jobs : UploadFails(j) \/ RemoveLocal(j)
    BY <2>3, LockJob DEF Actors
  <2>4. CASE RetentionList \/ RetentionRemove \/ RetentionEnd \/ Tick \/ UNCHANGED vars
    <3>1. UNCHANGED <<act, lock>>
      BY <2>4 DEF RetentionList, RetentionRemove, RetentionEnd, Tick, vars
    <3> QED
      BY <3>1 DEF LockAtWork
  <2> QED
    BY <2>1, <2>2, <2>3, <2>4 DEF Next
<1> QED
  BY <1>1, <1>2, Invariant, PTL DEF Spec

------------------------------------------------------------------------------
(* What the output files hold.  An actor reads and writes through handles,  *)
(* which keep an inode when its name is removed or bound anew, so the       *)
(* invariant relates three things: names to inodes (a name that is bound    *)
(* belongs to the archive it was opened for), handles to names, and both to *)
(* the actors that depend on a name.  Two actors that depend on one name    *)
(* are both marked as crossed, whence whatever an unmarked actor still      *)
(* needs is as that actor left it, or gone.                                 *)

Writers == {"writing", "merging", "detached"}
Holding == Writers \cup {"streaming"}
Making  == {"next", "spooling", "process", "writing", "close", "answer"}
Early   == {"idle", "busy", "aborted", "next", "spooling", "process", "writing", "close"}
Late    == {"answer", "streaming", "remove"}
File    == [from : SUBSET (Actors \X Nat), whole : BOOLEAN, mtime : Nat, shared : BOOLEAN]

(* The name under which an open file was opened.                            *)
Target(a) ==
  IF act[a].pc = "writing" THEN OutOf(a, act[a].k)
  ELSE IF act[a].pc = "streaming" THEN Result(a) ELSE Combined

Store == now \in Nat /\ dir \in [Outs -> Inodes \cup {None}] /\ ino \in [Inodes -> File]

Recorded(a) ==
  /\ act[a].fd \in Inodes \cup {None}
  /\ act[a].pc \in Holding <=> act[a].fd # None
  /\ act[a].outs \subseteq 1..Len(Sends[a])
  /\ act[a].pc \in {"spooling", "process", "writing"} => act[a].k \in 1..Len(Sends[a])
  /\ a \notin Batches => act[a].hard = 0
  /\ act[a].pc \in Ended \cup {"idle"} => act[a].outs = {}
  /\ act[a].merged => act[a].pc \in Late
  /\ act[a].pc \in Late /\ ~act[a].merged =>
       act[a].hard = 0 /\ \E k \in act[a].outs : act[a].outs = {k}

Apart == \A m, n \in Outs : dir[m] = dir[n] /\ dir[m] # None => m = n
Named(a) == act[a].pc \in Holding => \A m \in Outs : dir[m] = act[a].fd => m = Target(a)
Alone ==
  \A a, b \in Actors :
    /\ a # b /\ act[b].pc \in Writers /\ act[a].pc \in Holding
    /\ act[a].fd = act[b].fd
    => a \in crossed
Marked == \A a, b \in Actors : a # b /\ Uses(a) \cap Uses(b) # {} => a \in crossed

(* Where an archive of a request that may yet be aborted can be found.      *)
Located(r) ==
  act[r].pc \in Early => \A n \in Outs : dir[n] # None => \A s \in ino[dir[n]].from :
    s[1] = r => \/ s[2] \in act[r].outs /\ n = OutOf(r, s[2])
                \/ n = Combined /\ r \in crossed

(* What an actor nobody crossed depends on.                                 *)
Sole(a) ==
  act[a].pc \in Writers =>
    /\ ~ino[act[a].fd].shared
    /\ dir[Target(a)] \in {None, act[a].fd}
    /\ act[a].pc = "merging" => ~ino[act[a].fd].whole
PartsOwn(a) ==
  act[a].pc \in Making \cup {"merging"} /\ ~act[a].merged =>
    \A k \in act[a].outs : Readable(OutOf(a, k)) => ino[dir[OutOf(a, k)]].from = {<<a, k>>}
PartsWhole(a) ==
  act[a].pc \in Making /\ ~act[a].merged /\ act[a].hard = 0 =>
    \A k \in act[a].outs :
      \/ dir[OutOf(a, k)] = None \/ ino[dir[OutOf(a, k)]].whole
      \/ act[a].pc = "writing" /\ OutOf(a, act[a].k) = OutOf(a, k)
Whole(a, i) == ino[i].whole /\ ino[i].from = {<<a, k>> : k \in act[a].outs}
MergedOwn(a) ==
  act[a].pc = "drop" \/ (act[a].pc = "answer" /\ act[a].merged) =>
    (dir[Combined] # None => Whole(a, dir[Combined]))
SentOwn(a) == act[a].pc = "streaming" => Whole(a, act[a].fd)
Untouched(a) ==
  a \notin crossed =>
    /\ Sole(a)
    /\ OwnNames(a) => PartsOwn(a) /\ PartsWhole(a) /\ MergedOwn(a) /\ SentOwn(a)

FInv ==
  /\ Store /\ Apart /\ Alone /\ Marked
  /\ \A a \in Actors : Recorded(a) /\ Named(a) /\ Untouched(a)
  /\ \A r \in Requests : Located(r)

LEMMA OutIn ==
  ASSUME NEW a \in Actors, NEW k \in 1..Len(Sends[a])
  PROVE  OutOf(a, k) \in Outs
<1>1. Sends[a] \in Seq(Uploads)
  BY OutputAssumption
<1>2. Sends[a][k] \in Uploads
  BY <1>1
<1> QED
  BY <1>2 DEF OutOf, Outs

LEMMA ImageSize ==
  ASSUME NEW S, IsFiniteSet(S), NEW f
  PROVE  IsFiniteSet({f[x] : x \in S}) /\ Cardinality({f[x] : x \in S}) <= Cardinality(S)
<1> DEFINE T == {f[x] : x \in S}
           g == [x \in S |-> f[x]]
<1>1. g \in Surjection(S, T)
  BY DEF Surjection
<1> HIDE DEF g, T
<1>2. IsFiniteSet(T) /\ Cardinality(T) <= Cardinality(S)
  BY <1>1, FS_Surjection
<1> QED
  BY <1>2 DEF T

LEMMA OutsFinite == IsFiniteSet(Outs) /\ Cardinality(Outs) \in Nat /\ Cardinality(Actors) \in Nat
<1>1. IsFiniteSet({Stem[u] : u \in Uploads})
  BY OutputAssumption, ImageSize
<1>2. IsFiniteSet({Stem[u] : u \in Uploads} \cup {Combined})
  BY <1>1, FS_AddElement
<1>3. IsFiniteSet(Outs)
  BY <1>2 DEF Outs
<1> QED
  BY <1>3, OutputAssumption, FS_CardinalityType

LEMMA InodesAre == Inodes \subseteq Nat /\ None \notin Inodes
<1>1. Cardinality(Outs) + 2 * Cardinality(Actors) \in Nat
  BY OutsFinite
<1> QED
  BY <1>1, OutputAssumption DEF Inodes

(* There are more inodes than names and handles.                            *)
LEMMA UnusedInode ==
  ASSUME NEW a \in Actors
  PROVE  Unused # {}
<1> DEFINE D == {dir[n] : n \in Outs}
           h == [b \in Actors |-> act[b].fd]
           H == {h[b] : b \in Actors}
           o == Cardinality(Outs)
           c == Cardinality(Actors)
<1>1. IsFiniteSet(D) /\ Cardinality(D) <= o
  BY OutsFinite, ImageSize
<1>2. IsFiniteSet(H) /\ Cardinality(H) <= c
  <2> HIDE DEF h
  <2> QED
    BY OutputAssumption, ImageSize
<1>3. H = {act[b].fd : b \in Actors}
  OBVIOUS
<1>4. c # 0
  <2>1. Actors # {}
    OBVIOUS
  <2> QED
    BY <2>1, OutputAssumption, FS_EmptySet
<1>5. o \in Nat /\ c \in Nat
  BY OutsFinite
<1>6. Inodes = 1..(o + 2 * c)
  BY DEF Inodes
<1>7. Unused = Inodes \ (D \cup H)
  BY <1>3 DEF Unused
<1> HIDE DEF D, H, h, o, c
<1>8. IsFiniteSet(D \cup H) /\ Cardinality(D \cup H) <= o + c
  <2>1. /\ IsFiniteSet(D \cup H)
        /\ Cardinality(D \cup H) = Cardinality(D) + Cardinality(H) - Cardinality(D \cap H)
    BY <1>1, <1>2, FS_Union
  <2>2. IsFiniteSet(D \cap H)
    BY <1>1, FS_Subset
  <2>3. Cardinality(D) \in Nat /\ Cardinality(H) \in Nat /\ Cardinality(D \cap H) \in Nat
    BY <1>1, <1>2, <2>2, FS_CardinalityType
  <2> QED
    BY <1>1, <1>2, <1>5, <2>1, <2>3
<1>9. SUFFICES ASSUME Inodes \subseteq D \cup H PROVE FALSE
  BY <1>7
<1>10. Cardinality(Inodes) <= Cardinality(D \cup H)
  BY <1>8, <1>9, FS_Subset
<1>11. Cardinality(Inodes) = o + 2 * c
  <2>1. 1 \in Int /\ o + 2 * c \in Int /\ o + 2 * c >= 1
    BY <1>4, <1>5
  <2>2. Cardinality(1..(o + 2 * c)) = IF 1 > o + 2 * c THEN 0 ELSE (o + 2 * c) - 1 + 1
    BY <2>1, FS_Interval
  <2> QED
    BY <1>5, <1>6, <2>1, <2>2
<1>12. Cardinality(D \cup H) \in Nat
  BY <1>8, FS_CardinalityType
<1> QED
  BY <1>4, <1>5, <1>8, <1>10, <1>11, <1>12

(* Opening a name truncates the file it leads to, or makes a file nobody    *)
(* else can see.                                                            *)
LEMMA InodeIs ==
  ASSUME Store, NEW a \in Actors, NEW n \in Outs
  PROVE  /\ Inode(n) \in Inodes
         /\ dir[n] # None => Inode(n) = dir[n]
         /\ dir[n] = None => /\ \A m \in Outs : dir[m] # Inode(n)
                             /\ \A b \in Actors : act[b].fd # Inode(n)
<1>1. CASE dir[n] # None
  BY <1>1 DEF Store, Inode
<1>2. CASE dir[n] = None
  <2>1. Inode(n) \in Unused
    BY <1>2, UnusedInode DEF Inode
  <2> QED
    BY <1>2, <2>1 DEF Unused
<1> QED
  BY <1>1, <1>2

(* An actor depends on every name it has a file or an archive under.        *)
LEMMA TargetUsed ==
  ASSUME NEW a \in Actors, Recorded(a), act[a].pc \in Holding
  PROVE  Target(a) \in Uses(a)
<1>1. act[a].pc \notin Ended \cup {"idle"}
  BY DEF Holding, Writers, Ended
<1>2. CASE act[a].pc = "writing"
  BY <1>1, <1>2 DEF Target, Uses
<1>3. CASE act[a].pc \in {"merging", "detached"}
  BY <1>1, <1>3 DEF Target, Uses
<1>4. CASE act[a].pc = "streaming" /\ act[a].merged
  BY <1>1, <1>4 DEF Target, Uses, Result
<1>5. CASE act[a].pc = "streaming" /\ ~act[a].merged
  <2>1. (CHOOSE k \in act[a].outs : TRUE) \in act[a].outs
    BY <1>5 DEF Recorded, Late
  <2> QED
    BY <1>1, <1>5, <2>1 DEF Target, Uses, Result
<1> QED
  BY <1>2, <1>3, <1>4, <1>5 DEF Holding, Writers

(* Nobody writes, or removes and makes anew, what an actor depends on.      *)
Spared(c) ==
  /\ \A m \in Outs : m \in Uses(c) =>
       /\ dir'[m] \in {dir[m], None}
       /\ dir[m] # None /\ dir'[m] # None => ino'[dir[m]] = ino[dir[m]]
  /\ act[c].pc \in Holding => ino'[act[c].fd] = ino[act[c].fd]

LEMMA SparedKeeps ==
  ASSUME NEW c \in Actors, Recorded(c), Named(c), Untouched(c), act'[c] = act[c],
         crossed \subseteq crossed', c \notin crossed', Spared(c)
  PROVE  Untouched(c)'
<1>1. c \notin crossed
  OBVIOUS
<1>2. /\ Target(c)' = Target(c) /\ (OwnNames(c)' <=> OwnNames(c)) /\ Uses(c)' = Uses(c)
  BY DEF Target, OwnNames, Uses, Result, OutOf
<1>3. \A k \in act[c].outs : OutOf(c, k) \in Outs
  BY OutIn DEF Recorded
<1>4. act[c].pc \in Holding => Target(c) \in Outs /\ Target(c) \in Uses(c)
  <2> SUFFICES ASSUME act[c].pc \in Holding PROVE Target(c) \in Outs
    BY TargetUsed
  <2>1. CASE act[c].pc = "writing"
    BY <2>1, OutIn DEF Target, Recorded
  <2>2. CASE act[c].pc # "writing" /\ Target(c) = Combined
    BY <2>2 DEF Outs
  <2>3. CASE act[c].pc = "streaming" /\ ~act[c].merged
    <3>1. (CHOOSE k \in act[c].outs : TRUE) \in act[c].outs
      BY <2>3 DEF Recorded, Late
    <3> QED
      BY <1>3, <2>3, <3>1 DEF Target, Result
  <2> QED
    BY <2>1, <2>2, <2>3 DEF Target, Result
<1>5. Sole(c)'
  <2> SUFFICES ASSUME act[c].pc \in Writers PROVE Sole(c)'
    BY DEF Sole
  <2>1. Sole(c) /\ act[c].pc \in Holding
    BY <1>1 DEF Untouched, Holding
  <2>2. ino'[act[c].fd] = ino[act[c].fd] /\ dir'[Target(c)] \in {dir[Target(c)], None}
    BY <1>4, <2>1 DEF Spared
  <2> QED
    BY <1>2, <2>1, <2>2 DEF Sole
<1>6. ASSUME OwnNames(c) PROVE (PartsOwn(c) /\ PartsWhole(c) /\ MergedOwn(c) /\ SentOwn(c))'
  <2>1. PartsOwn(c) /\ PartsWhole(c) /\ MergedOwn(c) /\ SentOwn(c)
    BY <1>1, <1>6 DEF Untouched
  <2>2. ASSUME act[c].pc \in Making \cup {"merging"}, NEW k \in act[c].outs
        PROVE  /\ dir'[OutOf(c, k)] \in {dir[OutOf(c, k)], None}
               /\ dir'[OutOf(c, k)] # None => ino'[dir'[OutOf(c, k)]] = ino[dir[OutOf(c, k)]]
    <3>1. OutOf(c, k) \in Uses(c)
      BY <2>2 DEF Uses, Making, Ended
    <3> QED
      BY <1>3, <2>2, <3>1 DEF Spared
  <2>3. PartsOwn(c)'
    BY <2>1, <2>2 DEF PartsOwn, Readable, OutOf
  <2>4. PartsWhole(c)'
    BY <2>1, <2>2 DEF PartsWhole, OutOf
  <2>5. MergedOwn(c)'
    <3> SUFFICES ASSUME act[c].pc = "drop" \/ (act[c].pc = "answer" /\ act[c].merged),
                        dir'[Combined] # None
                 PROVE  Whole(c, dir[Combined])' /\ dir'[Combined] = dir[Combined]
      BY DEF MergedOwn, Whole
    <3>1. Combined \in Uses(c) /\ Combined \in Outs
      BY DEF Uses, Outs, Ended
    <3>2. dir'[Combined] = dir[Combined] /\ ino'[dir[Combined]] = ino[dir[Combined]]
      BY <3>1 DEF Spared
    <3> QED
      BY <2>1, <3>2 DEF MergedOwn, Whole
  <2>6. SentOwn(c)'
    BY <2>1 DEF SentOwn, Whole, Spared, Holding
  <2> QED
    BY <2>3, <2>4, <2>5, <2>6
<1> QED
  BY <1>2, <1>5, <1>6 DEF Untouched

(* What one actor does when it opens no file for writing.                   *)
Moves(a) ==
  /\ Recorded(a)' /\ Untouched(a)' /\ Uses(a)' \subseteq Uses(a)
  /\ a \in Requests => Located(a)'
  /\ \/ act'[a].pc \notin Holding
     \/ /\ act'[a].pc \in Writers /\ act[a].pc \in Writers
        /\ act'[a].fd = act[a].fd /\ Target(a)' = Target(a)
     \/ /\ act'[a].pc = "streaming"
        /\ \E n \in Outs \cap Uses(a) :
             dir[n] # None /\ dir'[n] = dir[n] /\ act'[a].fd = dir[n] /\ Target(a)' = n

LEMMA MovesKeep ==
  ASSUME FInv, Store', crossed \subseteq crossed',
         NEW M \in SUBSET Actors, \A b \in Actors \ M : act'[b] = act[b],
         \A m, n \in M : m = n,
         \A n \in Outs : dir'[n] \in {dir[n], None},
         \A c \in Actors \ M : c \notin crossed' => Spared(c),
         \A r \in Requests \ M : Located(r)',
         \A a \in M : Moves(a)
  PROVE  FInv'
<1>1. \A b \in Actors \ M : /\ Uses(b)' = Uses(b) /\ Target(b)' = Target(b)
                            /\ Recorded(b)' /\ Named(b)'
  <2> SUFFICES ASSUME NEW b \in Actors \ M
               PROVE  /\ Uses(b)' = Uses(b) /\ Target(b)' = Target(b)
                      /\ Recorded(b)' /\ Named(b)'
    OBVIOUS
  <2>1. act'[b] = act[b] /\ Recorded(b) /\ Named(b)
    BY DEF FInv
  <2>2. Target(b)' = Target(b)
    BY <2>1 DEF Target, Result, OutOf
  <2>3. Uses(b)' = Uses(b)
    BY <2>1 DEF Uses, OutOf
  <2>4. Recorded(b)'
    BY <2>1 DEF Recorded, Inodes
  <2>5. Named(b)'
    <3> SUFFICES ASSUME act[b].pc \in Holding, NEW m \in Outs, dir'[m] = act[b].fd
                 PROVE  m = Target(b)
      BY <2>1, <2>2 DEF Named
    <3>1. dir[m] = act[b].fd
      BY <2>1 DEF Recorded
    <3> QED
      BY <2>1, <3>1 DEF Named
  <2> QED
    BY <2>2, <2>3, <2>4, <2>5
<1>2. \A b \in Actors : Uses(b)' \subseteq Uses(b)
  BY <1>1 DEF Moves
<1>3. Apart'
  BY DEF FInv, Apart
<1>4. Marked'
  BY <1>2 DEF FInv, Marked
<1>5. \A a \in M : Named(a)'
  <2> SUFFICES ASSUME NEW a \in M, act'[a].pc \in Holding, NEW m \in Outs, dir'[m] = act'[a].fd
               PROVE  m = Target(a)'
    BY DEF Named
  <2>1. act'[a].fd # None
    BY DEF Moves, Recorded
  <2>2. dir[m] = act'[a].fd
    BY <2>1
  <2>3. CASE act[a].pc \in Writers /\ act'[a].fd = act[a].fd /\ Target(a)' = Target(a)
    BY <2>2, <2>3 DEF FInv, Named, Holding
  <2>4. CASE \E n \in Outs : dir[n] # None /\ act'[a].fd = dir[n] /\ Target(a)' = n
    BY <2>2, <2>4 DEF FInv, Apart
  <2> QED
    BY <2>3, <2>4 DEF Moves
<1>6. Alone'
  <2> SUFFICES ASSUME NEW a \in Actors, NEW b \in Actors, a # b,
                      act'[b].pc \in Writers, act'[a].pc \in Holding, act'[a].fd = act'[b].fd
               PROVE  a \in crossed'
    BY DEF Alone
  <2>1. act[b].pc \in Writers /\ act[b].fd = act'[b].fd
    BY DEF Moves, Writers, Holding
  <2>2. CASE act[a].pc \in Holding /\ act[a].fd = act'[a].fd
    BY <2>1, <2>2 DEF FInv, Alone
  <2>3. CASE \E n \in Outs \cap Uses(a) : dir[n] # None /\ act'[a].fd = dir[n]
    <3>1. PICK n \in Outs \cap Uses(a) : act'[a].fd = dir[n]
      BY <2>3
    <3>2. n = Target(b) /\ Target(b) \in Uses(b)
      BY <2>1, <3>1, TargetUsed DEF FInv, Named, Holding
    <3> QED
      BY <3>1, <3>2 DEF FInv, Marked
  <2> QED
    BY <2>2, <2>3 DEF Moves, Holding
<1>7. \A a \in Actors : Untouched(a)'
  <2>1. \A c \in Actors \ M : c \notin crossed' => Untouched(c)'
    BY SparedKeeps DEF FInv
  <2>2. \A c \in Actors \ M : c \in crossed' => Untouched(c)'
    BY DEF Untouched
  <2> QED
    BY <2>1, <2>2 DEF Moves
<1>8. \A a \in Actors : Recorded(a)' /\ Named(a)'
  BY <1>1, <1>5 DEF Moves
<1>9. \A r \in Requests : Located(r)'
  BY DEF Moves
<1> QED
  BY <1>3, <1>4, <1>6, <1>7, <1>8, <1>9 DEF FInv

(* A step that writes no file: names may go, what is reachable stays.       *)
Settles ==
  /\ dir' \in [Outs -> Inodes \cup {None}] /\ \A n \in Outs : dir'[n] \in {dir[n], None}
  /\ Keep(ino) \/ ino' = ino
  /\ crossed \subseteq crossed' /\ now' \in Nat

LEMMA KeepIs ==
  ASSUME NEW files \in [Inodes -> File], Keep(files)
  PROVE  /\ ino' \in [Inodes -> File]
         /\ \A n \in Outs : dir'[n] \in Inodes => ino'[dir'[n]] = files[dir'[n]]
         /\ \A a \in Actors : act'[a].fd \in Inodes => ino'[act'[a].fd] = files[act'[a].fd]
<1>1. Blank \in File
  BY DEF Blank, File
<1> QED
  BY <1>1 DEF Keep

LEMMA Settled ==
  ASSUME FInv, Settles
  PROVE  /\ Store'
         /\ \A n \in Outs : dir'[n] # None => dir'[n] = dir[n] /\ ino'[dir[n]] = ino[dir[n]]
         /\ \A a \in Actors : act'[a].fd \in Inodes => ino'[act'[a].fd] = ino[act'[a].fd]
<1>1. Inodes' = Inodes
  BY DEF Inodes
<1>2. /\ ino' \in [Inodes -> File]
      /\ \A n \in Outs : dir'[n] \in Inodes => ino'[dir'[n]] = ino[dir'[n]]
      /\ \A a \in Actors : act'[a].fd \in Inodes => ino'[act'[a].fd] = ino[act'[a].fd]
  <2>1. CASE Keep(ino)
    BY <2>1, KeepIs DEF FInv, Store
  <2>2. CASE ino' = ino
    BY <2>2 DEF FInv, Store
  <2> QED
    BY <2>1, <2>2 DEF Settles
<1> QED
  BY <1>1, <1>2 DEF Settles, Store, File

LEMMA SettledLocated ==
  ASSUME FInv, Settles, NEW r \in Requests,
         act'[r].pc \in Early => act[r].pc \in Early /\ act[r].outs \subseteq act'[r].outs
  PROVE  Located(r)'
<1> SUFFICES ASSUME act'[r].pc \in Early, NEW n \in Outs, dir'[n] # None,
                    NEW s \in ino'[dir'[n]].from, s[1] = r
             PROVE  \/ s[2] \in act'[r].outs /\ n = OutOf(r, s[2])
                    \/ n = Combined /\ r \in crossed'
  BY DEF Located, OutOf
<1>1. dir'[n] = dir[n] /\ s \in ino[dir[n]].from
  BY Settled
<1>2. \/ s[2] \in act[r].outs /\ n = OutOf(r, s[2])
      \/ n = Combined /\ r \in crossed
  BY <1>1 DEF FInv, Located
<1> QED
  BY <1>2 DEF Settles

LEMMA SettledKeeps ==
  ASSUME FInv, Settles,
         NEW M \in SUBSET Actors, \A b \in Actors \ M : act'[b] = act[b],
         \A m, n \in M : m = n, \A a \in M : Moves(a)
  PROVE  FInv'
<1>1. \A c \in Actors \ M : Spared(c)
  <2> SUFFICES ASSUME NEW c \in Actors \ M PROVE Spared(c)
    OBVIOUS
  <2>1. act[c].pc \in Holding => act'[c].fd = act[c].fd /\ act[c].fd \in Inodes
    BY DEF FInv, Recorded
  <2> QED
    BY <2>1, Settled DEF Spared, Settles
<1>2. \A r \in Requests \ M : Located(r)'
  BY SettledLocated DEF Actors
<1>3. Store'
  BY Settled
<1> QED
  BY <1>1, <1>2, <1>3, MovesKeep DEF Settles

LEMMA OneSettles ==
  ASSUME FInv, Settles, NEW a \in Actors, Moves(a), \A b \in Actors \ {a} : act'[b] = act[b]
  PROVE  FInv'
<1> DEFINE M == {a}
<1>1. /\ M \in SUBSET Actors /\ \A m, n \in M : m = n
      /\ \A b \in Actors \ M : act'[b] = act[b]
      /\ \A m \in M : Moves(m)
  OBVIOUS
<1> HIDE DEF M
<1> QED
  BY <1>1, SettledKeeps

(* An actor ends.                                                           *)
Ends(a) ==
  /\ act'[a].pc \in Ended /\ act'[a].outs = {} /\ act'[a].fd = None
  /\ act'[a].merged = FALSE /\ (a \notin Batches => act'[a].hard = 0)

LEMMA EndsMoves ==
  ASSUME FInv, Settles, NEW a \in Actors, Ends(a),
         act'[a].pc \in Early /\ a \in Requests => Located(a)'
  PROVE  Moves(a)
<1>1. Recorded(a)'
  BY InodesAre DEF Ends, Recorded, Ended, Holding, Writers, Late, Inodes
<1>2. Untouched(a)'
  BY DEF Ends, Untouched, Sole, PartsOwn, PartsWhole, MergedOwn, SentOwn, Ended, Writers, Making
<1>3. Uses(a)' = {}
  BY DEF Ends, Uses
<1>4. a \in Requests => Located(a)'
  BY DEF Located
<1> QED
  BY <1>1, <1>2, <1>3, <1>4 DEF Moves, Ends, Ended, Holding, Writers

LEMMA EndsKeeps ==
  ASSUME FInv, Settles, NEW a \in Actors, Ends(a), \A b \in Actors \ {a} : act'[b] = act[b],
         act'[a].pc = "busy" => act[a].pc = "idle",
         act'[a].pc = "aborted" => Located(a)'
  PROVE  FInv'
<1>1. act'[a].pc \in Early /\ a \in Requests => Located(a)'
  <2>1. act'[a].pc \in Early => act'[a].pc \in {"busy", "aborted"}
    BY DEF Ends, Early, Ended
  <2>2. act'[a].pc = "busy" => act[a].outs = {}
    BY DEF FInv, Recorded
  <2> QED
    BY <2>1, <2>2, SettledLocated DEF Early
<1>2. Moves(a)
  BY <1>1, EndsMoves
<1> QED
  BY <1>2, OneSettles

(* An actor goes from one stage of preparing its output to another.         *)
Shifts(a) ==
  /\ act[a].pc \in {"idle", "next", "spooling", "process", "writing", "close"}
  /\ act'[a].pc \in {"next", "spooling", "process", "close", "answer"}
  /\ act'[a].outs = act[a].outs /\ act'[a].fd = None /\ act'[a].merged = FALSE
  /\ act'[a].hard = 0 => act[a].hard = 0 /\ act[a].pc # "writing"
  /\ act'[a].pc \in {"spooling", "process"} => act'[a].k \in 1..Len(Sends[a])
  /\ a \notin Batches => act'[a].hard = 0
  /\ act'[a].pc = "answer" => act'[a].hard = 0 /\ \E k \in act[a].outs : act[a].outs = {k}

LEMMA ShiftKeeps ==
  ASSUME FInv, Settles, NEW a \in Actors, Shifts(a), \A b \in Actors \ {a} : act'[b] = act[b]
  PROVE  FInv'
<1> USE DEF Shifts
<1>0. Recorded(a) /\ Untouched(a)
  BY DEF FInv
<1>1. Recorded(a)'
  BY <1>0 DEF Recorded, Ended, Holding, Writers, Late, Inodes
<1>3. ~act[a].merged
  BY <1>0 DEF Recorded, Late
<1>4. (OwnNames(a)' <=> OwnNames(a)) /\ crossed \subseteq crossed'
  BY DEF OwnNames, OutOf, Settles
<1>5. \A k \in act[a].outs :
        /\ OutOf(a, k) \in Outs /\ OutOf(a, k)' = OutOf(a, k)
        /\ dir'[OutOf(a, k)] # None =>
             /\ dir'[OutOf(a, k)] = dir[OutOf(a, k)]
             /\ ino'[dir[OutOf(a, k)]] = ino[dir[OutOf(a, k)]]
  <2>1. \A k \in act[a].outs : OutOf(a, k) \in Outs /\ OutOf(a, k)' = OutOf(a, k)
    BY <1>0, OutIn DEF Recorded, OutOf
  <2> QED
    BY <2>1, Settled
<1>6. act[a].pc \in Making \/ act[a].outs = {}
  BY <1>0 DEF Recorded, Making
<1>7. Untouched(a)'
  <2> SUFFICES ASSUME a \notin crossed', OwnNames(a)
               PROVE  (PartsOwn(a) /\ PartsWhole(a) /\ MergedOwn(a) /\ SentOwn(a))'
    BY <1>4 DEF Untouched, Sole, Writers
  <2>1. PartsOwn(a) /\ PartsWhole(a)
    BY <1>0, <1>4 DEF Untouched
  <2>2. PartsOwn(a)'
    BY <1>3, <1>5, <1>6, <2>1 DEF PartsOwn, Readable
  <2>3. PartsWhole(a)'
    BY <1>3, <1>5, <1>6, <2>1 DEF PartsWhole
  <2> QED
    BY <2>2, <2>3 DEF MergedOwn, SentOwn
<1>8. Uses(a)' \subseteq Uses(a)
  BY <1>0 DEF Uses, OutOf, Ended, Recorded
<1>9. a \in Requests => Located(a)'
  BY SettledLocated DEF Early
<1>10. Moves(a)
  BY <1>1, <1>7, <1>8, <1>9 DEF Moves, Holding, Writers
<1> QED
  BY <1>10, OneSettles

LEMMA Still ==
  ASSUME FInv, UNCHANGED <<dir, crossed, now>>, Keep(ino) \/ ino' = ino
  PROVE  Settles
BY DEF FInv, Store, Settles

LEMMA Removal ==
  ASSUME FInv, NEW a \in Actors, NEW S, dir' = [n \in Outs |-> IF n \in S THEN None ELSE dir[n]],
         Cross(a, S) \/ crossed' = crossed, Keep(ino), now' = now
  PROVE  Settles
BY DEF FInv, Store, Settles, Cross

LEMMA ReturnEnds ==
  ASSUME Progress, NEW a \in Actors, NEW p \in Ended, Return(a, p)
  PROVE  /\ Ends(a) /\ act'[a].pc = p
         /\ \A b \in Actors \ {a} : act'[b] = act[b]
<1>1. DOMAIN act = Actors
  BY DEF Progress
<1>2. act'[a] = [Locals EXCEPT !.pc = p] /\ \A b \in Actors \ {a} : act'[b] = act[b]
  BY <1>1 DEF Return
<1> QED
  BY <1>2 DEF Ends, Locals

LEMMA ReturnFiles ==
  ASSUME Progress, FInv, NEW a \in Actors, NEW p \in Ended \ {"busy", "aborted"}, Return(a, p),
         Settles
  PROVE  FInv'
BY ReturnEnds, EndsKeeps

(* The record of an actor after an assignment to it.                        *)
LEMMA Assigned ==
  ASSUME Progress, NEW a \in Actors, NEW l, act' = [act EXCEPT ![a] = l]
  PROVE  act'[a] = l /\ \A b \in Actors \ {a} : act'[b] = act[b]
BY DEF Progress

LEMMA UploadFiles ==
  ASSUME IInv, FInv, NEW r \in Requests,
         Begin(r) \/ Receive(r) \/ Spooled(r) \/ EndOfForm(r)
  PROVE  FInv'
<1>0. /\ r \in Actors /\ Progress /\ Shape(act[r]) /\ Recorded(r) /\ Settles
  <2>1. UNCHANGED <<dir, crossed, now>> /\ ino' = ino
    BY DEF Begin, Receive, Spooled, EndOfForm
  <2> QED
    BY <2>1, Still DEF IInv, FInv, Progress, Actors
<1>1. ~act[r].merged \/ act[r].pc \in Late
  BY <1>0 DEF Recorded
<1>2. CASE Begin(r) /\ Goto(r, "busy")
  <2>1. act'[r] = [act[r] EXCEPT !.pc = "busy"] /\ \A b \in Actors \ {r} : act'[b] = act[b]
    BY <1>0, <1>2, Assigned DEF Goto
  <2>2. act[r].pc = "idle" /\ act[r].outs = {} /\ act[r].fd = None
    BY <1>0, <1>2 DEF Begin, Recorded, Holding, Writers
  <2>3. Ends(r) /\ act'[r].pc = "busy"
    BY <1>0, <1>1, <2>1, <2>2 DEF Ends, Ended, Shape, Late, Recorded
  <2> QED
    BY <1>0, <2>1, <2>2, <2>3, EndsKeeps
<1>3. CASE Begin(r) /\ Goto(r, "next")
  <2>1. act'[r] = [act[r] EXCEPT !.pc = "next"] /\ \A b \in Actors \ {r} : act'[b] = act[b]
    BY <1>0, <1>3, Assigned DEF Goto
  <2>2. act[r].pc = "idle" /\ act[r].fd = None
    BY <1>0, <1>3 DEF Begin, Recorded, Holding, Writers
  <2>3. Shifts(r)
    BY <1>0, <1>1, <2>1, <2>2 DEF Shifts, Shape, Late, Recorded
  <2> QED
    BY <1>0, <2>1, <2>3, ShiftKeeps
<1>4. CASE Receive(r)
  <2>1. act'[r] = [act[r] EXCEPT !.pc = "spooling", !.k = @ + 1]
        /\ \A b \in Actors \ {r} : act'[b] = act[b]
    <3>1. act' = [act EXCEPT ![r] = [act[r] EXCEPT !.pc = "spooling", !.k = @ + 1]]
      BY <1>4 DEF Receive
    <3> QED
      BY <1>0, <3>1, Assigned
  <2>2. act[r].pc = "next" /\ act[r].k < Len(Sends[r]) /\ act[r].fd = None
    BY <1>0, <1>4 DEF Receive, Recorded, Holding, Writers
  <2>3. act[r].k + 1 \in 1..Len(Sends[r])
    <3>1. Sends[r] \in Seq(Uploads) /\ act[r].k \in Nat
      BY <1>0, OutputAssumption DEF Shape
    <3>2. Len(Sends[r]) \in Nat
      BY <3>1
    <3> QED
      BY <2>2, <3>1, <3>2
  <2>4. Shifts(r)
    BY <1>0, <1>1, <2>1, <2>2, <2>3 DEF Shifts, Shape, Late, Recorded
  <2> QED
    BY <1>0, <2>1, <2>4, ShiftKeeps
<1>5. CASE Spooled(r)
  <2>1. PICK size : act' = [act EXCEPT ![r].pc = "process", ![r].bytes = @ + size]
    BY <1>5 DEF Spooled
  <2>2. act'[r] = [act[r] EXCEPT !.pc = "process", !.bytes = @ + size]
        /\ \A b \in Actors \ {r} : act'[b] = act[b]
    <3>1. act' = [act EXCEPT ![r] = [act[r] EXCEPT !.pc = "process", !.bytes = @ + size]]
      BY <2>1
    <3> QED
      BY <1>0, <3>1, Assigned
  <2>3. act[r].pc = "spooling" /\ act[r].fd = None
    BY <1>0, <1>5 DEF Spooled, Recorded, Holding, Writers
  <2>4. Shifts(r)
    BY <1>0, <1>1, <2>2, <2>3 DEF Shifts, Shape, Late, Recorded
  <2> QED
    BY <1>0, <2>2, <2>4, ShiftKeeps
<1>6. CASE EndOfForm(r) /\ Goto(r, "close")
  <2>1. act'[r] = [act[r] EXCEPT !.pc = "close"] /\ \A b \in Actors \ {r} : act'[b] = act[b]
    BY <1>0, <1>6, Assigned DEF Goto
  <2>2. act[r].pc = "next" /\ act[r].fd = None
    BY <1>0, <1>6 DEF EndOfForm, Recorded, Holding, Writers
  <2>3. Shifts(r)
    BY <1>0, <1>1, <2>1, <2>2 DEF Shifts, Shape, Late, Recorded
  <2> QED
    BY <1>0, <2>1, <2>3, ShiftKeeps
<1>7. CASE EndOfForm(r) /\ Return(r, "rejected")
  BY <1>0, <1>7, ReturnFiles DEF Ended
<1> QED
  BY <1>2, <1>3, <1>4, <1>5, <1>6, <1>7 DEF Begin, EndOfForm

(* What a batch has produced goes by name, hence wherever a copy of it made *)
(* by another merge is not.                                                 *)
LEMMA AbandonFiles ==
  ASSUME IInv, FInv, NEW r \in Requests, act[r].pc \in {"next", "spooling"}, Abandon(r)
  PROVE  FInv'
<1> DEFINE made == {OutOf(r, k) : k \in act[r].outs}
<1>1. r \in Actors /\ Progress
  BY DEF Actors, IInv
<1>2. Settles
  <2>1. dir' = [n \in Outs |-> IF n \in made THEN None ELSE dir[n]] /\ Cross(r, made)
        /\ Keep(ino) /\ now' = now
    BY DEF Abandon
  <2> HIDE DEF made
  <2> QED
    BY <1>1, <2>1, Removal
<1>3. /\ Ends(r) /\ act'[r].pc = "aborted"
      /\ \A b \in Actors \ {r} : act'[b] = act[b]
  <2>1. Return(r, "aborted") /\ "aborted" \in Ended
    BY DEF Abandon, Ended
  <2> QED
    BY <1>1, <2>1, ReturnEnds
<1>4. Located(r)'
  <2> SUFFICES ASSUME NEW n \in Outs, dir'[n] # None, NEW s \in ino'[dir'[n]].from, s[1] = r
               PROVE  n = Combined /\ r \in crossed'
    BY DEF Located
  <2>1. n \notin made /\ dir'[n] = dir[n] /\ s \in ino[dir[n]].from
    BY <1>2, Settled DEF Abandon
  <2>2. Located(r) /\ act[r].pc \in Early
    BY DEF FInv, Early
  <2>3. \/ s[2] \in act[r].outs /\ n = OutOf(r, s[2])
        \/ n = Combined /\ r \in crossed
    BY <2>1, <2>2 DEF Located
  <2> QED
    BY <1>2, <2>1, <2>3 DEF Settles
<1> QED
  BY <1>1, <1>2, <1>3, <1>4, EndsKeeps

LEMMA CloseFiles ==
  ASSUME IInv, FInv, NEW r \in Requests, Close(r)
  PROVE  FInv'
<1>0. /\ r \in Actors /\ Progress /\ Shape(act[r]) /\ Recorded(r) /\ Settles
  <2>1. UNCHANGED <<dir, crossed, now>> /\ ino' = ino
    BY DEF Close
  <2> QED
    BY <2>1, Still DEF IInv, FInv, Progress, Actors
<1>1. CASE Return(r, "rejected")
  BY <1>0, <1>1, ReturnFiles DEF Ended
<1>2. CASE Goto(r, "answer") /\ Cardinality(act[r].outs) = 1 /\ act[r].hard = 0
  <2>1. act'[r] = [act[r] EXCEPT !.pc = "answer"] /\ \A b \in Actors \ {r} : act'[b] = act[b]
    BY <1>0, <1>2, Assigned DEF Goto
  <2>2. act[r].pc = "close" /\ act[r].fd = None /\ ~act[r].merged
    BY <1>0 DEF Close, Recorded, Holding, Writers, Late
  <2>3. \E k \in act[r].outs : act[r].outs = {k}
    <3>1. Len(Sends[r]) \in Nat
      BY <1>0, OutputAssumption
    <3>2. IsFiniteSet(1..Len(Sends[r])) /\ act[r].outs \in SUBSET (1..Len(Sends[r]))
      BY <1>0, <3>1, FS_Interval DEF Recorded
    <3>3. IsFiniteSet(act[r].outs)
      BY <3>2, FS_Subset
    <3>4. \E k : act[r].outs = {k}
      BY <1>2, <3>3, FS_Singleton
    <3> QED
      BY <3>4
  <2>4. Shifts(r)
    BY <1>0, <1>2, <2>1, <2>2, <2>3 DEF Shifts, Shape
  <2> QED
    BY <1>0, <2>1, <2>4, ShiftKeeps
<1> QED
  BY <1>1, <1>2 DEF Close

(* An archive that yields nothing.                                          *)
LEMMA FailedFiles ==
  ASSUME IInv, FInv, NEW a \in Actors, Reject(a) \/ GiveUp(a)
  PROVE  FInv'
<1>0. /\ Progress /\ Shape(act[a]) /\ Recorded(a) /\ Settles /\ After(a, FALSE)
      /\ act[a].pc \in {"process", "writing"}
  <2>1. UNCHANGED <<dir, crossed, now>> /\ (Keep(ino) \/ ino' = ino)
    BY DEF Reject, GiveUp
  <2> QED
    BY <2>1, Still DEF IInv, FInv, Progress, Reject, GiveUp
<1>1. CASE a \in Batches
  <2>1. act' = [act EXCEPT ![a].pc = "next", ![a].fd = None, ![a].outs = act[a].outs,
                           ![a].hard = act[a].hard + 1]
    BY <1>0, <1>1 DEF After
  <2>2. /\ act'[a] = [act[a] EXCEPT !.pc = "next", !.fd = None, !.outs = act[a].outs,
                                    !.hard = act[a].hard + 1]
        /\ \A b \in Actors \ {a} : act'[b] = act[b]
    <3>1. act' = [act EXCEPT ![a] = [act[a] EXCEPT !.pc = "next", !.fd = None,
                                     !.outs = act[a].outs, !.hard = act[a].hard + 1]]
      BY <2>1
    <3> QED
      BY <1>0, <3>1, Assigned
  <2>3. ~act[a].merged /\ act[a].hard \in Nat
    BY <1>0 DEF Recorded, Late, Shape
  <2>4. /\ act'[a].pc = "next" /\ act'[a].fd = None /\ act'[a].outs = act[a].outs
        /\ act'[a].hard = act[a].hard + 1 /\ act'[a].merged = FALSE
    BY <1>0, <2>2, <2>3 DEF Shape
  <2>5. Shifts(a)
    BY <1>0, <1>1, <2>3, <2>4 DEF Shifts
  <2> QED
    BY <1>0, <2>2, <2>5, ShiftKeeps
<1>2. CASE a \notin Batches
  <2>1. \E p \in Ended \ {"busy", "aborted"} : Return(a, p)
    BY <1>0, <1>2 DEF After, Ended
  <2> QED
    BY <1>0, <2>1, ReturnFiles
<1> QED
  BY <1>1, <1>2

(* The parts of a merged archive go, the merged archive stays as it is.     *)
LEMMA DropFiles ==
  ASSUME IInv, FInv, NEW r \in Requests, DropParts(r)
  PROVE  FInv'
<1> DEFINE parts == {OutOf(r, k) : k \in act[r].outs}
<1>0. r \in Actors /\ Progress /\ Shape(act[r]) /\ Recorded(r) /\ Untouched(r)
  BY DEF Actors, IInv, FInv, Progress
<1>1. Settles
  <2>1. dir' = [n \in Outs |-> IF n \in parts THEN None ELSE dir[n]] /\ Cross(r, parts)
        /\ Keep(ino) /\ now' = now
    BY DEF DropParts
  <2> HIDE DEF parts
  <2> QED
    BY <1>0, <2>1, Removal
<1>2. /\ act'[r] = [act[r] EXCEPT !.pc = "answer", !.merged = TRUE]
      /\ \A b \in Actors \ {r} : act'[b] = act[b]
  <2>1. act' = [act EXCEPT ![r] = [act[r] EXCEPT !.pc = "answer", !.merged = TRUE]]
    BY DEF DropParts
  <2> QED
    BY <1>0, <2>1, Assigned
<1>3. /\ act'[r].pc = "answer" /\ act'[r].merged = TRUE /\ act'[r].fd = act[r].fd
      /\ act'[r].outs = act[r].outs /\ act'[r].hard = act[r].hard
      /\ act[r].pc = "drop"
  <2>1. act[r].pc = "drop"
    BY DEF DropParts
  <2> QED
    BY <1>0, <1>2, <2>1 DEF Shape
<1>4. Recorded(r)'
  BY <1>0, <1>3 DEF Recorded, Holding, Writers, Ended, Late, Inodes
<1>5. Untouched(r)'
  <2> SUFFICES ASSUME r \notin crossed', OwnNames(r)', dir'[Combined] # None
               PROVE  Whole(r, dir[Combined])' /\ dir'[Combined] = dir[Combined]
    BY <1>3 DEF Untouched, Sole, PartsOwn, PartsWhole, MergedOwn, SentOwn, Writers, Whole
  <2>1. r \notin crossed /\ OwnNames(r)
    BY <1>1, <1>3 DEF Settles, OwnNames, OutOf
  <2>2. Combined \in Outs
    BY DEF Outs
  <2>3. dir'[Combined] = dir[Combined] /\ ino'[dir[Combined]] = ino[dir[Combined]]
    BY <1>1, <2>2, Settled
  <2> QED
    BY <1>0, <1>3, <2>1, <2>3 DEF Untouched, MergedOwn, Whole
<1>6. Uses(r)' \subseteq Uses(r)
  BY <1>3 DEF Uses, OutOf, Ended
<1>7. Located(r)'
  BY <1>3 DEF Located, Early
<1>8. Moves(r)
  BY <1>3, <1>4, <1>5, <1>6, <1>7 DEF Moves, Holding, Writers
<1> QED
  BY <1>0, <1>1, <1>2, <1>8, OneSettles

(* What is about to be sent, when nobody crossed it, is the whole result.   *)
LEMMA AnswerIsOwn ==
  ASSUME FInv, NEW a \in Actors, act[a].pc = "answer", dir[Result(a)] # None,
         a \notin crossed, OwnNames(a)
  PROVE  Whole(a, dir[Result(a)])
<1>1. Recorded(a) /\ PartsOwn(a) /\ PartsWhole(a) /\ MergedOwn(a)
  BY DEF FInv, Untouched
<1>2. CASE act[a].merged
  BY <1>1, <1>2 DEF Result, MergedOwn
<1>3. CASE ~act[a].merged
  <2>1. PICK k \in act[a].outs : act[a].outs = {k}
    BY <1>1, <1>3 DEF Recorded, Late
  <2>2. Result(a) = OutOf(a, k) /\ act[a].hard = 0
    BY <1>1, <1>3, <2>1 DEF Result, Recorded, Late
  <2>3. ino[dir[OutOf(a, k)]].whole
    BY <1>1, <1>3, <2>1, <2>2 DEF PartsWhole, Making
  <2>4. ino[dir[OutOf(a, k)]].from = {<<a, k>>}
    BY <1>1, <1>3, <2>1, <2>2, <2>3 DEF PartsOwn, Making, Readable
  <2> QED
    BY <2>1, <2>2, <2>3, <2>4 DEF Whole
<1> QED
  BY <1>2, <1>3

LEMMA ResultIn ==
  ASSUME NEW a \in Actors, Recorded(a), act[a].pc = "answer"
  PROVE  Result(a) \in Outs \cap Uses(a)
<1>1. CASE act[a].merged
  BY <1>1 DEF Result, Uses, Outs, Ended
<1>2. CASE ~act[a].merged
  <2>1. PICK k \in act[a].outs : act[a].outs = {k}
    BY <1>2 DEF Recorded, Late
  <2>2. Result(a) = OutOf(a, k)
    BY <1>2, <2>1 DEF Result
  <2>3. OutOf(a, k) \in Outs
    BY <2>1, OutIn DEF Recorded
  <2>4. OutOf(a, k) \in Uses(a)
    BY <2>1 DEF Uses, Ended
  <2> QED
    BY <2>2, <2>3, <2>4
<1> QED
  BY <1>1, <1>2

LEMMA AnswerFiles ==
  ASSUME IInv, FInv, NEW a \in Actors, Answer(a)
  PROVE  FInv'
<1>0. /\ Progress /\ Shape(act[a]) /\ Recorded(a) /\ Settles /\ act[a].pc = "answer"
  <2>1. UNCHANGED <<dir, crossed, now>> /\ ino' = ino
    BY DEF Answer
  <2> QED
    BY <2>1, Still DEF IInv, FInv, Progress, Answer
<1>1. CASE Return(a, "missing")
  BY <1>0, <1>1, ReturnFiles DEF Ended
<1>2. CASE dir[Result(a)] # None
  <2>1. /\ act'[a] = [act[a] EXCEPT !.pc = "streaming", !.fd = dir[Result(a)]]
        /\ \A b \in Actors \ {a} : act'[b] = act[b]
    <3>1. act' = [act EXCEPT ![a] = [act[a] EXCEPT !.pc = "streaming", !.fd = dir[Result(a)]]]
      BY <1>2 DEF Answer
    <3> QED
      BY <1>0, <3>1, Assigned
  <2>2. /\ act'[a].pc = "streaming" /\ act'[a].fd = dir[Result(a)]
        /\ act'[a].merged = act[a].merged
        /\ act'[a].outs = act[a].outs /\ act'[a].hard = act[a].hard
    BY <1>0, <2>1 DEF Shape
  <2>3. Result(a) \in Outs \cap Uses(a)
    BY <1>0, ResultIn
  <2>4. dir[Result(a)] \in Inodes
    BY <1>2, <2>3 DEF FInv, Store
  <2>5. Recorded(a)'
    BY <1>0, <1>2, <2>2, <2>4 DEF Recorded, Holding, Writers, Ended, Late, Inodes
  <2>6. Untouched(a)'
    <3> SUFFICES ASSUME a \notin crossed', OwnNames(a)'
                 PROVE  Whole(a, dir[Result(a)])'
      <4>1. (Sole(a) /\ PartsOwn(a) /\ PartsWhole(a) /\ MergedOwn(a))'
        BY <2>2 DEF Sole, PartsOwn, PartsWhole, MergedOwn, Writers, Making
      <4>2. act'[a].fd = dir'[Result(a)']
        BY <2>2, <2>3 DEF Result, OutOf, Answer
      <4> QED
        BY <2>2, <4>1, <4>2 DEF Untouched, SentOwn, Whole
    <3>1. a \notin crossed /\ OwnNames(a)
      BY <2>2 DEF Answer, OwnNames, OutOf
    <3>2. Whole(a, dir[Result(a)])
      BY <1>0, <1>2, <3>1, AnswerIsOwn
    <3>3. dir'[Result(a)'] = dir[Result(a)] /\ ino' = ino
      BY <2>2 DEF Result, OutOf, Answer
    <3> QED
      BY <2>2, <3>2, <3>3 DEF Whole
  <2>7. Uses(a)' \subseteq Uses(a)
    BY <1>0, <2>2 DEF Uses, OutOf, Ended
  <2>8. Located(a)'
    BY <2>2 DEF Located, Early
  <2>9. Target(a)' = Result(a) /\ dir'[Result(a)] = dir[Result(a)]
    BY <2>2 DEF Target, Result, OutOf, Answer
  <2>10. Moves(a)
    BY <1>2, <2>2, <2>3, <2>5, <2>6, <2>7, <2>8, <2>9 DEF Moves
  <2> QED
    BY <1>0, <2>1, <2>10, OneSettles
<1> QED
  BY <1>1, <1>2 DEF Answer

LEMMA StreamFiles ==
  ASSUME IInv, FInv, NEW a \in Actors, Stream(a)
  PROVE  FInv'
<1>0. /\ Progress /\ Shape(act[a]) /\ Recorded(a) /\ Settles /\ act[a].pc = "streaming"
  <2>1. UNCHANGED <<dir, crossed, now>> /\ Keep(ino)
    BY DEF Stream
  <2> QED
    BY <2>1, Still DEF IInv, FInv, Progress, Stream
<1>1. CASE a \in S3Jobs
  <2>1. /\ act'[a] = [act[a] EXCEPT !.pc = "remove", !.fd = None]
        /\ \A b \in Actors \ {a} : act'[b] = act[b]
    <3>1. act' = [act EXCEPT ![a] = [act[a] EXCEPT !.pc = "remove", !.fd = None]]
      BY <1>1 DEF Stream
    <3> QED
      BY <1>0, <3>1, Assigned
  <2>2. /\ act'[a].pc = "remove" /\ act'[a].fd = None /\ act'[a].merged = act[a].merged
        /\ act'[a].outs = act[a].outs /\ act'[a].hard = act[a].hard
    BY <1>0, <2>1 DEF Shape
  <2>3. Recorded(a)'
    BY <1>0, <2>2 DEF Recorded, Holding, Writers, Ended, Late, Inodes
  <2>4. Untouched(a)'
    BY <2>2 DEF Untouched, Sole, PartsOwn, PartsWhole, MergedOwn, SentOwn, Writers, Making
  <2>5. Uses(a)' \subseteq Uses(a)
    BY <1>0, <2>2 DEF Uses, OutOf, Ended
  <2>6. Located(a)'
    BY <2>2 DEF Located, Early
  <2>7. Moves(a)
    BY <2>2, <2>3, <2>4, <2>5, <2>6 DEF Moves, Holding, Writers
  <2> QED
    BY <1>0, <2>1, <2>7, OneSettles
<1>2. CASE a \notin S3Jobs
  <2>1. act'[a] = [Locals EXCEPT !.pc = "done"] /\ \A b \in Actors \ {a} : act'[b] = act[b]
    BY <1>0, <1>2, Assigned DEF Stream
  <2>2. Ends(a) /\ act'[a].pc = "done"
    BY <2>1 DEF Ends, Locals, Ended
  <2> QED
    BY <1>0, <2>1, <2>2, EndsKeeps
<1> QED
  BY <1>1, <1>2

(* Ends that leave the directory alone, or remove the name of a result.     *)
LEMMA EndFiles ==
  ASSUME IInv, FInv, NEW a \in Actors, MergeFail(a) \/ UploadFails(a) \/ RemoveLocal(a)
  PROVE  FInv'
<1>1. Progress /\ \E p \in Ended \ {"busy", "aborted"} : Return(a, p)
  BY DEF IInv, MergeFail, UploadFails, RemoveLocal, Ended
<1>2. Settles
  <2>1. CASE MergeFail(a) \/ UploadFails(a)
    <3>1. UNCHANGED <<dir, crossed, now>> /\ Keep(ino)
      BY <2>1 DEF MergeFail, UploadFails
    <3> QED
      BY <3>1, Still
  <2>2. CASE RemoveLocal(a)
    <3>1. dir' = [n \in Outs |-> IF n \in {Result(a)} THEN None ELSE dir[n]]
      BY <2>2 DEF RemoveLocal, FInv, Store
    <3>2. Cross(a, {Result(a)}) /\ Keep(ino) /\ now' = now
      BY <2>2 DEF RemoveLocal
    <3> QED
      BY <3>1, <3>2, Removal
  <2> QED
    BY <2>1, <2>2
<1> QED
  BY <1>1, <1>2, ReturnFiles

LEMMA DisconnectFiles ==
  ASSUME IInv, FInv, NEW r \in Requests, Disconnect(r)
  PROVE  FInv'
<1>0. r \in Actors /\ Progress /\ Shape(act[r]) /\ Recorded(r) /\ Settles /\ Untouched(r)
  <2>1. UNCHANGED <<dir, crossed, now>> /\ Keep(ino)
    BY DEF Disconnect
  <2> QED
    BY <2>1, Still DEF IInv, FInv, Progress, Actors
<1>1. CASE act[r].pc = "merging"
  <2>1. /\ act'[r] = [act[r] EXCEPT !.pc = "detached"]
        /\ \A b \in Actors \ {r} : act'[b] = act[b]
    BY <1>0, <1>1, Assigned DEF Disconnect
  <2>2. /\ act'[r].pc = "detached" /\ act'[r].fd = act[r].fd /\ act'[r].merged = act[r].merged
        /\ act'[r].outs = act[r].outs /\ act'[r].hard = act[r].hard
    BY <1>0, <2>1 DEF Shape
  <2>3. Recorded(r)'
    BY <1>0, <1>1, <2>2 DEF Recorded, Holding, Writers, Ended, Late, Inodes
  <2>4. Target(r) = Combined /\ Target(r)' = Combined
    BY <1>1, <2>2 DEF Target
  <2>5. act[r].fd \in Inodes
    BY <1>0, <1>1 DEF Recorded, Holding, Writers
  <2>6. ino'[act[r].fd] = ino[act[r].fd] /\ dir' = dir
    BY <1>0, <2>2, <2>5, Settled DEF Disconnect
  <2>7. Untouched(r)'
    <3> SUFFICES ASSUME r \notin crossed PROVE Sole(r)'
      BY <1>0, <2>2 DEF Untouched, PartsOwn, PartsWhole, MergedOwn, SentOwn, Making, Settles
    <3>1. Sole(r)
      BY <1>0 DEF Untouched
    <3> QED
      BY <1>1, <2>2, <2>4, <2>6, <3>1 DEF Sole, Writers
  <2>8. Uses(r)' \subseteq Uses(r)
    BY <1>1, <2>2 DEF Uses, OutOf, Ended
  <2>9. Located(r)'
    BY <2>2 DEF Located, Early
  <2>10. Moves(r)
    BY <1>1, <2>2, <2>3, <2>4, <2>7, <2>8, <2>9 DEF Moves, Writers
  <2> QED
    BY <1>0, <2>1, <2>10, OneSettles
<1>2. CASE act[r].pc # "merging"
  <2>1. /\ act'[r] = [Locals EXCEPT !.pc = "gone", !.k = act[r].k]
        /\ \A b \in Actors \ {r} : act'[b] = act[b]
    BY <1>0, <1>2, Assigned DEF Disconnect
  <2>2. Ends(r) /\ act'[r].pc = "gone"
    BY <2>1 DEF Ends, Locals, Ended
  <2> QED
    BY <1>0, <2>1, <2>2, EndsKeeps
<1> QED
  BY <1>1, <1>2

(* Retention removes names only; time passes.                               *)
LEMMA RetentionFiles ==
  ASSUME FInv, RetentionList \/ RetentionRemove \/ RetentionEnd \/ Tick \/ UNCHANGED vars
  PROVE  FInv'
<1>1. act' = act
  BY DEF RetentionList, RetentionRemove, RetentionEnd, Tick, vars
<1>2. Settles
  <2>1. CASE RetentionList \/ RetentionEnd \/ UNCHANGED vars
    <3>1. UNCHANGED <<dir, crossed, now>> /\ ino' = ino
      BY <2>1 DEF RetentionList, RetentionEnd, vars
    <3> QED
      BY <3>1, Still
  <2>2. CASE Tick
    BY <2>2 DEF Tick, FInv, Store, Settles
  <2>3. CASE RetentionRemove
    <3>1. PICK f : dir' = [dir EXCEPT ![f.name] = None]
      BY <2>3 DEF RetentionRemove
    <3> QED
      BY <2>3, <3>1 DEF RetentionRemove, FInv, Store, Settles
  <2> QED
    BY <2>1, <2>2, <2>3
<1> DEFINE M == {}
<1>3. /\ M \in SUBSET Actors /\ \A m, n \in M : m = n
      /\ \A b \in Actors \ M : act'[b] = act[b]
      /\ \A m \in M : Moves(m)
  BY <1>1
<1> HIDE DEF M
<1> QED
  BY <1>2, <1>3, SettledKeeps

(* Writing an archive changes the inode behind the writer's handle, which   *)
(* no actor that nobody crossed depends on but the writer.                  *)
LEMMA WrittenIs ==
  ASSUME Store, NEW i \in Inodes, NEW srcs \in SUBSET (Actors \X Nat), Written(i, srcs),
         UNCHANGED <<dir, now>>
  PROVE  /\ Store'
         /\ \A n \in Outs : dir[n] # None /\ dir[n] # i => ino'[dir[n]] = ino[dir[n]]
         /\ \A n \in Outs : dir[n] = i =>
              ino'[i].from = srcs /\ (~ino[i].shared => ino'[i].whole)
         /\ \A a \in Actors : act'[a].fd \in Inodes \ {i} => ino'[act'[a].fd] = ino[act'[a].fd]
<1>1. PICK whole \in {TRUE} \cup (IF ino[i].shared THEN {FALSE} ELSE {}) :
        Keep([ino EXCEPT ![i].from = srcs, ![i].whole = whole, ![i].mtime = now])
  BY DEF Written
<1> DEFINE new == [ino[i] EXCEPT !.from = srcs, !.whole = whole, !.mtime = now]
           files == [ino EXCEPT ![i] = new]
<1>2. Keep(files)
  BY <1>1
<1>3. new \in File /\ new.from = srcs /\ (~ino[i].shared => new.whole)
  <2>1. ino[i] \in File /\ now \in Nat /\ whole \in BOOLEAN
    BY <1>1 DEF Store
  <2>2. ~ino[i].shared => whole = TRUE
    BY <1>1
  <2> QED
    BY <2>1, <2>2 DEF File
<1> HIDE DEF new
<1>4. /\ files \in [Inodes -> File] /\ files[i] = new
      /\ \A j \in Inodes \ {i} : files[j] = ino[j]
  BY <1>3 DEF Store
<1> HIDE DEF files
<1>5. /\ ino' \in [Inodes -> File]
      /\ \A n \in Outs : dir'[n] \in Inodes => ino'[dir'[n]] = files[dir'[n]]
      /\ \A a \in Actors : act'[a].fd \in Inodes => ino'[act'[a].fd] = files[act'[a].fd]
  BY <1>2, <1>4, KeepIs
<1>6. \A n \in Outs : dir[n] \in Inodes \cup {None}
  BY DEF Store
<1>7. Store'
  BY <1>5 DEF Store, Inodes, File
<1> QED
  BY <1>3, <1>4, <1>5, <1>6, <1>7

LEMMA WriterKeeps ==
  ASSUME FInv, NEW a \in Actors, act[a].pc \in Writers, NEW srcs \in SUBSET (Actors \X Nat),
         Written(act[a].fd, srcs), UNCHANGED <<dir, crossed, now>>,
         \A b \in Actors \ {a} : act'[b] = act[b], Moves(a),
         \A r \in Requests \ {a} : Located(r)'
  PROVE  FInv'
<1> DEFINE M == {a}
           i == act[a].fd
<1>0. act[a].pc \in Holding /\ Recorded(a) /\ Named(a) /\ i \in Inodes /\ i # None
  BY InodesAre DEF FInv, Recorded, Holding
<1>1. /\ M \in SUBSET Actors /\ \A m, n \in M : m = n
      /\ \A b \in Actors \ M : act'[b] = act[b]
      /\ \A m \in M : Moves(m)
      /\ \A r \in Requests \ M : Located(r)'
  OBVIOUS
<1>2. /\ Store'
      /\ \A n \in Outs : dir[n] # None /\ dir[n] # i => ino'[dir[n]] = ino[dir[n]]
      /\ \A b \in Actors : act'[b].fd \in Inodes \ {i} => ino'[act'[b].fd] = ino[act'[b].fd]
  BY <1>0, WrittenIs DEF FInv
<1>3. \A c \in Actors \ {a} : c \notin crossed' => Spared(c)
  <2> SUFFICES ASSUME NEW c \in Actors, c # a, c \notin crossed PROVE Spared(c)
    OBVIOUS
  <2>1. Uses(c) \cap Uses(a) = {}
    BY DEF FInv, Marked
  <2>2. Target(a) \in Uses(a)
    BY <1>0, TargetUsed
  <2>3. \A m \in Outs : m \in Uses(c) => dir[m] # i
    BY <1>0, <2>1, <2>2 DEF Named
  <2>4. act[c].pc \in Holding => act'[c].fd = act[c].fd /\ act[c].fd \in Inodes \ {i}
    BY DEF FInv, Recorded, Alone
  <2> QED
    BY <1>2, <2>3, <2>4 DEF Spared
<1>4. \A c \in Actors \ M : c \notin crossed' => Spared(c)
  BY <1>3
<1> HIDE DEF M, i
<1> QED
  BY <1>1, <1>2, <1>4, MovesKeep

(* A finished archive, under the name it was opened for unless that is gone.*)
LEMMA FinishFiles ==
  ASSUME IInv, FInv, NEW a \in Actors, Finish(a)
  PROVE  FInv'
<1> DEFINE k == act[a].k
           i == act[a].fd
           srcs == {<<a, k>>}
<1>0. /\ Progress /\ Shape(act[a]) /\ Recorded(a) /\ Named(a) /\ Untouched(a)
      /\ act[a].pc = "writing" /\ After(a, TRUE) /\ UNCHANGED <<dir, crossed, now>>
      /\ Written(i, srcs)
  BY DEF IInv, FInv, Progress, Finish
<1>1. /\ k \in 1..Len(Sends[a]) /\ k \in Nat /\ i \in Inodes /\ ~act[a].merged
      /\ act[a].pc \in Writers /\ act[a].pc \in Holding /\ Target(a) = OutOf(a, k)
      /\ a \notin Batches => act[a].hard = 0
  BY <1>0 DEF Recorded, Writers, Holding, Late, Shape, Target
<1>2. srcs \in SUBSET (Actors \X Nat)
  BY <1>1
<1>3. /\ \A b \in Actors \ {a} : act'[b] = act[b]
      /\ act'[a].fd = None /\ act'[a].merged = FALSE /\ act'[a].hard = act[a].hard
      /\ \/ a \in Batches /\ act'[a].pc = "next" /\ act'[a].outs = act[a].outs \cup {k}
         \/ a \notin Batches /\ act'[a].pc = "answer" /\ act'[a].outs = {k}
  <2>1. CASE a \in Batches
    <3> DEFINE l == [act[a] EXCEPT !.pc = "next", !.fd = None, !.outs = @ \cup {k}, !.hard = @]
    <3>1. act' = [act EXCEPT ![a] = l]
      BY <1>0, <2>1 DEF After
    <3>2. act'[a] = l /\ \A b \in Actors \ {a} : act'[b] = act[b]
      <4> HIDE DEF l
      <4> QED
        BY <1>0, <3>1, Assigned
    <3> QED
      BY <1>0, <1>1, <2>1, <3>2 DEF Shape
  <2>2. CASE a \notin Batches
    <3> DEFINE l == [act[a] EXCEPT !.pc = "answer", !.fd = None, !.outs = {k}]
    <3>1. act' = [act EXCEPT ![a] = l]
      BY <1>0, <2>2 DEF After
    <3>2. act'[a] = l /\ \A b \in Actors \ {a} : act'[b] = act[b]
      <4> HIDE DEF l
      <4> QED
        BY <1>0, <3>1, Assigned
    <3> QED
      BY <1>0, <1>1, <2>2, <3>2 DEF Shape
  <2> QED
    BY <2>1, <2>2
<1>4. /\ \A n \in Outs : dir[n] # None /\ dir[n] # i => ino'[dir[n]] = ino[dir[n]]
      /\ \A n \in Outs : dir[n] = i =>
           ino'[i].from = srcs /\ (~ino[i].shared => ino'[i].whole)
  BY <1>0, <1>1, <1>2, WrittenIs DEF FInv
<1>5. Recorded(a)'
  BY <1>0, <1>1, <1>3, InodesAre DEF Recorded, Holding, Writers, Ended, Late, Inodes
<1>6. Untouched(a)'
  <2> SUFFICES ASSUME a \notin crossed, OwnNames(a)'
               PROVE  (PartsOwn(a) /\ PartsWhole(a) /\ MergedOwn(a) /\ SentOwn(a))'
    BY <1>0, <1>3 DEF Untouched, Sole, Writers
  <2>1. ~ino[i].shared /\ dir[OutOf(a, k)] \in {None, i}
    BY <1>0, <1>1 DEF Untouched, Sole
  <2>2. OutOf(a, k) \in Outs
    BY <1>1, OutIn
  <2>3. dir[OutOf(a, k)] # None =>
          ino'[dir[OutOf(a, k)]].whole /\ ino'[dir[OutOf(a, k)]].from = srcs
    BY <1>4, <2>1, <2>2
  <2>4. ASSUME NEW h \in act[a].outs, a \in Batches, h # k
        PROVE  /\ OutOf(a, h) # OutOf(a, k)
               /\ dir[OutOf(a, h)] # None => ino'[dir[OutOf(a, h)]] = ino[dir[OutOf(a, h)]]
    <3>1. OutOf(a, h) # OutOf(a, k)
      BY <1>3, <2>4 DEF OwnNames, OutOf
    <3>2. OutOf(a, h) \in Outs
      BY <1>0, <2>4, OutIn DEF Recorded
    <3>3. dir[OutOf(a, h)] # i
      BY <1>0, <1>1, <3>1, <3>2 DEF Named
    <3> QED
      BY <1>4, <3>1, <3>2, <3>3
  <2>5. a \in Batches => PartsOwn(a) /\ PartsWhole(a)
    <3>1. a \in Batches => OwnNames(a)
      BY <1>3 DEF OwnNames, OutOf
    <3> QED
      BY <1>0, <3>1 DEF Untouched
  <2>6. PartsOwn(a)'
    <3> SUFFICES ASSUME NEW h \in act'[a].outs, dir[OutOf(a, h)] # None,
                        ino'[dir[OutOf(a, h)]].whole
                 PROVE  ino'[dir[OutOf(a, h)]].from = {<<a, h>>}
      BY <1>0 DEF PartsOwn, Readable, OutOf
    <3>1. CASE h = k
      BY <2>3, <3>1
    <3>2. CASE h # k
      BY <1>0, <1>1, <1>3, <2>4, <2>5, <3>2 DEF PartsOwn, Readable, Making
    <3> QED
      BY <3>1, <3>2
  <2>7. PartsWhole(a)'
    <3> SUFFICES ASSUME NEW h \in act'[a].outs, dir[OutOf(a, h)] # None, act[a].hard = 0
                 PROVE  ino'[dir[OutOf(a, h)]].whole
      BY <1>0, <1>3 DEF PartsWhole, OutOf
    <3>1. CASE h = k
      BY <2>3, <3>1
    <3>2. CASE h # k
      BY <1>0, <1>1, <1>3, <2>4, <2>5, <3>2 DEF PartsWhole, Making
    <3> QED
      BY <3>1, <3>2
  <2> QED
    BY <1>3, <2>6, <2>7 DEF MergedOwn, SentOwn
<1>7. Uses(a)' \subseteq Uses(a)
  BY <1>0, <1>3 DEF Uses, OutOf, Ended
<1>8. Located(a)'
  <2> SUFFICES ASSUME a \in Batches, act'[a].pc = "next",
                      NEW n \in Outs, dir[n] # None, NEW s \in ino'[dir[n]].from, s[1] = a
               PROVE  \/ s[2] \in act'[a].outs /\ n = OutOf(a, s[2])
                      \/ n = Combined /\ a \in crossed
    BY <1>0, <1>3 DEF Located, Early, OutOf
  <2>1. CASE dir[n] = i
    <3>1. n = OutOf(a, k) /\ s = <<a, k>>
      BY <1>0, <1>1, <1>4, <2>1 DEF Named
    <3> QED
      BY <1>3, <3>1
  <2>2. CASE dir[n] # i
    <3>1. s \in ino[dir[n]].from
      BY <1>4, <2>2
    <3>2. a \in Requests
      BY DEF Requests
    <3> QED
      BY <1>0, <1>3, <3>1, <3>2 DEF FInv, Located, Early
  <2> QED
    BY <2>1, <2>2
<1>9. Moves(a)
  BY <1>3, <1>5, <1>6, <1>7, <1>8 DEF Moves, Holding, Writers
<1>10. \A r \in Requests \ {a} : Located(r)'
  <2> SUFFICES ASSUME NEW r \in Requests, r # a, act[r].pc \in Early, NEW n \in Outs,
                      dir[n] # None, NEW s \in ino'[dir[n]].from, s[1] = r
               PROVE  \/ s[2] \in act[r].outs /\ n = OutOf(r, s[2])
                      \/ n = Combined /\ r \in crossed
    BY <1>0, <1>3 DEF Located, OutOf, Actors
  <2>1. dir[n] # i
    BY <1>4
  <2>2. s \in ino[dir[n]].from
    BY <1>4, <2>1
  <2> QED
    BY <2>2 DEF FInv, Located
<1> HIDE DEF srcs, i
<1>11. Written(act[a].fd, srcs)
  BY <1>0 DEF i
<1> QED
  BY <1>0, <1>1, <1>2, <1>3, <1>9, <1>10, <1>11, WriterKeeps

(* The merged archive is made of what the names of the parts lead to: of    *)
(* the batch's own archives, unless another actor crossed it, and of those  *)
(* of another request only if both were.                                    *)
LEMMA MergeFiles ==
  ASSUME IInv, FInv, NEW a \in Requests, MergeCopy(a)
  PROVE  FInv'
<1> DEFINE i == act[a].fd
           srcs == UNION {ino[dir[OutOf(a, k)]].from : k \in act[a].outs}
<1>0. /\ Progress /\ Shape(act[a]) /\ Recorded(a) /\ Named(a) /\ Untouched(a) /\ a \in Actors
      /\ act[a].pc \in {"merging", "detached"} /\ UNCHANGED <<dir, crossed, now>>
      /\ Written(i, srcs)
      /\ \A k \in act[a].outs : Readable(OutOf(a, k))
  BY DEF IInv, FInv, Progress, MergeCopy, Actors
<1>1. /\ i \in Inodes /\ ~act[a].merged /\ act[a].pc \in Writers /\ act[a].pc \in Holding
      /\ Target(a) = Combined /\ Combined \in Outs
  BY <1>0 DEF Recorded, Writers, Holding, Late, Target, Outs
<1>2. \A k \in act[a].outs : /\ OutOf(a, k) \in Outs /\ dir[OutOf(a, k)] # None
                             /\ ino[dir[OutOf(a, k)]] \in File
  BY <1>0, OutIn DEF Recorded, Readable, FInv, Store
<1>3. srcs \in SUBSET (Actors \X Nat)
  <2>1. \A k \in act[a].outs : ino[dir[OutOf(a, k)]].from \subseteq Actors \X Nat
    BY <1>2 DEF File
  <2> QED
    BY <2>1
<1>4. /\ \A b \in Actors \ {a} : act'[b] = act[b]
      /\ \/ Ends(a) /\ act'[a].pc = "gone"
         \/ /\ act[a].pc = "merging" /\ act'[a].pc = "drop" /\ act'[a].fd = None
            /\ act'[a].merged = FALSE /\ act'[a].outs = act[a].outs
            /\ act'[a].hard = act[a].hard
  <2> DEFINE l == IF act[a].pc = "detached" THEN [Locals EXCEPT !.pc = "gone"]
                  ELSE [act[a] EXCEPT !.pc = "drop", !.fd = None]
  <2>1. act' = [act EXCEPT ![a] = l]
    BY DEF MergeCopy
  <2>2. act'[a] = l /\ \A b \in Actors \ {a} : act'[b] = act[b]
    <3> HIDE DEF l
    <3> QED
      BY <1>0, <2>1, Assigned
  <2>3. CASE act[a].pc = "detached"
    BY <2>2, <2>3 DEF Ends, Locals, Ended
  <2>4. CASE act[a].pc = "merging"
    BY <1>0, <1>1, <2>2, <2>4 DEF Shape
  <2> QED
    BY <1>0, <2>2, <2>3, <2>4
<1>5. /\ \A n \in Outs : dir[n] # None /\ dir[n] # i => ino'[dir[n]] = ino[dir[n]]
      /\ \A n \in Outs : dir[n] = i =>
           ino'[i].from = srcs /\ (~ino[i].shared => ino'[i].whole)
  BY <1>0, <1>1, <1>3, WrittenIs DEF FInv
<1> HIDE DEF srcs
<1>6. Recorded(a)'
  BY <1>0, <1>1, <1>4, InodesAre DEF Recorded, Holding, Writers, Ended, Late, Inodes, Ends
<1>7. Untouched(a)'
  <2>1. CASE act'[a].pc = "gone"
    BY <2>1 DEF Untouched, Sole, PartsOwn, PartsWhole, MergedOwn, SentOwn, Writers, Making
  <2>2. CASE act[a].pc = "merging" /\ act'[a].pc = "drop"
    <3>0. act'[a].outs = act[a].outs
      BY <1>4, <2>2
    <3> SUFFICES ASSUME a \notin crossed, OwnNames(a)', dir[Combined] # None
                 PROVE  Whole(a, dir[Combined])'
      <4>1. (Sole(a) /\ PartsOwn(a) /\ PartsWhole(a) /\ SentOwn(a))'
        BY <2>2 DEF Sole, PartsOwn, PartsWhole, SentOwn, Writers, Making
      <4>2. crossed' = crossed /\ dir' = dir
        BY <1>0
      <4> QED
        BY <4>1, <4>2 DEF Untouched, MergedOwn
    <3>1. OwnNames(a) /\ act'[a].outs = act[a].outs
      BY <3>0 DEF OwnNames, OutOf
    <3>2. Sole(a) /\ PartsOwn(a)
      BY <1>0, <3>1 DEF Untouched
    <3>3. dir[Combined] = i /\ ~ino[i].shared
      BY <1>1, <3>2 DEF Sole
    <3>4. \A k \in act[a].outs : ino[dir[OutOf(a, k)]].from = {<<a, k>>}
      BY <1>0, <1>1, <2>2, <3>2 DEF PartsOwn
    <3>5. srcs = {<<a, k>> : k \in act[a].outs}
      BY <3>4 DEF srcs
    <3> QED
      BY <1>0, <1>1, <1>5, <3>0, <3>3, <3>5 DEF Whole
  <2> QED
    BY <1>4, <2>1, <2>2
<1>8. Uses(a)' \subseteq Uses(a)
  BY <1>0, <1>4 DEF Uses, OutOf, Ended, Ends
<1>9. Located(a)'
  BY <1>4 DEF Located, Early, Ends
<1>10. Moves(a)
  BY <1>4, <1>6, <1>7, <1>8, <1>9 DEF Moves, Holding, Writers
<1>11. \A r \in Requests \ {a} : Located(r)'
  <2> SUFFICES ASSUME NEW r \in Requests, r # a, act[r].pc \in Early, NEW n \in Outs,
                      dir[n] # None, NEW s \in ino'[dir[n]].from, s[1] = r
               PROVE  \/ s[2] \in act[r].outs /\ n = OutOf(r, s[2])
                      \/ n = Combined /\ r \in crossed
    BY <1>0, <1>4 DEF Located, OutOf, Actors
  <2>0. Located(r) /\ Recorded(r) /\ r \in Actors
    BY DEF FInv, Actors
  <2>1. CASE dir[n] # i
    BY <1>5, <2>0, <2>1 DEF Located
  <2>2. CASE dir[n] = i
    <3>1. n = Combined
      BY <1>0, <1>1, <2>2 DEF Named
    <3>2. PICK k \in act[a].outs : s \in ino[dir[OutOf(a, k)]].from
      BY <1>5, <2>2 DEF srcs
    <3>3. \/ s[2] \in act[r].outs /\ OutOf(a, k) = OutOf(r, s[2])
          \/ r \in crossed
      BY <1>2, <2>0, <3>2 DEF Located
    <3>4. ASSUME s[2] \in act[r].outs, OutOf(a, k) = OutOf(r, s[2]) PROVE r \in crossed
      <4>1. OutOf(r, s[2]) \in Uses(r)
        BY <2>0, <3>4 DEF Uses, Recorded
      <4>2. OutOf(a, k) \in Uses(a)
        BY <1>0, <3>2 DEF Uses, Ended
      <4> QED
        BY <1>0, <2>0, <3>4, <4>1, <4>2 DEF FInv, Marked
    <3> QED
      BY <3>1, <3>3, <3>4
  <2> QED
    BY <2>1, <2>2
<1> QED
  BY <1>0, <1>1, <1>3, <1>4, <1>10, <1>11, WriterKeeps

(* Opening an output truncates the file its name leads to, and marks every  *)
(* actor that depends on the name.                                          *)
LEMMA OpenFiles ==
  ASSUME IInv, FInv, NEW a \in Actors, NEW n \in Outs, NEW p \in {"writing", "merging"},
         OpenFor(a, n, p), act[a].pc \in {"process", "close"},
         p = "writing" => n = OutOf(a, act[a].k) /\ act[a].pc = "process",
         p = "merging" => n = Combined
  PROVE  FInv'
<1> DEFINE i == Inode(n)
           f == [from |-> {}, whole |-> FALSE, mtime |-> now, shared |-> Writing(i) # {}]
           others == {b \in Actors \ {a} : Uses(b) \cap {n} # {}}
<1>0. /\ Progress /\ Shape(act[a]) /\ Recorded(a) /\ Untouched(a) /\ Store
      /\ ~act[a].merged /\ act[a].pc \notin Holding
  BY DEF IInv, FInv, Progress, Recorded, Late, Holding, Writers
<1>1. /\ i \in Inodes /\ i # None
      /\ dir[n] # None => i = dir[n]
      /\ dir[n] = None => /\ \A m \in Outs : dir[m] # i
                          /\ \A b \in Actors : act[b].fd # i
  BY <1>0, InodeIs, InodesAre
<1> HIDE DEF i
<1>2. /\ dir' = [dir EXCEPT ![n] = i] /\ ino' = [ino EXCEPT ![i] = f]
      /\ now' = now /\ crossed \subseteq crossed' /\ others \subseteq crossed'
      /\ others # {} => a \in crossed'
  BY DEF OpenFor, Cross, i
<1>3. f \in File
  BY <1>0 DEF File, Store
<1>4. /\ dir'[n] = i /\ \A m \in Outs \ {n} : dir'[m] = dir[m] /\ dir[m] # i
      /\ ino'[i] = f /\ \A j \in Inodes \ {i} : ino'[j] = ino[j]
      /\ f.from = {} /\ f.whole = FALSE /\ f.shared = (Writing(i) # {})
  BY <1>0, <1>1, <1>2 DEF Store, FInv, Apart
<1>5. Store'
  <2>1. dir' \in [Outs -> Inodes \cup {None}] /\ ino' \in [Inodes -> File]
    <3> HIDE DEF f
    <3> QED
      BY <1>0, <1>1, <1>2, <1>3 DEF Store
  <2> QED
    BY <1>0, <1>2, <2>1 DEF Store, Inodes, File
<1> HIDE DEF f
<1>6. /\ act'[a].pc = p /\ act'[a].fd = i /\ act'[a].merged = FALSE /\ act'[a].k = act[a].k
      /\ act'[a].outs = act[a].outs /\ act'[a].hard = act[a].hard
      /\ \A b \in Actors \ {a} : act'[b] = act[b]
  <2> DEFINE l == [act[a] EXCEPT !.pc = p, !.fd = i]
  <2>1. act' = [act EXCEPT ![a] = l]
    BY DEF OpenFor, i
  <2>2. act'[a] = l /\ \A b \in Actors \ {a} : act'[b] = act[b]
    <3> HIDE DEF l
    <3> QED
      BY <1>0, <2>1, Assigned
  <2> QED
    BY <1>0, <2>2 DEF Shape
<1>7. \A b \in Actors \ {a} : /\ Uses(b)' = Uses(b) /\ Target(b)' = Target(b)
                              /\ Recorded(b) /\ Named(b) /\ Untouched(b)
                              /\ Recorded(b)'
  <2> SUFFICES ASSUME NEW b \in Actors \ {a}
               PROVE  /\ Uses(b)' = Uses(b) /\ Target(b)' = Target(b)
                      /\ Recorded(b) /\ Named(b) /\ Untouched(b) /\ Recorded(b)'
    OBVIOUS
  <2>1. act'[b] = act[b] /\ Recorded(b) /\ Named(b) /\ Untouched(b)
    BY <1>6 DEF FInv
  <2>2. Target(b)' = Target(b)
    BY <2>1 DEF Target, Result, OutOf
  <2>3. Uses(b)' = Uses(b)
    BY <2>1 DEF Uses, OutOf
  <2>4. Recorded(b)'
    BY <2>1 DEF Recorded, Inodes
  <2> QED
    BY <2>1, <2>2, <2>3, <2>4
<1>8. Uses(a)' \subseteq Uses(a) \cup {n} /\ Target(a)' = n
  BY <1>0, <1>6 DEF Uses, OutOf, Ended, Target
<1>9. \A b \in Actors \ {a} :
        act[b].pc \in Holding /\ act[b].fd = i => n = Target(b) /\ n \in Uses(b)
  <2> SUFFICES ASSUME NEW b \in Actors \ {a}, act[b].pc \in Holding, act[b].fd = i
               PROVE  n = Target(b) /\ n \in Uses(b)
    OBVIOUS
  <2>1. dir[n] = i
    BY <1>1
  <2>2. n = Target(b)
    BY <1>7, <2>1 DEF Named
  <2> QED
    BY <1>7, <2>2, TargetUsed
<1>10. Apart'
  BY <1>1, <1>4 DEF FInv, Apart
<1>11. Marked'
  <2> SUFFICES ASSUME NEW b \in Actors, NEW c \in Actors, b # c,
                      NEW m, m \in Uses(b)', m \in Uses(c)'
               PROVE  b \in crossed'
    BY DEF Marked
  <2>1. CASE m \in Uses(b) /\ m \in Uses(c)
    BY <1>2, <2>1 DEF FInv, Marked
  <2>2. CASE m = n /\ (b = a \/ c = a)
    BY <1>2, <1>7, <2>2
  <2> QED
    BY <1>7, <1>8, <2>1, <2>2
<1>12. Alone'
  <2> SUFFICES ASSUME NEW b \in Actors, NEW c \in Actors, b # c, act'[c].pc \in Writers,
                      act'[b].pc \in Holding, act'[b].fd = act'[c].fd
               PROVE  b \in crossed'
    BY DEF Alone
  <2>1. CASE b # a /\ c # a
    BY <1>2, <1>6, <2>1 DEF FInv, Alone
  <2>2. CASE b = a
    BY <1>2, <1>6, <1>9, <2>2 DEF Holding
  <2>3. CASE c = a
    BY <1>2, <1>6, <1>9, <2>3
  <2> QED
    BY <2>1, <2>2, <2>3
<1>13. \A b \in Actors : Named(b)'
  <2>1. Named(a)'
    BY <1>4, <1>6, <1>8 DEF Named
  <2>2. ASSUME NEW b \in Actors \ {a}, act[b].pc \in Holding, NEW m \in Outs, dir'[m] = act[b].fd
        PROVE  m = Target(b)
    <3>1. CASE m = n
      BY <1>4, <1>9, <2>2, <3>1
    <3>2. CASE m # n
      BY <1>4, <1>7, <2>2, <3>2 DEF Named
    <3> QED
      BY <3>1, <3>2
  <2>3. \A b \in Actors \ {a} : Named(b)'
    BY <1>6, <1>7, <2>2 DEF Named
  <2> QED
    BY <2>1, <2>3
<1>14. Recorded(a)'
  BY <1>0, <1>1, <1>6 DEF Recorded, Holding, Writers, Ended, Late, Inodes
<1>15. \A c \in Actors \ {a} : Untouched(c)'
  <2> SUFFICES ASSUME NEW c \in Actors \ {a}, c \notin crossed' PROVE Untouched(c)'
    BY DEF Untouched
  <2>1. n \notin Uses(c)
    BY <1>2
  <2>2. act[c].pc \in Holding => act[c].fd \in Inodes \ {i}
    BY <1>7, <1>9, <2>1 DEF Recorded
  <2>3. \A m \in Outs : m \in Uses(c) => dir'[m] = dir[m] /\ dir[m] # i
    BY <1>4, <2>1
  <2>4. Spared(c)
    BY <1>0, <1>4, <2>2, <2>3 DEF Spared, Store
  <2> QED
    BY <1>2, <1>6, <1>7, <2>4, SparedKeeps
<1>16. Untouched(a)'
  <2> SUFFICES ASSUME a \notin crossed'
               PROVE  Sole(a)' /\ (OwnNames(a) => PartsOwn(a)' /\ PartsWhole(a)')
    BY <1>6 DEF Untouched, OwnNames, OutOf, MergedOwn, SentOwn
  <2>1. Writing(i) = {}
    <3> SUFFICES ASSUME NEW b \in Writing(i) PROVE FALSE
      OBVIOUS
    <3>1. b \in Actors /\ act[b].fd = i /\ act[b].pc \in Holding
      BY DEF Writing, Holding, Writers
    <3> QED
      BY <1>0, <1>2, <1>9, <3>1
  <2>2. Sole(a)'
    BY <1>4, <1>6, <1>8, <2>1 DEF Sole
  <2>3. ASSUME NEW k \in act[a].outs
        PROVE  /\ OutOf(a, k) = n => ino'[dir'[OutOf(a, k)]].whole = FALSE
               /\ OutOf(a, k) # n => /\ dir'[OutOf(a, k)] = dir[OutOf(a, k)]
                                     /\ dir[OutOf(a, k)] # None =>
                                          ino'[dir[OutOf(a, k)]] = ino[dir[OutOf(a, k)]]
    <3>1. OutOf(a, k) \in Outs
      BY <1>0, <2>3, OutIn DEF Recorded
    <3> QED
      BY <1>0, <1>4, <3>1 DEF Store
  <2>4. OwnNames(a) => PartsOwn(a) /\ PartsWhole(a)
    BY <1>0, <1>2 DEF Untouched
  <2>5. act[a].pc \in Making
    BY DEF Making
  <2>6. OwnNames(a) => PartsOwn(a)'
    <3> SUFFICES ASSUME OwnNames(a), NEW k \in act[a].outs, dir'[OutOf(a, k)] # None,
                        ino'[dir'[OutOf(a, k)]].whole
                 PROVE  ino'[dir'[OutOf(a, k)]].from = {<<a, k>>}
      BY <1>6 DEF PartsOwn, Readable, OutOf
    <3> QED
      BY <1>0, <2>3, <2>4, <2>5 DEF PartsOwn, Readable
  <2>7. OwnNames(a) => PartsWhole(a)'
    <3> SUFFICES ASSUME OwnNames(a), p = "writing", act[a].hard = 0, NEW k \in act[a].outs,
                        dir'[OutOf(a, k)] # None, n # OutOf(a, k)
                 PROVE  ino'[dir'[OutOf(a, k)]].whole
      BY <1>6 DEF PartsWhole, Making, OutOf
    <3>1. /\ dir'[OutOf(a, k)] = dir[OutOf(a, k)] /\ dir[OutOf(a, k)] # None
          /\ ino'[dir[OutOf(a, k)]] = ino[dir[OutOf(a, k)]]
      BY <2>3
    <3>2. PartsWhole(a) /\ act[a].pc # "writing"
      BY <2>4
    <3>3. ino[dir[OutOf(a, k)]].whole
      BY <1>0, <2>5, <3>1, <3>2 DEF PartsWhole
    <3> QED
      BY <3>1, <3>3
  <2> QED
    BY <2>2, <2>6, <2>7
<1>17. \A r \in Requests : Located(r)'
  <2> SUFFICES ASSUME NEW r \in Requests, act'[r].pc \in Early, NEW m \in Outs,
                      dir'[m] # None, NEW s \in ino'[dir'[m]].from, s[1] = r
               PROVE  \/ s[2] \in act'[r].outs /\ m = OutOf(r, s[2])
                      \/ m = Combined /\ r \in crossed'
    BY DEF Located, OutOf
  <2>1. m # n
    BY <1>4
  <2>2. dir'[m] = dir[m] /\ s \in ino[dir[m]].from
    BY <1>0, <1>4, <2>1 DEF Store
  <2>3. act[r].pc \in Early /\ act'[r].outs = act[r].outs
    BY <1>6 DEF Early, Actors
  <2> QED
    BY <1>2, <2>2, <2>3 DEF FInv, Located
<1> QED
  BY <1>5, <1>7, <1>10, <1>11, <1>12, <1>13, <1>14, <1>15, <1>16, <1>17 DEF FInv

LEMMA InitFiles == Init => FInv
<1> SUFFICES ASSUME Init PROVE FInv
  OBVIOUS
<1>1. \A a \in Actors :
        /\ act[a].fd = None /\ act[a].outs = {} /\ act[a].hard = 0 /\ act[a].merged = FALSE
        /\ act[a].pc = "idle" \/ (a \in S3Jobs /\ act[a].pc = "process" /\ act[a].k = 1)
  <2> SUFFICES ASSUME NEW a \in Actors
               PROVE  /\ act[a].fd = None /\ act[a].outs = {} /\ act[a].hard = 0
                      /\ act[a].merged = FALSE
                      /\ act[a].pc = "idle"
                         \/ (a \in S3Jobs /\ act[a].pc = "process" /\ act[a].k = 1)
    OBVIOUS
  <2>1. CASE a \in S3Jobs
    <3>1. act[a] = [Locals EXCEPT !.pc = "process", !.k = 1]
      BY <2>1 DEF Init
    <3> QED
      BY <2>1, <3>1 DEF Locals
  <2>2. CASE a \notin S3Jobs
    <3>1. act[a] = Locals
      BY <2>2 DEF Init
    <3> QED
      BY <3>1 DEF Locals
  <2> QED
    BY <2>1, <2>2
<1>2. Store
  <2>1. Blank \in File
    BY DEF Blank, File
  <2> QED
    BY <2>1 DEF Init, Store
<1>3. \A n \in Outs : dir[n] = None
  BY DEF Init
<1>4. \A a \in Actors : Recorded(a)
  <2> SUFFICES ASSUME NEW a \in Actors PROVE Recorded(a)
    OBVIOUS
  <2>1. a \in S3Jobs => 1 \in 1..Len(Sends[a])
    <3>1. a \in S3Jobs => Len(Sends[a]) = 1
      BY OutputAssumption
    <3> QED
      BY <3>1
  <2> QED
    BY <1>1, <2>1 DEF Recorded, Holding, Writers, Ended, Late
<1>5. \A a \in Actors : act[a].pc \notin Holding /\ Uses(a) = {}
  BY <1>1 DEF Holding, Writers, Uses
<1>6. \A a \in Actors : Named(a) /\ Untouched(a)
  BY <1>1, <1>5 DEF Named, Untouched, Sole, PartsOwn, PartsWhole, MergedOwn, SentOwn, Holding
<1>7. Apart /\ Alone /\ Marked
  BY <1>3, <1>5 DEF Apart, Alone, Marked, Holding
<1>8. \A r \in Requests : Located(r)
  BY <1>3 DEF Located
<1> QED
  BY <1>2, <1>4, <1>6, <1>7, <1>8 DEF FInv

LEMMA JobFiles ==
  ASSUME IInv, FInv, NEW a \in Actors, Job(a)
  PROVE  FInv'
<1>1. CASE Create(a)
  <2>1. act[a].pc = "process" /\ OpenFor(a, OutOf(a, act[a].k), "writing")
    BY <1>1 DEF Create
  <2>2. OutOf(a, act[a].k) \in Outs
    BY <2>1, OutIn DEF FInv, Recorded
  <2> QED
    BY <2>1, <2>2, OpenFiles
<1> QED
  BY <1>1, FailedFiles, FinishFiles, AnswerFiles, StreamFiles DEF Job

LEMMA RequestFiles ==
  ASSUME IInv, FInv, NEW r \in Requests,
         Begin(r) \/ Receive(r) \/ EndOfForm(r) \/ Handler(r) \/ Disconnect(r)
  PROVE  FInv'
<1>0. r \in Actors
  BY DEF Actors
<1>1. CASE TooMuch(r) \/ IngestTimeout(r)
  <2>1. Abandon(r) /\ act[r].pc \in {"next", "spooling"}
    BY <1>1 DEF TooMuch, IngestTimeout
  <2> QED
    BY <2>1, AbandonFiles
<1>2. CASE MergeInto(r)
  <2>1. act[r].pc = "close" /\ OpenFor(r, Combined, "merging") /\ Combined \in Outs
    BY <1>2 DEF MergeInto, Outs
  <2> QED
    BY <1>0, <2>1, OpenFiles
<1> QED
  BY <1>0, <1>1, <1>2, UploadFiles, CloseFiles, MergeFiles, EndFiles, DropFiles,
     DisconnectFiles DEF Handler

LEMMA StepFiles == IInv /\ FInv /\ [Next]_vars => FInv'
<1> SUFFICES ASSUME IInv, FInv, [Next]_vars PROVE FInv'
  OBVIOUS
<1>1. CASE \E r \in Requests :
             Begin(r) \/ Receive(r) \/ EndOfForm(r) \/ Handler(r) \/ Disconnect(r)
  BY <1>1, RequestFiles
<1>2. CASE \E a \in Actors : Job(a)
  BY <1>2, JobFiles
<1>3. CASE \E j \in S3Jobs : UploadFails(j) \/ RemoveLocal(j)
  BY <1>3, EndFiles DEF Actors
<1>4. CASE RetentionList \/ RetentionRemove \/ RetentionEnd \/ Tick \/ UNCHANGED vars
  BY <1>4, RetentionFiles
<1> QED
  BY <1>1, <1>2, <1>3, <1>4 DEF Next

LEMMA FilesInvariant == Spec => []FInv
  BY InitFiles, StepFiles, Invariant, PTL DEF Spec

(* What an actor nobody crossed sends is the whole result of its own        *)
(* uploads, for any batches, jobs, names and retention, through an open     *)
(* file that outlives its name (zip_worker.rs 429-434, main.rs 985-1010,    *)
(* zip_worker_s3.rs 375-389).                                               *)
THEOREM DeliversItsOwn == Spec => []DeliveredIsOwn
<1>1. FInv => DeliveredIsOwn
  BY DEF FInv, Untouched, SentOwn, Whole, DeliveredIsOwn
<1> QED
  BY <1>1, FilesInvariant, PTL

(* After an aborted batch no name leads to what it produced, unless another *)
(* request's merge has copied it meanwhile (main.rs 931-953, 1240-1251).    *)
THEOREM AbortedIsGone == Spec => []AbortLeavesNothing
<1>1. FInv => AbortLeavesNothing
  <2> SUFFICES ASSUME FInv, NEW r \in Requests, act[r].pc = "aborted", NEW n \in Outs,
                      dir[n] # None, NEW s \in ino[dir[n]].from, s[1] = r
               PROVE  n = Combined /\ r \in crossed
    BY DEF AbortLeavesNothing
  <2>1. Located(r) /\ Recorded(r)
    BY DEF FInv, Actors
  <2>2. act[r].outs = {}
    BY <2>1 DEF Recorded, Ended
  <2> QED
    BY <2>1, <2>2 DEF Located, Early
<1> QED
  BY <1>1, FilesInvariant, PTL

(* Whoever writes to a file that another actor writes to as well, or sends  *)
(* what another is writing, is marked as crossed: it shared a name with it  *)
(* (zip_worker.rs 429-434: File::create keeps the inode of a name).         *)
THEOREM OnlyCrossedShare == Spec => []Alone
<1>1. FInv => Alone
  BY DEF FInv
<1> QED
  BY <1>1, FilesInvariant, PTL
==============================================================================
