----------------------------- MODULE SessionPool -----------------------------
(***************************************************************************)
(* SessionPool of models.rs: ONNX sessions over one model file, created on *)
(* demand up to a capacity and lent to one blocking thread at a time.      *)
(*                                                                         *)
(* One action is one critical section of the pool's mutex.  The file load  *)
(* runs outside the mutex, between BeginLoad and LoadOk or LoadErr, so     *)
(* other threads interleave with it.  Sessions are interchangeable: the    *)
(* idle vector is kept as its length.                                      *)
(***************************************************************************)
EXTENDS Naturals, FiniteSets

CONSTANTS Threads,   \* the blocking threads that call acquire()
          Capacity,  \* the capacity passed to SessionPool::new
          MaxUses    \* bound: acquire() calls one thread makes

ASSUME PoolAssumption ==
  /\ IsFiniteSet(Threads)
  /\ Capacity \in Nat
  /\ MaxUses \in Nat

VARIABLES pc,    \* where each thread stands in acquire / use / release
          idle,  \* state.idle.len()
          live,  \* state.live
          uses   \* acquire() calls made so far, per thread (bounded by MaxUses)

vars == <<pc, idle, live, uses>>

(* new(): capacity.max(1). *)
Cap == IF Capacity = 0 THEN 1 ELSE Capacity

(* A thread is outside the pool, about to run acquire's loop body for the  *)
(* first time, blocked on the condition variable, woken from it, loading   *)
(* the model file, or using a session.                                     *)
Places == {"out", "try", "wait", "woken", "load", "use"}

InPlace(P) == {t \in Threads : pc[t] \in P}
Waiting    == InPlace({"wait"})
Woken      == InPlace({"woken"})
Holders    == InPlace({"load", "use"})   \* what `live` counts beside idle

(* Sessions a caller could get without waiting: idle ones and loads not    *)
(* yet started.                                                            *)
Free == idle + Cap - live

Init ==
  /\ pc = [t \in Threads |-> "out"]
  /\ idle = 0
  /\ live = 0
  /\ uses = [t \in Threads |-> 0]

------------------------------------------------------------------------------
(* pc after thread t moves to place p and, if some thread is blocked,      *)
(* Condvar::notify_one wakes an arbitrary one.                             *)
MoveAndNotify(t, p) ==
  LET moved == [pc EXCEPT ![t] = p] IN
  IF Waiting = {}
  THEN pc' = moved
  ELSE \E w \in Waiting : pc' = [moved EXCEPT ![w] = "woken"]

InLoop(t) == pc[t] \in {"try", "woken"}

Call(t) ==
  /\ pc[t] = "out"
  /\ uses[t] < MaxUses
  /\ uses' = [uses EXCEPT ![t] = @ + 1]
  /\ pc' = [pc EXCEPT ![t] = "try"]
  /\ UNCHANGED <<idle, live>>

PopIdle(t) ==
  /\ InLoop(t)
  /\ idle > 0
  /\ idle' = idle - 1
  /\ pc' = [pc EXCEPT ![t] = "use"]
  /\ UNCHANGED <<live, uses>>

BeginLoad_countsLate(t) ==
  /\ InLoop(t)
  /\ idle = 0
  /\ live < Cap
  /\ pc' = [pc EXCEPT ![t] = "load"]
  /\ UNCHANGED <<idle, live, uses>>

BeginLoad_offByOne(t) ==
  /\ InLoop(t)
  /\ idle = 0
  /\ live <= Cap
  /\ live' = live + 1
  /\ pc' = [pc EXCEPT ![t] = "load"]
  /\ UNCHANGED <<idle, uses>>

BeginLoad(t) ==
  /\ InLoop(t)
  /\ idle = 0
  /\ live < Cap
  /\ live' = live + 1
  /\ pc' = [pc EXCEPT ![t] = "load"]
  /\ UNCHANGED <<idle, uses>>

Block(t) ==
  /\ InLoop(t)
  /\ idle = 0
  /\ ~(live < Cap)
  /\ pc' = [pc EXCEPT ![t] = "wait"]
  /\ UNCHANGED <<idle, live, uses>>

LoadOk(t) ==
  /\ pc[t] = "load"
  /\ pc' = [pc EXCEPT ![t] = "use"]
  /\ UNCHANGED <<idle, live, uses>>

LoadErr_keepsLive(t) ==
  /\ pc[t] = "load"
  /\ MoveAndNotify(t, "out")
  /\ UNCHANGED <<idle, live, uses>>

LoadErr_silent(t) ==
  /\ pc[t] = "load"
  /\ live' = live - 1
  /\ pc' = [pc EXCEPT ![t] = "out"]
  /\ UNCHANGED <<idle, uses>>

LoadErr(t) ==
  /\ pc[t] = "load"
  /\ live' = live - 1
  /\ MoveAndNotify(t, "out")
  /\ UNCHANGED <<idle, uses>>

Release_silent(t) ==
  /\ pc[t] = "use"
  /\ idle' = idle + 1
  /\ pc' = [pc EXCEPT ![t] = "out"]
  /\ UNCHANGED <<live, uses>>

(* Drop of PooledSession. *)
Release(t) ==
  /\ pc[t] = "use"
  /\ idle' = idle + 1
  /\ MoveAndNotify(t, "out")
  /\ UNCHANGED <<live, uses>>

(* A condition variable may wake a thread nobody notified. *)
SpuriousWakeup(t) ==
  /\ pc[t] = "wait"
  /\ pc' = [pc EXCEPT ![t] = "woken"]
  /\ UNCHANGED <<idle, live, uses>>

------------------------------------------------------------------------------
Done == InPlace({"out"}) = Threads /\ \A t \in Threads : uses[t] = MaxUses

Step(t) ==
  \/ Call(t)
  \/ PopIdle(t)
  \/ BeginLoad(t)
  \/ Block(t)
  \/ LoadOk(t)
  \/ LoadErr(t)
  \/ Release(t)
  \/ SpuriousWakeup(t)

Next ==
  \/ \E t \in Threads : Step(t)
  \/ Done /\ UNCHANGED vars

Spec == Init /\ [][Next]_vars

(* A thread that is not blocked keeps running, a load ends one way or the  *)
(* other and a worker drops its session; nobody is obliged to start a call *)
(* and no condition variable owes a spurious wake-up.                      *)
FairSpec ==
  /\ Spec
  /\ \A t \in Threads :
       WF_vars(PopIdle(t) \/ BeginLoad(t) \/ Block(t) \/ LoadOk(t) \/ LoadErr(t) \/ Release(t))

------------------------------------------------------------------------------
TypeOK ==
  /\ pc \in [Threads -> Places]
  /\ idle \in Nat
  /\ live \in Nat
  /\ uses \in [Threads -> 0..MaxUses]

(* PoolState.live counts exactly the idle, loading and checked-out         *)
(* sessions and never passes the capacity, although a load runs outside    *)
(* the mutex and may fail (models.rs:33, 79-80).                           *)
LiveAccounting ==
  /\ live = idle + Cardinality(Holders)
  /\ live <= Cap

(* No lost wake-up: while a thread is blocked, each session that could be  *)
(* taken without waiting has a woken thread on its way to it, whatever     *)
(* callers barge in between the notify and the wake-up (models.rs:110,125).*)
NoLostWakeup == Waiting # {} => Free <= Cardinality(Woken)

(* The pool implements a bounded exclusive resource: a thread holds a slot *)
(* from the moment it counts itself in `live` (or pops an idle session)    *)
(* until it drops the session or its load fails (models.rs:12-13).         *)
Slots == INSTANCE BoundedSlots WITH Clients <- Threads, Limit <- Cap, held <- Holders
RefinesSlots == Slots!Spec

(* Every acquire() returns, with a session or an error, as long as the     *)
(* threads make finitely many calls (models.rs:76, the Condvar loop).      *)
AcquireReturns ==
  \A t \in Threads : pc[t] = "try" ~> pc[t] \in {"use", "out"}
==============================================================================
