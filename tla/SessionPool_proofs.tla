-------------------------- MODULE SessionPool_proofs --------------------------
(***************************************************************************)
(* Proofs about SessionPool for every finite set of threads, every         *)
(* capacity and every bound on the calls.                                  *)
(***************************************************************************)
EXTENDS SessionPool, FiniteSetTheorems, TLAPS

LEMMA CapType == Cap \in Nat /\ Cap > 0
  BY PoolAssumption DEF Cap

(* The threads in a set of places form a finite set, so they can be counted. *)
LEMMA PlacesFinite ==
  ASSUME NEW P
  PROVE  IsFiniteSet(InPlace(P)) /\ Cardinality(InPlace(P)) \in Nat
  <1>1. InPlace(P) \subseteq Threads
    BY DEF InPlace
  <1> QED
    BY <1>1, PoolAssumption, FS_Subset, FS_CardinalityType

(* How counting changes when one element comes or goes. *)
LEMMA CountAdd ==
  ASSUME NEW S, IsFiniteSet(S), NEW x, x \notin S
  PROVE  Cardinality(S \cup {x}) = Cardinality(S) + 1
  BY FS_AddElement

LEMMA CountRemove ==
  ASSUME NEW S, IsFiniteSet(S), NEW x, x \in S
  PROVE  Cardinality(S \ {x}) = Cardinality(S) - 1
  BY FS_RemoveElement

------------------------------------------------------------------------------
(***************************************************************************)
(* The inductive invariant.  NoLostWakeup alone is not inductive: that a   *)
(* thread blocks only when nothing is free, and that a load failure frees  *)
(* exactly one slot, both rest on the accounting of `live`.                *)
(***************************************************************************)
IInv == TypeOK /\ LiveAccounting /\ NoLostWakeup

(* The three sets of threads the invariant counts are finite. *)
LEMMA CountsAreNat ==
  /\ IsFiniteSet(Holders) /\ Cardinality(Holders) \in Nat
  /\ IsFiniteSet(Waiting)
  /\ IsFiniteSet(Woken) /\ Cardinality(Woken) \in Nat
  BY PlacesFinite DEF Holders, Waiting, Woken

LEMMA InitIInv == Init => IInv
  <1> SUFFICES ASSUME Init PROVE IInv
    OBVIOUS
  <1>1. TypeOK
    BY PoolAssumption DEF Init, TypeOK, Places
  <1>2. Holders = {} /\ Waiting = {}
    BY DEF Init, Holders, Waiting, InPlace
  <1>3. LiveAccounting
    BY <1>2, FS_EmptySet, CapType DEF Init, LiveAccounting
  <1>4. NoLostWakeup
    BY <1>2 DEF NoLostWakeup
  <1> QED
    BY <1>1, <1>3, <1>4 DEF IInv

(* Every step keeps the types. *)
LEMMA StepTypeOK ==
  ASSUME IInv, NEW t \in Threads, Step(t)
  PROVE  TypeOK'
  <1> USE DEF TypeOK, IInv, Places
  <1>1. CASE Call(t)
    BY <1>1, PoolAssumption DEF Call
  <1>2. CASE PopIdle(t)
    BY <1>2 DEF PopIdle
  <1>3. CASE BeginLoad(t)
    BY <1>3 DEF BeginLoad
  <1>4. CASE Block(t)
    BY <1>4 DEF Block
  <1>5. CASE LoadOk(t)
    BY <1>5 DEF LoadOk
  <1>6. CASE LoadErr(t)
    <2>1. t \in Holders /\ Cardinality(Holders) # 0
      BY <1>6, CountsAreNat, FS_EmptySet DEF LoadErr, Holders, InPlace
    <2>2. live - 1 \in Nat
      BY <2>1, CountsAreNat DEF LiveAccounting
    <2> QED
      BY <1>6, <2>2 DEF LoadErr, MoveAndNotify, Waiting, InPlace
  <1>7. CASE Release(t)
    BY <1>7 DEF Release, MoveAndNotify, Waiting, InPlace
  <1>8. CASE SpuriousWakeup(t)
    BY <1>8 DEF SpuriousWakeup
  <1> QED
    BY <1>1, <1>2, <1>3, <1>4, <1>5, <1>6, <1>7, <1>8 DEF Step

(* A thread that leaves its session behind and notifies: it stops being a  *)
(* holder, and if anybody was blocked one more thread is woken.            *)
LEMMA NotifyEffect ==
  ASSUME TypeOK, NEW t \in Threads, t \in Holders, MoveAndNotify(t, "out")
  PROVE  /\ Cardinality(Holders') = Cardinality(Holders) - 1
         /\ \/ Waiting' = {}
            \/ Waiting # {} /\ Cardinality(Woken') = Cardinality(Woken) + 1
  <1>1. Holders' = Holders \ {t}
    BY DEF MoveAndNotify, TypeOK, Holders, Waiting, InPlace
  <1>2. Cardinality(Holders') = Cardinality(Holders) - 1
    BY <1>1, CountsAreNat, CountRemove
  <1>3. CASE Waiting = {}
    <2>1. Waiting' = {}
      BY <1>3 DEF MoveAndNotify, TypeOK, Waiting, InPlace
    <2> QED
      BY <1>2, <2>1
  <1>4. CASE Waiting # {}
    <2>1. PICK w \in Waiting : pc' = [[pc EXCEPT ![t] = "out"] EXCEPT ![w] = "woken"]
      BY <1>4 DEF MoveAndNotify
    <2>2. w \notin Woken /\ Woken' = Woken \cup {w}
      BY <2>1 DEF TypeOK, Holders, Waiting, Woken, InPlace
    <2>3. Cardinality(Woken') = Cardinality(Woken) + 1
      BY <2>2, CountsAreNat, CountAdd
    <2> QED
      BY <1>2, <1>4, <2>3
  <1> QED
    BY <1>3, <1>4

(* A thread that takes a free slot: one more holder, and the number of     *)
(* woken threads drops by one at most, when it was woken itself.           *)
LEMMA TakeEffect ==
  ASSUME TypeOK, NEW t \in Threads, InLoop(t), NEW p \in {"use", "load"},
         pc' = [pc EXCEPT ![t] = p]
  PROVE  /\ Cardinality(Holders') = Cardinality(Holders) + 1
         /\ Waiting' = Waiting
         /\ Cardinality(Woken') \in {Cardinality(Woken), Cardinality(Woken) - 1}
  <1>1. Holders' = Holders \cup {t} /\ t \notin Holders
    BY DEF TypeOK, InLoop, Holders, InPlace
  <1>2. Waiting' = Waiting /\ Woken' = Woken \ {t}
    BY DEF TypeOK, InLoop, Waiting, Woken, InPlace
  <1>3. Cardinality(Woken') \in {Cardinality(Woken), Cardinality(Woken) - 1}
    BY <1>2, CountsAreNat, FS_RemoveElement
  <1> QED
    BY <1>1, <1>2, <1>3, CountsAreNat, CountAdd

(* Every step keeps the accounting and loses no wake-up. *)
LEMMA StepCounts ==
  ASSUME IInv, NEW t \in Threads, Step(t)
  PROVE  LiveAccounting' /\ NoLostWakeup'
  <1> USE CountsAreNat, CapType DEF IInv, TypeOK
  <1>1. CASE Call(t)
    <2>1. Holders' = Holders /\ Waiting' = Waiting /\ Woken' = Woken
      BY <1>1 DEF Call, Holders, Waiting, Woken, InPlace
    <2> QED
      BY <1>1, <2>1 DEF Call, LiveAccounting, NoLostWakeup, Free
  <1>2. CASE PopIdle(t)
    <2>1. /\ Cardinality(Holders') = Cardinality(Holders) + 1
          /\ Waiting' = Waiting
          /\ Cardinality(Woken') \in {Cardinality(Woken), Cardinality(Woken) - 1}
      BY <1>2, TakeEffect DEF PopIdle
    <2>2. idle' = idle - 1 /\ live' = live
      BY <1>2 DEF PopIdle
    <2> QED
      BY <2>1, <2>2 DEF LiveAccounting, NoLostWakeup, Free
  <1>3. CASE BeginLoad(t)
    <2>1. /\ Cardinality(Holders') = Cardinality(Holders) + 1
          /\ Waiting' = Waiting
          /\ Cardinality(Woken') \in {Cardinality(Woken), Cardinality(Woken) - 1}
      BY <1>3, TakeEffect DEF BeginLoad
    <2>2. idle' = idle /\ live' = live + 1 /\ live < Cap
      BY <1>3 DEF BeginLoad
    <2> QED
      BY <2>1, <2>2 DEF LiveAccounting, NoLostWakeup, Free
  <1>4. CASE Block(t)
    <2>1. Holders' = Holders /\ IsFiniteSet(Woken') /\ Cardinality(Woken') \in Nat
      <3>1. Woken' = Woken \ {t}
        BY <1>4 DEF Block, InLoop, Woken, InPlace
      <3> QED
        BY <1>4, <3>1, FS_RemoveElement, FS_CardinalityType DEF Block, InLoop, Holders, InPlace
    <2>2. Free' = 0
      BY <1>4 DEF Block, Free, LiveAccounting
    <2> QED
      BY <1>4, <2>1, <2>2 DEF Block, LiveAccounting, NoLostWakeup
  <1>5. CASE LoadOk(t)
    <2>1. Holders' = Holders /\ Waiting' = Waiting /\ Woken' = Woken
      BY <1>5 DEF LoadOk, Holders, Waiting, Woken, InPlace
    <2> QED
      BY <1>5, <2>1 DEF LoadOk, LiveAccounting, NoLostWakeup, Free
  <1>6. CASE LoadErr(t)
    <2>1. /\ Cardinality(Holders') = Cardinality(Holders) - 1
          /\ \/ Waiting' = {}
             \/ Waiting # {} /\ Cardinality(Woken') = Cardinality(Woken) + 1
      BY <1>6, NotifyEffect DEF LoadErr, Holders, InPlace
    <2>2. idle' = idle /\ live' = live - 1
      BY <1>6 DEF LoadErr
    <2> QED
      BY <2>1, <2>2 DEF LiveAccounting, NoLostWakeup, Free
  <1>7. CASE Release(t)
    <2>1. /\ Cardinality(Holders') = Cardinality(Holders) - 1
          /\ \/ Waiting' = {}
             \/ Waiting # {} /\ Cardinality(Woken') = Cardinality(Woken) + 1
      BY <1>7, NotifyEffect DEF Release, Holders, InPlace
    <2>2. idle' = idle + 1 /\ live' = live
      BY <1>7 DEF Release
    <2> QED
      BY <2>1, <2>2 DEF LiveAccounting, NoLostWakeup, Free
  <1>8. CASE SpuriousWakeup(t)
    <2>1. Holders' = Holders /\ t \in Waiting /\ t \notin Woken /\ Woken' = Woken \cup {t}
      BY <1>8 DEF SpuriousWakeup, Holders, Waiting, Woken, InPlace
    <2>2. Cardinality(Woken') = Cardinality(Woken) + 1
      BY <2>1, CountAdd
    <2> QED
      BY <1>8, <2>1, <2>2 DEF SpuriousWakeup, LiveAccounting, NoLostWakeup, Free
  <1> QED
    BY <1>1, <1>2, <1>3, <1>4, <1>5, <1>6, <1>7, <1>8 DEF Step

LEMMA StutterIInv == IInv /\ UNCHANGED vars => IInv'
  BY DEF IInv, vars, TypeOK, LiveAccounting, NoLostWakeup, Holders, Waiting, Woken, InPlace, Free

LEMMA NextIInv == IInv /\ [Next]_vars => IInv'
  <1> SUFFICES ASSUME IInv, [Next]_vars PROVE IInv'
    OBVIOUS
  <1>1. CASE \E t \in Threads : Step(t)
    BY <1>1, StepTypeOK, StepCounts DEF IInv
  <1>2. CASE UNCHANGED vars
    BY <1>2, StutterIInv
  <1> QED
    BY <1>1, <1>2 DEF Next

(* The inductive invariant holds in every reachable state. *)
THEOREM Invariance == Spec => []IInv
  BY InitIInv, NextIInv, PTL DEF Spec

(* Every variable keeps its type: in particular `live` and the idle count  *)
(* never underflow, although both are decremented without a check.         *)
THEOREM TypeCorrect == Spec => []TypeOK
  <1>1. IInv => TypeOK
    BY DEF IInv
  <1> QED
    BY <1>1, Invariance, PTL

(* For any number of threads and any capacity, `live` is exact and never   *)
(* passes the capacity: the claim of models.rs:79-80.                      *)
THEOREM AccountingHolds == Spec => []LiveAccounting
  <1>1. IInv => LiveAccounting
    BY DEF IInv
  <1> QED
    BY <1>1, Invariance, PTL

(* For any number of threads and any capacity, no wake-up is lost.         *)
THEOREM NoWakeupLost == Spec => []NoLostWakeup
  <1>1. IInv => NoLostWakeup
    BY DEF IInv
  <1> QED
    BY <1>1, Invariance, PTL

------------------------------------------------------------------------------
(* The abstract module's Cardinality is the one this module counts with.   *)
LEMMA SameCount == Slots!Cardinality(Holders) = Cardinality(Holders)
  BY DEF Slots!Cardinality, Cardinality

(* A step of the pool is, for the abstract resource, a take, a give or     *)
(* nothing at all.                                                         *)
LEMMA StepRefines ==
  ASSUME IInv, NEW t \in Threads, Step(t)
  PROVE  Slots!Next \/ UNCHANGED Holders
  <1> USE DEF IInv, TypeOK
  <1>1. CASE PopIdle(t) \/ BeginLoad(t)
    <2>1. Holders' = Holders \cup {t} /\ t \notin Holders
      BY <1>1 DEF PopIdle, BeginLoad, InLoop, Holders, InPlace
    <2>2. Cardinality(Holders) < Cap
      BY <1>1, CountsAreNat, CapType DEF PopIdle, BeginLoad, LiveAccounting
    <2>3. Slots!Take(t)
      BY <2>1, <2>2, SameCount DEF Slots!Take
    <2> QED
      BY <2>3 DEF Slots!Next
  <1>2. CASE LoadErr(t) \/ Release(t)
    <2>1. t \in Holders /\ MoveAndNotify(t, "out")
      BY <1>2 DEF LoadErr, Release, Holders, InPlace
    <2>2. Holders' = Holders \ {t}
      BY <2>1 DEF MoveAndNotify, Holders, Waiting, InPlace
    <2>3. Slots!Give(t)
      BY <2>1, <2>2 DEF Slots!Give
    <2> QED
      BY <2>3 DEF Slots!Next
  <1>3. CASE Call(t) \/ Block(t) \/ LoadOk(t) \/ SpuriousWakeup(t)
    BY <1>3 DEF Call, Block, InLoop, LoadOk, SpuriousWakeup, Holders, InPlace
  <1> QED
    BY <1>1, <1>2, <1>3 DEF Step

(* The pool implements the bounded exclusive resource.                     *)
THEOREM Refinement == Spec => RefinesSlots
  <1>1. Init => Slots!Init
    BY DEF Init, Slots!Init, Holders, InPlace
  <1>2. IInv /\ [Next]_vars => [Slots!Next]_Holders
    <2> SUFFICES ASSUME IInv, [Next]_vars PROVE Slots!Next \/ UNCHANGED Holders
      OBVIOUS
    <2>1. CASE \E t \in Threads : Step(t)
      BY <2>1, StepRefines
    <2>2. CASE UNCHANGED vars
      BY <2>2 DEF vars, Holders, InPlace
    <2> QED
      BY <2>1, <2>2 DEF Next
  <1> QED
    BY <1>1, <1>2, Invariance, PTL DEF Spec, RefinesSlots, Slots!Spec
===============================================================================
