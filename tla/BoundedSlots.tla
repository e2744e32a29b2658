---------------------------- MODULE BoundedSlots ----------------------------
(***************************************************************************)
(* What a bounded exclusive resource promises to its clients: at most      *)
(* Limit of them hold a slot at any moment, a slot is taken and given back *)
(* by its holder and by nobody else.  The ONNX session pool of models.rs   *)
(* and the image semaphore of zip_worker.rs are both meant to implement    *)
(* it; how they make a client wait is none of this module's business.      *)
(***************************************************************************)
EXTENDS Naturals, FiniteSets

CONSTANTS Clients,  \* whoever may hold a slot
          Limit     \* how many slots there are

VARIABLE held       \* the clients that hold a slot now

Init == held = {}

Take(c) ==
  /\ c \notin held
  /\ Cardinality(held) < Limit
  /\ held' = held \cup {c}

Give(c) ==
  /\ c \in held
  /\ held' = held \ {c}

Next == \E c \in Clients : Take(c) \/ Give(c)

Spec == Init /\ [][Next]_held
=============================================================================
