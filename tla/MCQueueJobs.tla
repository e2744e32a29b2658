------------------------------ MODULE MCQueueJobs -----------------------------
(***************************************************************************)
(* QueueJobs with two jobs.  There is no object under the key missing: a   *)
(* message that names it fails at its download, a direct request for it is *)
(* refused, so that the deployments with Absent have the other job alone.  *)
(***************************************************************************)
EXTENDS QueueJobs

CONSTANTS a, b, present, missing

Job(via, key, consume, body) ==
  [via |-> via, key |-> key, consume |-> consume, body |-> body]
Pair(x, y) == [j \in {a, b} |-> IF j = a THEN x ELSE y]
Absent     == Job("direct", missing, FALSE, "job")

(* A message, lone or beside a request for the same archive; messages that  *)
(* cannot succeed; requests that share an archive.                          *)
Futile ==
  {Pair(Job("rabbitmq", missing, FALSE, "job"), Job("sqs", missing, FALSE, "invalid")),
   Pair(Job("rabbitmq", missing, FALSE, "garbage"), Job("sqs", missing, FALSE, "garbage")),
   Pair(Job("rabbitmq", missing, FALSE, "invalid"), Absent)}
Lone ==
  {Pair(Job("rabbitmq", present, TRUE, "job"), Absent),
   Pair(Job("sqs", present, TRUE, "job"), Absent)}
Shared ==
  {Pair(Job("rabbitmq", present, TRUE, "job"), Job("direct", present, FALSE, "job")),
   Pair(Job("direct", present, TRUE, "job"), Job("direct", present, FALSE, "job"))}

AllDeployments    == Futile \cup Lone \cup Shared
SettleDeployments == Futile \cup Lone
LoneDeployments   == Lone
==============================================================================
