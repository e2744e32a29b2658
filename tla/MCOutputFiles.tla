----------------------------- MODULE MCOutputFiles -----------------------------
(* A batch of two archives, an object-store job whose archive has the base   *)
(* name of the second one, and a request with an empty form that competes    *)
(* for the lock.  An upload turns out to have one or two bytes; two is the   *)
(* whole budget of a batch.                                                  *)
EXTENDS OutputFiles, TLC

CONSTANTS post, batch, job

MCSends == (post :> <<>>) @@ (job :> <<"in/x.7z">>) @@ (batch :> <<"y.zip", "x.zip">>)
MCUploads == {"x.zip", "in/x.7z", "y.zip"}
MCStem == [u \in MCUploads |-> IF u = "y.zip" THEN "y" ELSE "x"]
MCSize == [u \in MCUploads |-> IF u = "y.zip" THEN {1, 2} ELSE {2}]
==============================================================================
