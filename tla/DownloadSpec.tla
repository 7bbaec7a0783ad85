---------------------------- MODULE DownloadSpec ----------------------------
(***************************************************************************)
(* What Ensure relies on when it calls downloadBlobs: shard files appear   *)
(* in the staging directory, the call answers once, it answers without an  *)
(* error only when every shard is complete, and nobody writes to the       *)
(* staging directory after the answer, when Ensure publishes or deletes it.*)
(***************************************************************************)
CONSTANT Blobs

VARIABLES
  files,   \* how much of each shard file is on disk
  answer   \* what downloadBlobs returned

Amounts == {"absent", "partial", "whole"}

Init == files = [b \in Blobs |-> "absent"] /\ answer = "none"

(* A shard file grows; a complete one stays as it is.                      *)
Write ==
  /\ answer = "none"
  /\ files' \in [Blobs -> Amounts]
  /\ \A b \in Blobs : files[b] = "whole" => files'[b] = "whole"
  /\ UNCHANGED answer

Succeed ==
  /\ answer = "none"
  /\ \A b \in Blobs : files[b] = "whole"
  /\ answer' = "nil"
  /\ UNCHANGED files

Fail ==
  /\ answer = "none"
  /\ answer' = "error"
  /\ UNCHANGED files

Next == Write \/ Succeed \/ Fail

Spec == Init /\ [][Next]_<<files, answer>>
=============================================================================
