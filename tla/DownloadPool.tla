---------------------------- MODULE DownloadPool ----------------------------
(***************************************************************************)
(* downloadBlobs: Ensure's goroutine feeds the blobs of a model to a       *)
(* channel, a fixed number of workers take them, and the first error       *)
(* cancels the context they share.  The channels are big enough never to   *)
(* block a sender (both have room for every blob), so a channel is what    *)
(* was sent and what was received: jobs is the blobs received+1 .. sent,   *)
(* and of errCh only the first error is ever read.                         *)
(***************************************************************************)
EXTENDS Naturals

CONSTANTS
  BlobCount,  \* the number of shards of the model
  Workers     \* the goroutines that download

ASSUME PoolAssumption ==
  /\ BlobCount \in Nat
  /\ Workers # {}

Blobs == 1..BlobCount

VARIABLES
  sent,      \* how many blobs the feeder put in jobs
  received,  \* how many of them workers took
  feeder,    \* the feeder: "feed", or why it closed jobs
  worker,    \* each worker's place, blob and error
  errCh,     \* the first error sent, "none" before
  cancel,    \* cancel() was called
  expired,   \* the caller's context has ended
  files,     \* the shard files in the staging directory
  answer     \* what downloadBlobs returned

vars == <<sent, received, feeder, worker, errCh, cancel, expired, files, answer>>
pool == <<sent, received, feeder, errCh, cancel, expired, files, answer>>

Amounts == {"absent", "partial", "whole"}
Places  == {"take", "check", "open", "copy", "report", "cancel", "done"}

(* An error is a fault of its own, or the echo of an ended context.        *)
Errors == {"none", "fault", "echo"}

TypeOK ==
  /\ sent \in 0..BlobCount
  /\ received \in 0..sent
  /\ feeder \in {"feed", "complete", "canceled", "invalid"}
  /\ worker \in [Workers -> [pc : Places, blob : 0..BlobCount, err : Errors]]
  /\ errCh \in Errors
  /\ cancel \in BOOLEAN
  /\ expired \in BOOLEAN
  /\ files \in [Blobs -> Amounts]
  /\ answer \in {"none", "nil", "fault", "echo", "canceled", "invalid"}

Init ==
  /\ sent = 0
  /\ received = 0
  /\ feeder = "feed"
  /\ worker = [w \in Workers |-> [pc |-> "take", blob |-> 0, err |-> "none"]]
  /\ errCh = "none"
  /\ cancel = FALSE
  /\ expired = FALSE
  /\ files = [b \in Blobs |-> "absent"]
  /\ answer = "none"

(* downloadCtx.Done() is closed.                                           *)
Done == cancel \/ expired

-----------------------------------------------------------------------------
(* The feeder.  When the context is done and jobs has room, select takes   *)
(* either branch.                                                          *)
Feed ==
  /\ feeder = "feed" /\ sent < BlobCount
  /\ sent' = sent + 1
  /\ UNCHANGED <<received, feeder, worker, errCh, cancel, expired, files, answer>>

(* The next blob's name is not a plain file name.                          *)
FeedInvalid ==
  /\ feeder = "feed" /\ sent < BlobCount
  /\ cancel' = TRUE
  /\ feeder' = "invalid"
  /\ UNCHANGED <<sent, received, worker, errCh, expired, files, answer>>

FeedCanceled ==
  /\ feeder = "feed" /\ sent < BlobCount
  /\ Done
  /\ feeder' = "canceled"
  /\ UNCHANGED <<sent, received, worker, errCh, cancel, expired, files, answer>>

FeedComplete ==
  /\ feeder = "feed" /\ sent = BlobCount
  /\ feeder' = "complete"
  /\ UNCHANGED <<sent, received, worker, errCh, cancel, expired, files, answer>>

(* An invalid name is answered as such; otherwise the first error a worker *)
(* reported, if any.                                                       *)
Outcome ==
  IF feeder = "invalid" THEN "invalid"
  ELSE IF errCh # "none" THEN errCh
  ELSE IF feeder = "canceled" THEN "canceled"
  ELSE "nil"

ReturnEarly ==                                              \* mutant
  /\ feeder # "feed" /\ answer = "none"
  /\ feeder = "complete" => \A w \in Workers : worker[w].pc = "done"
  /\ answer' = Outcome
  /\ UNCHANGED <<sent, received, feeder, worker, errCh, cancel, expired, files>>

(* wg.Wait() returns when every worker has.                                *)
Return ==
  /\ feeder # "feed" /\ answer = "none"
  /\ \A w \in Workers : worker[w].pc = "done"
  /\ answer' = Outcome
  /\ UNCHANGED <<sent, received, feeder, worker, errCh, cancel, expired, files>>

-----------------------------------------------------------------------------
(* A worker.                                                               *)
At(w, place) == worker[w].pc = place
Goto(w, place) == worker' = [worker EXCEPT ![w].pc = place]

TakeAnyway(w) ==                                            \* mutant
  /\ At(w, "take")
  /\ received' = received + 1
  /\ worker' = [worker EXCEPT ![w].pc = "check", ![w].blob = received + 1]
  /\ UNCHANGED <<sent, feeder, errCh, cancel, expired, files, answer>>

Take(w) ==
  /\ At(w, "take")
  /\ received < sent
  /\ received' = received + 1
  /\ worker' = [worker EXCEPT ![w].pc = "check", ![w].blob = received + 1]
  /\ UNCHANGED <<sent, feeder, errCh, cancel, expired, files, answer>>

LeaveOpen(w) ==                                             \* mutant
  /\ At(w, "take")
  /\ feeder = "complete" /\ received = sent
  /\ Goto(w, "done")
  /\ UNCHANGED pool

(* jobs is closed and empty.                                               *)
Finish(w) ==
  /\ At(w, "take")
  /\ feeder # "feed" /\ received = sent
  /\ Goto(w, "done")
  /\ UNCHANGED pool

(* The worker sees the context done and returns; it reports nothing.       *)
Stop(w) ==
  /\ At(w, "check")
  /\ Done
  /\ Goto(w, "done")
  /\ UNCHANGED pool

Begin(w) ==
  /\ At(w, "check")
  /\ ~Done
  /\ Goto(w, "open")
  /\ UNCHANGED pool

(* The blob's stream is open and its file created, or truncated.           *)
Create(w) ==
  /\ At(w, "open")
  /\ Goto(w, "copy")
  /\ files' = [files EXCEPT ![worker[w].blob] = "partial"]
  /\ UNCHANGED <<sent, received, feeder, errCh, cancel, expired, answer>>

(* The file has the blob's size and digest.                                *)
Complete(w) ==
  /\ At(w, "copy")
  /\ Goto(w, "take")
  /\ files' = [files EXCEPT ![worker[w].blob] = "whole"]
  /\ UNCHANGED <<sent, received, feeder, errCh, cancel, expired, answer>>

(* Opening, writing or verifying fails, of itself or because the context   *)
(* ended under it.                                                         *)
Break(w) ==
  /\ At(w, "open") \/ At(w, "copy")
  /\ \E e \in {"fault", "echo"} :
       /\ e = "echo" => Done
       /\ worker' = [worker EXCEPT ![w].pc = "report", ![w].err = e]
  /\ UNCHANGED pool

DropError(w) ==                                             \* mutant
  /\ At(w, "report")
  /\ Goto(w, "cancel")
  /\ cancel' = TRUE
  /\ UNCHANGED <<sent, received, feeder, errCh, expired, files, answer>>

(* The error is sent first, and the context cancelled after it.            *)
Report(w) ==
  /\ At(w, "report")
  /\ Goto(w, "cancel")
  /\ errCh' = IF errCh = "none" THEN worker[w].err ELSE errCh
  /\ UNCHANGED <<sent, received, feeder, cancel, expired, files, answer>>

Cancel(w) ==
  /\ At(w, "cancel")
  /\ Goto(w, "done")
  /\ cancel' = TRUE
  /\ UNCHANGED <<sent, received, feeder, errCh, expired, files, answer>>

-----------------------------------------------------------------------------
(* The caller's context ends (its timeout passes, its client goes away), at *)
(* any time before the answer.                                             *)
Expire ==
  /\ ~expired /\ answer = "none"
  /\ expired' = TRUE
  /\ UNCHANGED <<sent, received, feeder, worker, errCh, cancel, files, answer>>

FeederStep == Feed \/ FeedInvalid \/ FeedCanceled \/ FeedComplete \/ Return

WorkerStep(w) ==
  \/ Take(w) \/ Finish(w) \/ Stop(w) \/ Begin(w) \/ Create(w) \/ Complete(w)
  \/ Break(w) \/ Report(w) \/ Cancel(w)

Answered == answer # "none" /\ UNCHANGED vars

Next == FeederStep \/ (\E w \in Workers : WorkerStep(w)) \/ Expire \/ Answered

Spec == Init /\ [][Next]_vars

(* Goroutines are scheduled, and a download ends: the registry answers or  *)
(* the transport gives up.                                                 *)
FairSpec ==
  Spec /\ WF_vars(FeederStep) /\ \A w \in Workers : WF_vars(WorkerStep(w))
-----------------------------------------------------------------------------
(* Properties.                                                             *)

(* downloadBlobs (service.go:703-769) is a download in the sense of        *)
(* DownloadSpec when the caller reads an answer that comes after the end   *)
(* of its context as a failure: no error means every shard is there, no    *)
(* complete shard is truncated again, and no worker outlives the call.     *)
Verdict ==
  IF answer = "nil" /\ expired THEN "error"
  ELSE IF answer \in {"none", "nil"} THEN answer ELSE "error"
Download == INSTANCE DownloadSpec WITH answer <- Verdict
DownloadsAllInTime == Download!Spec

(* The error that is answered is the cause and never its echo: a context   *)
(* that the caller did not end is cancelled only after the error that      *)
(* cancels it was sent.                                                    *)
AnswersTheCause == answer \in {"echo", "canceled"} => expired

(* The call answers: no worker waits for a blob, and the feeder for no     *)
(* worker, for ever.                                                       *)
Answers == <>(answer # "none")

(* The invariant behind DownloadsAllInTime: a blob that was taken is       *)
(* written, or held by one worker, or the call is going to fail.           *)
Failing == errCh # "none" \/ feeder = "invalid" \/ expired
Holds(w) == worker[w].pc \in {"check", "open", "copy", "report"}
CancelHasACause ==
  /\ cancel => Failing
  /\ feeder = "canceled" => Failing
  /\ \A w \in Workers : worker[w].pc = "cancel" => Failing
  /\ \A w \in Workers : worker[w].pc = "report" => worker[w].err # "none"
HeldOnce ==
  /\ \A w \in Workers : Holds(w) => worker[w].blob \in 1..received
  /\ \A v, w \in Workers :
       Holds(v) /\ Holds(w) /\ worker[v].blob = worker[w].blob => v = w
  /\ \A w \in Workers :
       worker[w].pc \in {"check", "open"} => files[worker[w].blob] = "absent"
  /\ \A b \in Blobs : b > received => files[b] = "absent"
NothingIsLost ==
  /\ \A b \in 1..received :
       \/ files[b] = "whole" \/ Failing
       \/ \E w \in Workers : Holds(w) /\ worker[w].blob = b
  /\ \A w \in Workers :
       worker[w].pc = "done" => Failing \/ (feeder = "complete" /\ received = sent)
  /\ feeder = "complete" => sent = BlobCount
  /\ answer # "none" => \A w \in Workers : worker[w].pc = "done"
PoolInv == CancelHasACause /\ HeldOnce /\ NothingIsLost

(* A call that answers nil has written every shard of the model, whatever  *)
(* became of its context: Ensure (service.go:535) looks at nothing else    *)
(* before it publishes.                                                    *)
NilMeansComplete == answer = "nil" => \A b \in Blobs : files[b] = "whole"
=============================================================================
