------------------------- MODULE DownloadPoolProofs -------------------------
(***************************************************************************)
(* DownloadPool implements DownloadSpec, for every number of blobs and     *)
(* every set of workers.                                                   *)
(***************************************************************************)
EXTENDS DownloadPool, TLAPS

(* Every step keeps the types.                                             *)
LEMMA TypeStep == TypeOK /\ [Next]_vars => TypeOK'
<1> SUFFICES ASSUME TypeOK, [Next]_vars PROVE TypeOK'
  OBVIOUS
<1> USE PoolAssumption DEF TypeOK, Blobs
<1>1. CASE FeederStep
  <2>0. CASE Feed
    <3>1. sent' \in 0..BlobCount /\ received \in 0..sent'
      BY <2>0 DEF Feed
    <3> QED BY <2>0, <3>1 DEF Feed
  <2>1. CASE FeedInvalid \/ FeedCanceled \/ FeedComplete
    BY <2>1 DEF FeedInvalid, FeedCanceled, FeedComplete
  <2>2. CASE Return
    BY <2>2 DEF Return, Outcome, Errors
  <2> QED BY <1>1, <2>0, <2>1, <2>2 DEF FeederStep
<1>2. ASSUME NEW w \in Workers, WorkerStep(w) PROVE TypeOK'
  <2> USE DEF At, Goto, Places, Errors, pool
  <2>1. CASE Take(w)
    <3>1. received' \in 0..sent /\ received + 1 \in 0..BlobCount
      BY <2>1 DEF Take
    <3>2. worker' = [worker EXCEPT ![w].pc = "check", ![w].blob = received + 1]
      BY <2>1 DEF Take
    <3> HIDE PoolAssumption
    <3>3. worker' \in [Workers -> [pc : Places, blob : 0..BlobCount, err : Errors]]
      BY <3>1, <3>2
    <3> QED BY <2>1, <3>1, <3>3 DEF Take
  <2>2. CASE Finish(w) \/ Stop(w) \/ Begin(w)
    BY <2>2 DEF Finish, Stop, Begin
  <2>3. CASE Create(w) \/ Complete(w)
    <3>1. /\ files' \in [Blobs -> Amounts]
          /\ UNCHANGED <<sent, received, feeder, errCh, cancel, expired, answer>>
      BY <2>3 DEF Create, Complete, Amounts
    <3>2. PICK place \in {"copy", "take"} :
            worker' = [worker EXCEPT ![w].pc = place]
      BY <2>3 DEF Create, Complete
    <3>3. worker' \in [Workers -> [pc : Places, blob : 0..BlobCount, err : Errors]]
      BY <3>2
    <3> QED BY <3>1, <3>3
  <2>4. CASE Break(w)
    <3>1. PICK e \in {"fault", "echo"} :
            worker' = [worker EXCEPT ![w].pc = "report", ![w].err = e]
      BY <2>4 DEF Break
    <3> QED BY <2>4, <3>1 DEF Break
  <2>5. CASE Report(w) \/ Cancel(w)
    BY <2>5 DEF Report, Cancel
  <2> QED BY <1>2, <2>1, <2>2, <2>3, <2>4, <2>5 DEF WorkerStep
<1>3. CASE Expire
  BY <1>3 DEF Expire
<1>4. CASE Answered \/ UNCHANGED vars
  BY <1>4 DEF Answered, vars
<1> QED BY <1>1, <1>2, <1>3, <1>4 DEF Next

(* The call starts with an empty staging directory.                        *)
LEMMA InitHolds == Init => TypeOK /\ PoolInv
<1> SUFFICES ASSUME Init PROVE TypeOK /\ PoolInv
  OBVIOUS
<1> USE PoolAssumption DEF Init, Blobs
<1>1. /\ sent \in 0..BlobCount /\ received \in 0..sent
      /\ files \in [Blobs -> Amounts]
  BY DEF Amounts
<1>2. worker \in [Workers -> [pc : Places, blob : 0..BlobCount, err : Errors]]
  BY DEF Places, Errors
<1>3. TypeOK
  BY <1>1, <1>2 DEF TypeOK, Errors
<1>4. CancelHasACause /\ HeldOnce
  BY DEF CancelHasACause, HeldOnce, Holds
<1>5. NothingIsLost
  BY DEF NothingIsLost
<1> QED BY <1>3, <1>4, <1>5 DEF PoolInv

(* What a worker's step leaves alone.                                      *)
LEMMA WorkerFrame ==
  ASSUME TypeOK, NEW w \in Workers, WorkerStep(w)
  PROVE  /\ worker[w].pc # "done"
         /\ UNCHANGED <<sent, feeder, expired, answer>>
         /\ \A v \in Workers \ {w} : worker'[v] = worker[v]
BY DEF TypeOK, WorkerStep, Take, Finish, Stop, Begin, Create, Complete, Break,
   Report, Cancel, At, Goto, pool

(* Once the call is bound to fail it stays so.                             *)
LEMMA FailingStays ==
  ASSUME TypeOK, [Next]_vars, Failing
  PROVE  Failing'
<1>1. CASE FeederStep
  BY <1>1 DEF FeederStep, Feed, FeedInvalid, FeedCanceled, FeedComplete, Return,
     Failing
<1>2. ASSUME NEW w \in Workers, WorkerStep(w) PROVE Failing'
  <2>1. errCh # "none" => errCh' # "none"
    BY <1>2 DEF WorkerStep, Take, Finish, Stop, Begin, Create, Complete, Break,
       Report, Cancel, pool
  <2> QED BY <1>2, <2>1, WorkerFrame DEF Failing
<1>3. CASE Expire \/ Answered \/ UNCHANGED vars
  BY <1>3 DEF Expire, Answered, vars, Failing
<1> QED BY <1>1, <1>2, <1>3 DEF Next

(* The shared context is cancelled only by what makes the call fail.       *)
LEMMA CauseStep ==
  TypeOK /\ CancelHasACause /\ [Next]_vars => CancelHasACause'
<1> SUFFICES ASSUME TypeOK, CancelHasACause, [Next]_vars PROVE CancelHasACause'
  OBVIOUS
<1> USE FailingStays DEF CancelHasACause
<1>1. CASE FeederStep
  BY <1>1 DEF FeederStep, Feed, FeedInvalid, FeedCanceled, FeedComplete, Return,
     Done, Failing
<1>2. ASSUME NEW w \in Workers, WorkerStep(w) PROVE CancelHasACause'
  <2>1. cancel' => cancel \/ worker[w].pc = "cancel"
    BY <1>2 DEF WorkerStep, Take, Finish, Stop, Begin, Create, Complete, Break,
       Report, Cancel, At, pool
  <2>2. worker'[w].pc = "cancel" => Failing'
    <3>1. CASE Report(w)
      BY <3>1 DEF Report, Goto, At, Failing
    <3>2. CASE Take(w) \/ Finish(w) \/ Stop(w) \/ Begin(w) \/ Create(w)
                 \/ Complete(w) \/ Break(w) \/ Cancel(w)
      BY <3>2 DEF TypeOK, Take, Finish, Stop, Begin, Create, Complete, Break,
         Cancel, Goto, At
    <3> QED BY <1>2, <3>1, <3>2 DEF WorkerStep
  <2>3. worker'[w].pc = "report" => worker'[w].err # "none"
    <3>1. CASE Break(w)
      <4>1. PICK e \in {"fault", "echo"} :
              worker' = [worker EXCEPT ![w].pc = "report", ![w].err = e]
        BY <3>1 DEF Break
      <4> QED BY <4>1 DEF TypeOK
    <3>2. CASE ~Break(w)
      BY <1>2, <3>2 DEF TypeOK, WorkerStep, Take, Finish, Stop, Begin, Create,
         Complete, Report, Cancel, Goto, At
    <3> QED BY <3>1, <3>2
  <2> QED BY <1>2, <2>1, <2>2, <2>3, WorkerFrame
<1>3. CASE Expire \/ Answered \/ UNCHANGED vars
  BY <1>3 DEF Expire, Answered, vars
<1> QED BY <1>1, <1>2, <1>3 DEF Next

(* A blob is held by one worker at a time, and its file untouched before.  *)
LEMMA HeldStep == TypeOK /\ HeldOnce /\ [Next]_vars => HeldOnce'
<1> SUFFICES ASSUME TypeOK, HeldOnce, [Next]_vars PROVE HeldOnce'
  OBVIOUS
<1> USE DEF HeldOnce, Holds
<1>1. CASE FeederStep \/ Expire \/ Answered \/ UNCHANGED vars
  <2>1. UNCHANGED <<worker, received, files>>
    BY <1>1 DEF FeederStep, Feed, FeedInvalid, FeedCanceled, FeedComplete,
       Return, Expire, Answered, vars
  <2> QED BY <2>1
<1>2. ASSUME NEW w \in Workers, WorkerStep(w) PROVE HeldOnce'
  <2> USE PoolAssumption DEF At, Goto, pool, TypeOK, Blobs
  <2>0. \A v \in Workers \ {w} : worker'[v] = worker[v]
    BY <1>2, WorkerFrame
  <2>1. CASE Take(w)
    <3>1. /\ worker'[w].pc = "check" /\ worker'[w].blob = received + 1
          /\ received' = received + 1 /\ received + 1 \in 1..BlobCount
          /\ files' = files /\ files[received + 1] = "absent"
      BY <2>1 DEF Take
    <3>2. \A v \in Workers \ {w} :
            /\ Holds(v)' <=> Holds(v)
            /\ worker'[v].blob = worker[v].blob
            /\ Holds(v) => worker[v].blob \in 1..received
      BY <2>0
    <3>3. \A v \in Workers : Holds(v)' => worker'[v].blob \in 1..received'
      BY <3>1, <3>2
    <3>4. \A v \in Workers \ {w} : Holds(v) => worker[v].blob # received + 1
      BY <3>2
    <3>5. \A u, v \in Workers :
            Holds(u)' /\ Holds(v)' /\ worker'[u].blob = worker'[v].blob => u = v
      BY <3>1, <3>2, <3>4
    <3>6. \A v \in Workers :
            worker'[v].pc \in {"check", "open"} => files'[worker'[v].blob] = "absent"
      BY <3>1, <2>0
    <3>7. \A b \in Blobs : b > received' => files'[b] = "absent"
      BY <3>1
    <3> QED BY <3>3, <3>5, <3>6, <3>7
  <2>2. CASE Finish(w) \/ Stop(w) \/ Begin(w) \/ Report(w) \/ Cancel(w)
    <3>1. /\ UNCHANGED <<received, files>> /\ worker'[w].blob = worker[w].blob
          /\ worker'[w].pc \in {"check", "open"} => worker[w].pc = "check"
          /\ worker'[w].pc \in {"check", "open", "copy", "report"}
               => worker[w].pc \in {"check", "open", "copy", "report"}
      BY <2>2 DEF Finish, Stop, Begin, Report, Cancel
    <3>2. \A v \in Workers :
            /\ worker'[v].blob = worker[v].blob
            /\ worker'[v].pc \in {"check", "open"}
                 => worker[v].pc \in {"check", "open"}
            /\ Holds(v)' => Holds(v)
      BY <2>0, <3>1
    <3> QED BY <3>1, <3>2
  <2>3. CASE Break(w)
    <3>1. PICK e : worker' = [worker EXCEPT ![w].pc = "report", ![w].err = e]
      BY <2>3 DEF Break
    <3>2. /\ UNCHANGED <<received, files>> /\ worker'[w].blob = worker[w].blob
          /\ worker'[w].pc = "report" /\ worker[w].pc \in {"open", "copy"}
      BY <2>3, <3>1 DEF Break
    <3>3. \A v \in Workers :
            /\ worker'[v].blob = worker[v].blob
            /\ worker'[v].pc \in {"check", "open"}
                 => worker[v].pc \in {"check", "open"}
            /\ Holds(v)' => Holds(v)
      BY <2>0, <3>2
    <3> QED BY <3>2, <3>3
  <2>4. CASE Create(w) \/ Complete(w)
    <3>1. /\ received' = received /\ worker'[w].blob = worker[w].blob
          /\ worker'[w].pc \notin {"check", "open"}
          /\ worker[w].pc \in {"open", "copy"}
          /\ \A b \in Blobs \ {worker[w].blob} : files'[b] = files[b]
      BY <2>4 DEF Create, Complete
    <3>2. \A v \in Workers :
            /\ worker'[v].blob = worker[v].blob
            /\ worker'[v].pc \in {"check", "open"}
                 => v # w /\ worker[v].pc \in {"check", "open"}
            /\ Holds(v)' => Holds(v)
      BY <2>0, <3>1
    <3>3. \A v \in Workers \ {w} :
            Holds(v) => worker[v].blob \in Blobs \ {worker[w].blob}
      BY <3>1
    <3>4. \A b \in Blobs : b > received => files'[b] = "absent"
      BY <3>1
    <3> QED BY <3>1, <3>2, <3>3, <3>4
  <2> QED BY <1>2, <2>1, <2>2, <2>3, <2>4 DEF WorkerStep
<1> QED BY <1>1, <1>2 DEF Next

(* A blob that was taken is written, held, or part of a failing call.      *)
LEMMA LostStep ==
  TypeOK /\ CancelHasACause /\ HeldOnce /\ NothingIsLost /\ [Next]_vars
    => NothingIsLost'
<1> SUFFICES ASSUME TypeOK, CancelHasACause, HeldOnce, NothingIsLost, [Next]_vars
             PROVE  NothingIsLost'
  OBVIOUS
<1> DEFINE Safe(b) == \/ files[b] = "whole" \/ Failing
                      \/ \E w \in Workers : Holds(w) /\ worker[w].blob = b
           Ended(w) == worker[w].pc = "done" =>
                         Failing \/ (feeder = "complete" /\ received = sent)
<1>0. /\ \A b \in 1..received : Safe(b)
      /\ \A w \in Workers : Ended(w)
  BY DEF NothingIsLost
<1>1. CASE FeederStep \/ Expire \/ Answered \/ UNCHANGED vars
  <2>1. /\ UNCHANGED <<worker, received, files>>
        /\ feeder = "complete" => feeder' = "complete" /\ sent' = sent
        /\ feeder' = "complete" => sent' = BlobCount
        /\ answer' # answer => \A w \in Workers : worker[w].pc = "done"
    BY <1>1 DEF FeederStep, Feed, FeedInvalid, FeedCanceled, FeedComplete,
       Return, Expire, Answered, vars, NothingIsLost
  <2> QED BY <1>0, <2>1, FailingStays DEF NothingIsLost, Holds
<1>2. ASSUME NEW w \in Workers, WorkerStep(w) PROVE NothingIsLost'
  <2> USE PoolAssumption DEF At, Goto, pool, Blobs
  <2>0. /\ worker[w].pc # "done"
        /\ UNCHANGED <<sent, feeder, expired, answer>>
        /\ \A v \in Workers \ {w} : worker'[v] = worker[v]
    BY <1>2, WorkerFrame
  <2>1. CASE Failing
    <3>1. Failing'
      BY <2>1, FailingStays
    <3> QED BY <2>0, <3>1 DEF NothingIsLost
  <2>2. CASE ~Failing
    <3> SUFFICES /\ \A b \in 1..received' : Safe(b)'
                 /\ \A v \in Workers : Ended(v)'
      BY <2>0 DEF NothingIsLost
    <3>1. CASE Take(w)
      <4>1. /\ received' = received + 1 /\ received < sent /\ files' = files
            /\ worker'[w].pc = "check" /\ worker'[w].blob = received + 1
            /\ ~Holds(w)
        BY <3>1 DEF Take, TypeOK, Holds
      <4>2. \A b \in 1..received' : Safe(b)'
        <5>1. ASSUME NEW b, b = received + 1 PROVE Safe(b)'
          BY <4>1, <5>1 DEF Holds
        <5>2. ASSUME NEW b \in 1..received PROVE Safe(b)'
          BY <1>0, <2>0, <2>2, <4>1 DEF Holds
        <5>3. received \in Nat
          BY DEF TypeOK
        <5>4. \A b \in 1..received' : b \in 1..received \/ b = received + 1
          BY <4>1, <5>3
        <5> HIDE DEF Safe
        <5> QED BY <5>1, <5>2, <5>4
      <4>3. \A v \in Workers : Ended(v)'
        BY <1>0, <2>0, <2>2, <4>1 DEF TypeOK
      <4> QED BY <4>2, <4>3
    <3>2. CASE Finish(w)
      <4>1. /\ received' = received /\ received = sent /\ files' = files
            /\ feeder = "complete" /\ ~Holds(w)
        BY <2>2, <3>2 DEF Finish, Holds, CancelHasACause, TypeOK, Failing
      <4> QED BY <1>0, <2>0, <2>2, <4>1 DEF Holds
    <3>3. CASE Begin(w) \/ Create(w) \/ Complete(w) \/ Break(w)
      <4>1. /\ received' = received /\ Holds(w) /\ worker'[w].pc # "done"
            /\ worker'[w].blob = worker[w].blob
            /\ \/ Holds(w)' \/ files'[worker[w].blob] = "whole"
            /\ \A b \in Blobs \ {worker[w].blob} : files'[b] = files[b]
        <5>1. CASE Begin(w)
          BY <5>1 DEF Begin, Holds, TypeOK
        <5>2. CASE Create(w)
          BY <5>2 DEF Create, Holds, TypeOK
        <5>3. CASE Complete(w)
          <6>1. worker[w].blob \in Blobs
            BY <5>3 DEF Complete, HeldOnce, Holds, TypeOK
          <6> QED BY <5>3, <6>1 DEF Complete, Holds, TypeOK
        <5>4. CASE Break(w)
          <6>1. PICK e : worker' = [worker EXCEPT ![w].pc = "report", ![w].err = e]
            BY <5>4 DEF Break
          <6> QED BY <5>4, <6>1 DEF Break, Holds, TypeOK
        <5> QED BY <3>3, <5>1, <5>2, <5>3, <5>4
      <4>2. received \in 0..BlobCount
        BY DEF TypeOK
      <4>3. ASSUME NEW b \in 1..received PROVE Safe(b)'
        <5>1. CASE b = worker[w].blob
          BY <4>1, <5>1
        <5>2. CASE b # worker[w].blob
          <6>1. files'[b] = files[b]
            BY <4>1, <4>2, <5>2
          <6> QED BY <1>0, <2>0, <2>2, <5>2, <6>1 DEF Holds
        <5> QED BY <5>1, <5>2
      <4>4. \A v \in Workers : Ended(v)'
        BY <1>0, <2>0, <2>2, <4>1
      <4> QED BY <4>1, <4>3, <4>4
    <3>4. CASE Report(w)
      <4>1. Failing'
        BY <3>4 DEF Report, CancelHasACause, Failing
      <4> QED BY <4>1
    <3>5. CASE Stop(w) \/ Cancel(w)
      BY <2>2, <3>5 DEF Stop, Cancel, Done, CancelHasACause, Failing
    <3> QED BY <1>2, <3>1, <3>2, <3>3, <3>4, <3>5 DEF WorkerStep
  <2> QED BY <2>1, <2>2
<1> QED BY <1>1, <1>2 DEF Next

(* Every step keeps the invariant.                                         *)
LEMMA PoolStep == TypeOK /\ PoolInv /\ [Next]_vars => (TypeOK /\ PoolInv)'
BY TypeStep, CauseStep, HeldStep, LostStep DEF PoolInv

(* A step of the pool is a step of DownloadSpec, or a stutter.             *)
LEMMA StepRefines ==
  TypeOK /\ PoolInv /\ [Next]_vars => [Download!Next]_<<files, Verdict>>
<1> SUFFICES ASSUME TypeOK, PoolInv, [Next]_vars
             PROVE  [Download!Next]_<<files, Verdict>>
  OBVIOUS
<1>1. CASE Feed \/ FeedInvalid \/ FeedCanceled \/ FeedComplete \/ Answered
             \/ UNCHANGED vars
  <2>1. UNCHANGED <<files, answer, expired>>
    BY <1>1 DEF Feed, FeedInvalid, FeedCanceled, FeedComplete, Answered, vars
  <2> QED BY <2>1 DEF Verdict
<1>2. CASE Expire
  BY <1>2 DEF Expire, Verdict
<1>3. CASE Return
  <2>1. files' = files /\ expired' = expired /\ answer = "none"
        /\ answer' = Outcome /\ \A w \in Workers : worker[w].pc = "done"
    BY <1>3 DEF Return
  <2>2. CASE answer' = "nil" /\ ~expired
    <3>1. ~Failing /\ feeder = "complete"
      BY <1>3, <2>1, <2>2 DEF Return, Outcome, Failing, TypeOK, Errors
    <3>2. received = sent /\ sent = BlobCount
      BY <2>1, <3>1, PoolAssumption DEF PoolInv, NothingIsLost
    <3>3. \A b \in Blobs : files[b] = "whole"
      BY <2>1, <3>1, <3>2 DEF PoolInv, NothingIsLost, Holds, Blobs
    <3> QED BY <2>1, <2>2, <3>3 DEF Download!Next, Download!Succeed, Verdict
  <2>3. CASE ~(answer' = "nil" /\ ~expired)
    <3>1. Verdict = "none" /\ Verdict' = "error"
      BY <2>1, <2>3 DEF Verdict, Outcome, TypeOK, Errors
    <3> QED BY <2>1, <3>1 DEF Download!Next, Download!Fail
  <2> QED BY <2>2, <2>3
<1>4. ASSUME NEW w \in Workers, WorkerStep(w)
      PROVE  [Download!Next]_<<files, Verdict>>
  <2>1. Verdict = "none" /\ Verdict' = Verdict
    BY <1>4, WorkerFrame DEF Verdict, PoolInv, NothingIsLost
  <2>2. CASE Create(w) \/ Complete(w)
    <3>1. files' \in [Blobs -> Amounts]
      BY TypeStep DEF TypeOK
    <3>2. \A b \in Blobs : files[b] = "whole" => files'[b] = "whole"
      BY <2>2 DEF Create, Complete, At, TypeOK, PoolInv, HeldOnce
    <3> QED BY <2>1, <3>1, <3>2 DEF Download!Next, Download!Write,
            Download!Amounts, Amounts
  <2>3. CASE ~(Create(w) \/ Complete(w))
    <3>1. files' = files
      BY <1>4, <2>3 DEF WorkerStep, Take, Finish, Stop, Begin, Break, Report,
         Cancel, pool
    <3> QED BY <2>1, <3>1
  <2> QED BY <2>2, <2>3
<1> QED BY <1>1, <1>2, <1>3, <1>4 DEF Next, FeederStep

(* The pool's variables keep their types.                                  *)
THEOREM PoolTypes == Spec => []TypeOK
BY InitHolds, TypeStep, PTL DEF Spec

(* The invariant holds for every number of blobs and every set of workers. *)
THEOREM PoolInvHolds == Spec => [](TypeOK /\ PoolInv)
BY InitHolds, PoolStep, PTL DEF Spec

(* downloadBlobs implements DownloadSpec: unless the caller's context      *)
(* ended, no error means that every shard is complete; a complete shard is *)
(* never truncated again; and nothing is written after the answer.         *)
THEOREM PoolImplementsDownload == Spec => DownloadsAllInTime
<1>1. Init => Download!Init
  BY DEF Init, Verdict, Download!Init
<1> QED BY <1>1, StepRefines, PoolInvHolds, PTL
        DEF Spec, DownloadsAllInTime, Download!Spec
-----------------------------------------------------------------------------
(* Why a call answers with an ended context: an echo, stored, about to be  *)
(* reported or seen by the feeder, has a cause that outlives it.           *)
EchoHasACause ==
  /\ errCh = "echo" => expired \/ feeder = "invalid"
  /\ feeder = "canceled" => expired \/ errCh = "fault"
  /\ \A w \in Workers : worker[w].pc = "report" /\ worker[w].err = "echo" =>
       expired \/ feeder = "invalid" \/ errCh = "fault"
  /\ AnswersTheCause

(* The first error that was sent is kept.                                  *)
LEMMA FirstErrorStays ==
  ASSUME [Next]_vars, errCh # "none"
  PROVE  errCh' = errCh
BY DEF Next, FeederStep, Feed, FeedInvalid, FeedCanceled, FeedComplete, Return,
   WorkerStep, Take, Finish, Stop, Begin, Create, Complete, Break, Report,
   Cancel, Expire, Answered, pool, vars

(* Every step keeps the causes.                                            *)
LEMMA EchoStep ==
  TypeOK /\ PoolInv /\ EchoHasACause /\ [Next]_vars => EchoHasACause'
<1> SUFFICES ASSUME TypeOK, PoolInv, EchoHasACause, [Next]_vars
             PROVE  EchoHasACause'
  OBVIOUS
<1> USE DEF EchoHasACause, AnswersTheCause
<1>0. CancelHasACause
  BY DEF PoolInv
<1>1. CASE FeederStep
  <2>1. CASE Feed \/ FeedInvalid \/ FeedComplete
    BY <2>1 DEF Feed, FeedInvalid, FeedComplete
  <2>2. CASE FeedCanceled
    <3>1. expired \/ errCh = "fault"
      BY <1>0, <2>2
         DEF FeedCanceled, Done, CancelHasACause, Failing, TypeOK, Errors
    <3> QED BY <2>2, <3>1 DEF FeedCanceled
  <2>3. CASE Return
    <3>1. Outcome \in {"echo", "canceled"} => expired
      BY DEF Outcome, TypeOK, Errors
    <3> QED BY <2>3, <3>1 DEF Return
  <2> QED BY <1>1, <2>1, <2>2, <2>3 DEF FeederStep
<1>2. ASSUME NEW w \in Workers, WorkerStep(w) PROVE EchoHasACause'
  <2>0. /\ UNCHANGED <<feeder, expired, answer>>
        /\ \A v \in Workers \ {w} : worker'[v] = worker[v]
        /\ errCh = "fault" => errCh' = "fault"
    BY <1>2, WorkerFrame, FirstErrorStays
  <2>1. CASE Break(w)
    <3>1. PICK e \in {"fault", "echo"} :
            /\ e = "echo" => Done
            /\ worker' = [worker EXCEPT ![w].pc = "report", ![w].err = e]
      BY <2>1 DEF Break
    <3>2. errCh' = errCh /\ worker'[w].err = e
      BY <2>1, <3>1 DEF Break, pool, TypeOK
    <3>3. e = "echo" => expired \/ feeder = "invalid" \/ errCh = "fault"
      BY <1>0, <3>1 DEF Done, CancelHasACause, Failing, TypeOK, Errors
    <3> QED BY <2>0, <3>2, <3>3
  <2>2. CASE Report(w)
    <3>1. /\ worker[w].pc = "report" /\ worker'[w].pc = "cancel"
          /\ errCh' = IF errCh = "none" THEN worker[w].err ELSE errCh
      BY <2>2 DEF Report, At, Goto, TypeOK
    <3>2. errCh' = "echo" => expired \/ feeder = "invalid"
      BY <3>1
    <3> QED BY <2>0, <3>1, <3>2
  <2>3. CASE ~(Break(w) \/ Report(w))
    <3>1. errCh' = errCh /\ worker'[w].pc # "report"
      BY <1>2, <2>3 DEF WorkerStep, Take, Finish, Stop, Begin, Create, Complete,
         Cancel, Goto, pool, TypeOK
    <3> QED BY <2>0, <3>1
  <2> QED BY <2>1, <2>2, <2>3
<1>3. CASE Expire \/ Answered \/ UNCHANGED vars
  BY <1>3 DEF Expire, Answered, vars
<1> QED BY <1>1, <1>2, <1>3 DEF Next

(* A call whose context the caller did not end answers the error that made *)
(* it fail, never the cancellation that followed it.                       *)
THEOREM AnswerIsTheCause == Spec => []AnswersTheCause
<1>1. Init => EchoHasACause
  BY DEF Init, EchoHasACause, AnswersTheCause
<1>2. EchoHasACause => AnswersTheCause
  BY DEF EchoHasACause
<1> QED BY <1>1, <1>2, EchoStep, PoolInvHolds, PTL DEF Spec
=============================================================================
