--------------------------- MODULE Cleanup_proofs ---------------------------
(***************************************************************************)
(* Proofs about Cleanup: with windows longer than a session and the run of *)
(* a handler, any number of cleanup and reconcile jobs beside any number   *)
(* of requests delete nothing an application still counts on, and take no  *)
(* upload from a live session.                                             *)
(***************************************************************************)
EXTENDS Cleanup, Uploads_proofs

-----------------------------------------------------------------------------
(***************************************************************************)
(* What a step of the server does to the state the jobs depend on.         *)
(***************************************************************************)

(* The clock never goes back, and a session's expiry is fixed once, by the *)
(* request that takes its id.                                              *)
LEMMA NextClock ==
  ASSUME Bookkeeping, [Next]_vars
  PROVE  /\ now <= now'
         /\ \A s \in Sessions :
              \/ token[s] # "none" /\ token'[s] # "none" /\ expires'[s] = expires[s]
              \/ token[s] = "none" /\ token'[s] = "none"
              \/ token[s] = "none" /\ expires'[s] = now + UploadExpiry /\ now' = now
<1> USE DEF Bookkeeping
<1>1. CASE UNCHANGED <<now, token, expires>>
  BY <1>1 DEF TypeOK
<1>2. CASE \E r \in Requests, files \in SUBSET Sessions : BeginPrepare(r, files)
  BY <1>2 DEF BeginPrepare, TypeOK
<1>3. CASE Tick
  BY <1>3 DEF Tick, TypeOK, tokens
<1>4. CASE \E r \in Requests : Crash(r) \/ Deliver(r)
  BY <1>4 DEF Crash, Deliver, Forget, TypeOK, BatchOwned
<1>5. QED
  BY <1>1, <1>2, <1>3, <1>4
     DEF Next, Client, Handler, Prepare, Finalize, AbortUpload, vars, tokens,
         UploadPart, PutObject, PrepareFile, PresignParts, PresignFails, Unwind,
         PrepareFails, PrepareReplies, BeginFinalize, RefuseExpired, Probe, Complete,
         Verify, Validate, RunCallback, CallbackThrows, BeginAbort, AbortProbe, Abort,
         StorageFails

(* An upload is opened once, by the prepare of its session.                *)
LEMMA NextUploads ==
  ASSUME Bookkeeping, [Next]_vars, NEW s \in Sessions,
         upload'[s] = "open", upload[s] # "open"
  PROVE  upload[s] = "none" /\ token[s] = "minting" /\ UNCHANGED <<now, expires>>
<1> USE DEF Bookkeeping
<1>1. CASE \E r \in Requests, x \in Sessions : PrepareFile(r, x)
  BY <1>1 DEF PrepareFile, BatchOwned, BatchProgress, TypeOK
<1>2. CASE \E r \in Requests : Unwind(r) \/ Complete(r) \/ Abort(r)
  BY <1>2 DEF Unwind, Complete, Abort, TypeOK, bucket
<1>3. CASE UNCHANGED upload
  BY <1>3
<1>4. QED
  BY <1>1, <1>2, <1>3
     DEF Next, Client, Handler, Prepare, Finalize, AbortUpload, vars, bucket, Tick,
         UploadPart, PutObject, BeginPrepare, PresignParts, PresignFails,
         PrepareFails, PrepareReplies, BeginFinalize, RefuseExpired, Probe,
         Verify, Validate, RunCallback, CallbackThrows, BeginAbort, AbortProbe,
         StorageFails, Crash, Deliver

(* An object is stored under an issued session, and only a signed PUT can  *)
(* replace one.                                                            *)
LEMMA NextObjects ==
  ASSUME Bookkeeping, [Next]_vars, NEW s \in Sessions, object'[s] # object[s]
  PROVE  /\ token[s] = "issued" /\ object'[s] # "absent"
         /\ UNCHANGED <<now, expires, tracked>>
         /\ s \in Multipart => upload[s] = "open"
<1> USE DEF Bookkeeping
<1>1. CASE \E r \in Requests : Complete(r)
  <2>1. PICK r \in Requests : Complete(r)
    BY <1>1
  <2>2. call[r].target \in Sessions /\ token[call[r].target] = "issued"
    BY <2>1 DEF Complete, WorksOnIssued, FinalizeSteps
  <2>3. s = call[r].target /\ upload[s] = "open" /\ object'[s] # "absent"
    BY <2>1, <2>2 DEF Complete, Store, TypeOK, bucket
  <2>4. QED
    BY <2>1, <2>2, <2>3 DEF Complete, tokens
<1>2. CASE \E x \in Sessions : PutObject(x)
  BY <1>2 DEF PutObject, Store, UrlValid, TypeOK, tokens
<1>3. CASE UNCHANGED object
  BY <1>3
<1>4. QED
  BY <1>1, <1>2, <1>3
     DEF Next, Client, Handler, Prepare, Finalize, AbortUpload, vars, bucket, Tick,
         UploadPart, BeginPrepare, PrepareFile, PresignParts, PresignFails, Unwind,
         PrepareFails, PrepareReplies, BeginFinalize, RefuseExpired, Probe, Verify,
         Validate, RunCallback, CallbackThrows, BeginAbort, AbortProbe, Abort,
         StorageFails, Crash, Deliver

(* A repeated PUT is a step of the server like any other.                  *)
LEMMA ServeIsNext == Serve => [Next]_vars /\ UNCHANGED <<job, faults>>
BY DEF Serve, PutAgain, Next, Client

(* A request that aborts an upload answers or unwinds in the same step.    *)
LEMMA OnlyRequestsAbort ==
  ASSUME Bookkeeping, [Next]_vars, NEW s \in Sessions,
         upload[s] = "open", upload'[s] = "aborted"
  PROVE  call' # call
<1> USE DEF Bookkeeping
<1>1. CASE \E r \in Requests : Unwind(r) \/ Complete(r) \/ Abort(r)
  BY <1>1, GotoEffect, ReplyEffect
     DEF Unwind, Complete, Abort, TypeOK, bucket, Codes, Steps, FinalizeSteps
<1>2. CASE \E r \in Requests, x \in Sessions : PrepareFile(r, x)
  BY <1>2 DEF PrepareFile, TypeOK
<1>3. CASE UNCHANGED upload
  BY <1>3
<1>4. QED
  BY <1>1, <1>2, <1>3
     DEF Next, Client, Handler, Prepare, Finalize, AbortUpload, vars, bucket, Tick,
         UploadPart, PutObject, BeginPrepare, PresignParts, PresignFails,
         PrepareFails, PrepareReplies, BeginFinalize, RefuseExpired, Probe,
         Verify, Validate, RunCallback, CallbackThrows, BeginAbort, AbortProbe,
         StorageFails, Crash, Deliver

(* Over and Spent are for ever.                                            *)
LEMMA OverStays ==
  ASSUME Bookkeeping, Bookkeeping', [Next]_vars, NEW s \in Sessions, Over(s)
  PROVE  Over(s)' /\ tracked'[s] = tracked[s]
<1>1. now \in Nat /\ now' \in Nat /\ expires[s] \in Nat
  BY DEF Bookkeeping, TypeOK
<1>2. token'[s] # "none" /\ expires'[s] = expires[s] /\ now <= now'
  BY NextClock DEF Over
<1>3. ~ (now <= expires[s] + HandlerTime)
  BY <1>1, TimeAssumption DEF Over
<1>4. tracked'[s] = tracked[s]
  BY <1>3, StepTrackedInTime
<1>5. QED
  BY <1>1, <1>2, <1>4, TimeAssumption DEF Over

LEMMA SpentStays ==
  ASSUME Bookkeeping, Bookkeeping', [Next]_vars, NEW s \in Sessions, Spent(s)
  PROVE  Spent(s)'
<1>1. CASE RetentionEnded(s)
  BY <1>1, RetentionStep DEF Spent
<1>2. CASE Over(s) /\ ~tracked[s]
  BY <1>2, OverStays DEF Spent
<1>3. QED
  BY <1>1, <1>2 DEF Spent

(* Nobody works on a session that is over.                                 *)
LEMMA NobodyWorksOnOver ==
  ASSUME Bookkeeping, NEW r \in Requests, call[r].at \in FinalizeSteps
  PROVE  call[r].target \in Sessions /\ ~Over(call[r].target)
<1>1. /\ call[r].target \in Sessions
      /\ call[r].began <= expires[call[r].target]
      /\ now <= call[r].began + HandlerTime
  BY DEF Bookkeeping, WorksOnIssued, OnTime, FinalizeSteps
<1>2. now \in Nat /\ call[r].began \in Nat /\ expires[call[r].target] \in Nat
  BY <1>1 DEF Bookkeeping, TypeOK, Calls
<1>3. QED
  BY <1>1, <1>2, TimeAssumption DEF Over

-----------------------------------------------------------------------------
(***************************************************************************)
(* The server's steps keep the invariant.                                  *)
(***************************************************************************)
LEMMA ServeTimes ==
  ASSUME SystemInv, Bookkeeping', Serve
  PROVE  TimesNoted'
<1> USE DEF SystemInv
<1>1. [Next]_vars
  BY ServeIsNext
<1>2. /\ now \in Nat /\ now' \in Nat /\ expires \in [Sessions -> Nat]
      /\ initiated \in [Sessions -> Nat] /\ modified \in [Sessions -> Nat]
      /\ UploadExpiry \in Nat
  BY TimeAssumption DEF Bookkeeping, TypeOK, SystemTypeOK
<1>a. \A s \in Sessions :
        initiated'[s] = IF upload[s] = "none" /\ upload'[s] = "open" THEN now ELSE initiated[s]
  BY DEF Serve, NoteTimes, PutAgain, PutObject
<1>b. ASSUME NEW s \in Sessions
      PROVE  \/ object'[s] = object[s] /\ modified'[s] = modified[s]
             \/ token[s] = "issued" /\ UNCHANGED <<now, expires>> /\ modified'[s] = now
             \/ /\ s \in Multipart /\ upload[s] = "open" /\ UNCHANGED <<now, expires>>
                /\ modified'[s] = initiated[s]
  <2>1. CASE NoteTimes
    <3>1. CASE object'[s] = object[s]
      BY <2>1, <3>1 DEF NoteTimes
    <3>2. CASE object'[s] # object[s]
      <4>1. /\ token[s] = "issued" /\ object'[s] # "absent" /\ UNCHANGED <<now, expires>>
            /\ s \in Multipart => upload[s] = "open"
        BY <1>1, <3>2, NextObjects
      <4>2. initiated'[s] = initiated[s] \/ s \notin Multipart
        BY <1>a, <4>1
      <4>3. \/ modified'[s] = now
            \/ s \in Multipart /\ modified'[s] = initiated[s]
        BY <2>1, <3>2, <4>1, <4>2 DEF NoteTimes
      <4>4. QED
        BY <4>1, <4>3
    <3>3. QED
      BY <3>1, <3>2
  <2>2. ASSUME NEW x \in Sessions, PutAgain(x)
        PROVE  \/ object'[s] = object[s] /\ modified'[s] = modified[s]
               \/ token[s] = "issued" /\ UNCHANGED <<now, expires>> /\ modified'[s] = now
    BY <1>2, <2>2 DEF PutAgain, PutObject, Store, UrlValid, tokens, Bookkeeping, TypeOK
  <2>3. QED
    BY <2>1, <2>2 DEF Serve
<1>3. ASSUME NEW s \in Sessions, token'[s] # "none"
      PROVE  expires'[s] <= now' + UploadExpiry
  BY <1>1, <1>2, <1>3, NextClock DEF TimesNoted
<1>4. ASSUME NEW s \in Multipart, upload'[s] = "open"
      PROVE  expires'[s] <= initiated'[s] + UploadExpiry
  <2>0. s \in Sessions
    BY SessionsAssumption
  <2>1. CASE upload[s] = "open"
    <3>1. token[s] # "none" /\ initiated'[s] = initiated[s]
      BY <1>a, <2>0, <2>1 DEF Bookkeeping, FreshIsEmpty
    <3>2. QED
      BY <1>1, <2>0, <2>1, <3>1, NextClock DEF TimesNoted
  <2>2. CASE upload[s] # "open"
    <3>1. /\ upload[s] = "none" /\ token[s] = "minting"
          /\ UNCHANGED <<now, expires>>
      BY <1>1, <1>4, <2>0, <2>2, NextUploads
    <3>2. initiated'[s] = now
      BY <1>a, <1>4, <2>0, <3>1
    <3>3. QED
      BY <2>0, <3>1, <3>2 DEF TimesNoted
  <2>3. QED
    BY <2>1, <2>2
<1>5. ASSUME NEW s \in Sessions, object'[s] # "absent"
      PROVE  expires'[s] <= modified'[s] + UploadExpiry
  <2>1. CASE object'[s] = object[s] /\ modified'[s] = modified[s]
    <3>1. token[s] # "none"
      BY <1>5, <2>1 DEF Bookkeeping, StoredMeansCompleted
    <3>2. QED
      BY <1>1, <1>5, <2>1, <3>1, NextClock DEF TimesNoted
  <2>2. CASE token[s] = "issued" /\ UNCHANGED <<now, expires>> /\ modified'[s] = now
    BY <2>2 DEF TimesNoted
  <2>3. CASE /\ s \in Multipart /\ upload[s] = "open" /\ UNCHANGED <<now, expires>>
             /\ modified'[s] = initiated[s]
    BY <2>3 DEF TimesNoted
  <2>4. QED
    BY <1>b, <2>1, <2>2, <2>3
<1>6. QED
  BY <1>3, <1>4, <1>5 DEF TimesNoted

LEMMA ServeJobs ==
  ASSUME SystemInv, Bookkeeping', Serve
  PROVE  JobsSound'
<1> USE DEF SystemInv
<1>1. [Next]_vars /\ job' = job
  BY ServeIsNext
<1>2. job \in [Jobs -> JobFrames]
  BY DEF SystemTypeOK
<1>3. \A s \in Sessions : Over(s) => Over(s)' /\ tracked'[s] = tracked[s]
  BY <1>1, OverStays
<1>4. \A s \in Sessions : Spent(s) => Spent(s)'
  BY <1>1, SpentStays
<1>5. \A s \in Sessions : object[s] # "absent" => object'[s] # "absent"
  BY <1>1, ObjectStays
<1>6. \A f \in JobFrames : f.clock <= now => f.clock <= now'
  BY <1>1, NextClock DEF JobFrames, Bookkeeping, TypeOK
<1>7. ASSUME NEW f \in JobFrames, CleanerSound(f)
      PROVE  CleanerSound(f)'
  <2>1. f.todo \subseteq Sessions /\ f.doomed \subseteq Sessions
    BY DEF JobFrames
  <2>2. QED
    BY <1>3, <1>4, <1>5, <1>6, <1>7, <2>1 DEF CleanerSound
<1>8. ASSUME NEW f \in JobFrames, ReconcilerSound(f)
      PROVE  ReconcilerSound(f)'
  <2>1. f.todo \subseteq Sessions /\ f.doomed \subseteq Sessions
    BY DEF JobFrames
  <2>2. QED
    BY <1>3, <1>6, <1>8, <2>1 DEF ReconcilerSound
<1>9. QED
  BY <1>1, <1>2, <1>7, <1>8 DEF JobsSound, Jobs

LEMMA ServeKeepsVerified ==
  ASSUME SystemInv, Bookkeeping', Serve
  PROVE  VerifiedKept' /\ RecordedSurvives'
<1> USE DEF SystemInv
<1>1. [Next]_vars
  BY ServeIsNext
<1>2. \A s \in Sessions : RetentionEnded(s) => RetentionEnded(s)'
  BY <1>1, RetentionStep
<1>3. \A s \in Sessions :
        object[s] # "absent" /\ (s \in Multipart => object[s] = "whole")
          => object'[s] # "absent" /\ (s \in Multipart => object'[s] = "whole")
  BY <1>1, ObjectStays
<1>4. ASSUME NEW r \in Requests, NEW s \in Sessions, Verifying(r, s)', ~RetentionEnded(s)'
      PROVE  object'[s] # "absent" /\ (s \in Multipart => object'[s] = "whole")
  <2>1. Verifying(r, s) \/ object[s] = "whole"
    BY <1>1, <1>4, VerifiedBySight
  <2>2. QED
    BY <1>2, <1>3, <1>4, <2>1 DEF VerifiedKept
<1>5. ASSUME NEW s \in Sessions, tracked'[s], ~RetentionEnded(s)'
      PROVE  object'[s] # "absent" /\ (s \in Multipart => object'[s] = "whole")
  <2>1. CASE tracked[s]
    BY <1>2, <1>3, <1>5, <2>1 DEF RecordedSurvives
  <2>2. CASE ~tracked[s]
    <3>1. PICK r \in Requests : Verifying(r, s)
      BY <1>1, <1>5, <2>2, TrackedGrows DEF Verifying
    <3>2. QED
      BY <1>2, <1>3, <1>5, <3>1 DEF VerifiedKept
  <2>3. QED
    BY <2>1, <2>2
<1>6. QED
  BY <1>4, <1>5 DEF VerifiedKept, RecordedSurvives

-----------------------------------------------------------------------------
(***************************************************************************)
(* The jobs' steps keep it too.                                            *)
(***************************************************************************)
LEMMA StepEffect ==
  ASSUME job \in [Jobs -> JobFrames], NEW j \in Jobs, NEW from, NEW to \in JobSteps,
         NEW todo \in SUBSET Sessions, NEW doomed \in SUBSET Sessions,
         Step(j, from, to, todo, doomed)
  PROVE  /\ job[j].at = from
         /\ job' \in [Jobs -> JobFrames]
         /\ job'[j] = [at |-> to, clock |-> job[j].clock, todo |-> todo, doomed |-> doomed]
         /\ \A i \in Jobs \ {j} : job'[i] = job[i]
         /\ UNCHANGED <<initiated, modified, faults>>
BY DEF Step, JobFrames

(* A job step that leaves the server alone needs to leave its own beliefs  *)
(* sound.                                                                  *)
LEMMA QuietJob ==
  ASSUME SystemInv, SystemTypeOK', NEW j \in Jobs, UNCHANGED <<vars, initiated, modified>>,
         \A i \in Jobs \ {j} : job'[i] = job[i],
         j \in Cleaners => CleanerSound(job'[j]),
         j \in Reconcilers => ReconcilerSound(job'[j])
  PROVE  SystemInv'
<1> USE DEF SystemInv
<1>1. Bookkeeping'
  BY NextBookkeeping DEF vars
<1>2. TimesNoted' /\ VerifiedKept' /\ RecordedSurvives'
  BY DEF vars, tokens, bucket, TimesNoted, VerifiedKept, Verifying, RecordedSurvives,
         RetentionEnded
<1>3. \A f : (CleanerSound(f) <=> CleanerSound(f)') /\ (ReconcilerSound(f) <=> ReconcilerSound(f)')
  BY DEF vars, tokens, bucket, CleanerSound, ReconcilerSound, Over, Spent, RetentionEnded
<1>4. JobsSound'
  BY <1>3 DEF JobsSound, Jobs
<1>5. QED
  BY <1>1, <1>2, <1>4

(* Deleting what is spent hurts nobody.                                    *)
LEMMA RemovalHurtsNobody ==
  ASSUME SystemInv, SystemTypeOK', NEW j \in Jobs, NEW gone \in SUBSET Sessions,
         \A s \in gone : Spent(s), Remove(gone), UNCHANGED <<initiated, modified>>,
         \A i \in Jobs \ {j} : job'[i] = job[i],
         job'[j].clock <= now, job'[j].at # "head", job'[j].at # "abort",
         job'[j].at # "delete", job'[j].doomed = {},
         j \in Reconcilers => \A s \in job'[j].todo : Over(s)
  PROVE  SystemInv'
<1> USE DEF SystemInv
<1>1. /\ UNCHANGED <<now, token, expires, retainUntil, upload, received, tracked, acked, call>>
      /\ \A s \in Sessions : object'[s] = IF s \in gone THEN "absent" ELSE object[s]
  BY DEF Remove, tokens
<1>2. Bookkeeping'
  BY <1>1
     DEF Bookkeeping, SystemTypeOK, BatchOwned, BatchProgress, FreshIsEmpty, WorksOnIssued,
         OnTime, AnswersAreCodes, StoredMeansCompleted, AbortedStaysClosed,
         FinalizedIsTracked, AckedIsTracked, IssuedIsUsable
<1>3. TimesNoted'
  BY <1>1 DEF TimesNoted
<1>4. \A s : (Over(s)' <=> Over(s)) /\ (Spent(s)' <=> Spent(s)) /\ (RetentionEnded(s)' <=> RetentionEnded(s))
  BY <1>1 DEF Over, Spent, RetentionEnded
<1>5. VerifiedKept'
  <2> SUFFICES ASSUME NEW r \in Requests, NEW s \in Sessions, Verifying(r, s), ~RetentionEnded(s)
               PROVE  object'[s] # "absent" /\ (s \in Multipart => object'[s] = "whole")
    BY <1>1, <1>4 DEF VerifiedKept, Verifying
  <2>1. ~Over(s)
    BY NobodyWorksOnOver DEF Verifying, FinalizeSteps
  <2>2. QED
    BY <1>1, <2>1 DEF VerifiedKept, Spent
<1>6. RecordedSurvives'
  BY <1>1, <1>4 DEF RecordedSurvives, Spent
<1>7. ASSUME NEW i \in Cleaners PROVE CleanerSound(job[i])'
  <2>1. CASE i = j
    BY <1>1, <1>4, <2>1 DEF CleanerSound
  <2>2. CASE i # j
    <3>1. CleanerSound(job[i]) /\ job'[i] = job[i]
      BY <2>2 DEF JobsSound, Jobs
    <3>2. job[i].todo \subseteq Sessions
      BY DEF SystemTypeOK, JobFrames, Jobs
    <3>3. QED
      BY <1>1, <1>4, <3>1, <3>2 DEF CleanerSound
  <2>3. QED
    BY <2>1, <2>2
<1>8. ASSUME NEW i \in Reconcilers PROVE ReconcilerSound(job[i])'
  <2>1. CASE i = j
    BY <1>1, <1>4, <2>1 DEF ReconcilerSound
  <2>2. CASE i # j
    <3>1. ReconcilerSound(job[i]) /\ job'[i] = job[i]
      BY <2>2 DEF JobsSound, Jobs
    <3>2. QED
      BY <1>1, <1>4, <3>1 DEF ReconcilerSound
  <2>3. QED
    BY <2>1, <2>2
<1>9. JobsSound'
  BY <1>7, <1>8 DEF JobsSound
<1>10. QED
  BY <1>2, <1>3, <1>5, <1>6, <1>9

(* Nor does aborting the upload of a session.                              *)
LEMMA AbortHurtsNobody ==
  ASSUME SystemInv, SystemTypeOK', NEW j \in Cleaners, NEW s \in Sessions,
         AbortOld(j, s), upload[s] = "open"
  PROVE  SystemInv'
<1> USE DEF SystemInv
<1>1. /\ j \in Jobs /\ j \notin Reconcilers
      /\ job \in [Jobs -> JobFrames] /\ job[j] \in JobFrames
      /\ CleanerSound(job[j])
  BY JobsAssumption DEF Jobs, JobsSound, SystemTypeOK
<1>2. /\ job[j].at = "abort" /\ job'[j].at = "abort"
      /\ job'[j].clock = job[j].clock /\ job'[j].doomed = {}
      /\ job'[j].todo = job[j].todo \ {s}
      /\ \A i \in Jobs \ {j} : job'[i] = job[i]
      /\ UNCHANGED <<initiated, modified>>
  BY <1>1 DEF AbortOld, Step
<1>3. /\ UNCHANGED <<now, token, expires, retainUntil, object, tracked, acked, call>>
      /\ \A x \in Sessions : upload'[x] = IF x = s THEN "aborted" ELSE upload[x]
      /\ object[s] = "absent" \/ s \notin Multipart
  BY DEF AbortOld, tokens, SystemTypeOK, TypeOK, Bookkeeping, StoredMeansCompleted
<1>4. Bookkeeping'
  <2>1. \A r \in Requests : /\ call[r].batch \subseteq Sessions /\ call[r].todo \subseteq Sessions
                            /\ call[r].target \in Sessions \cup {NoSession}
    BY DEF SystemTypeOK, TypeOK, Calls
  <2>2. BatchOwned' /\ WorksOnIssued' /\ OnTime' /\ AnswersAreCodes' /\ FinalizedIsTracked' /\ AckedIsTracked'
    BY <1>3 DEF Bookkeeping, BatchOwned, WorksOnIssued, OnTime, AnswersAreCodes,
                FinalizedIsTracked, AckedIsTracked
  <2>3. \A x \in Sessions : upload'[x] = "none" <=> upload[x] = "none"
    BY <1>3
  <2>4. BatchProgress' /\ FreshIsEmpty' /\ IssuedIsUsable'
    BY <1>3, <2>1, <2>3, SessionsAssumption
       DEF Bookkeeping, BatchProgress, FreshIsEmpty, IssuedIsUsable
  <2>5. StoredMeansCompleted'
    BY <1>3 DEF Bookkeeping, StoredMeansCompleted
  <2>6. AbortedStaysClosed'
    BY <1>3, SessionsAssumption DEF Bookkeeping, AbortedStaysClosed
  <2>7. QED
    BY <2>2, <2>4, <2>5, <2>6 DEF Bookkeeping, SystemTypeOK
<1>5. TimesNoted'
  BY <1>2, <1>3, SessionsAssumption DEF TimesNoted
<1>6. \A x : (Over(x)' <=> Over(x)) /\ (Spent(x)' <=> Spent(x)) /\ (RetentionEnded(x)' <=> RetentionEnded(x))
  BY <1>3 DEF Over, Spent, RetentionEnded
<1>7. VerifiedKept' /\ RecordedSurvives'
  BY <1>3, <1>6 DEF VerifiedKept, Verifying, RecordedSurvives, RetentionEnded
<1>8. ASSUME NEW i \in Cleaners PROVE CleanerSound(job[i])'
  <2>1. CASE i = j
    BY <1>1, <1>2, <1>3, <1>6, <2>1 DEF CleanerSound
  <2>2. CASE i # j
    BY <1>2, <1>3, <1>6, <2>2 DEF JobsSound, Jobs, CleanerSound
  <2>3. QED
    BY <2>1, <2>2
<1>9. ASSUME NEW i \in Reconcilers PROVE ReconcilerSound(job[i])'
  BY <1>1, <1>2, <1>3, <1>6 DEF JobsSound, Jobs, ReconcilerSound
<1>10. QED
  BY <1>4, <1>5, <1>7, <1>8, <1>9 DEF JobsSound

(* Types of the jobs' steps.                                               *)
LEMMA SystemNextTypeOK ==
  ASSUME SystemTypeOK, Bookkeeping, [SystemNext]_systemVars
  PROVE  SystemTypeOK'
<1> USE DEF SystemTypeOK
<1>1. CASE Serve
  <2>1. [Next]_vars /\ UNCHANGED <<job, faults>>
    BY <1>1, ServeIsNext
  <2>2. TypeOK'
    BY <2>1, NextTypeOK
  <2>3. initiated' \in [Sessions -> Nat] /\ modified' \in [Sessions -> Nat]
    BY <1>1 DEF Serve, NoteTimes, PutAgain, TypeOK
  <2>4. QED
    BY <2>1, <2>2, <2>3
<1>2. ASSUME NEW j \in Jobs, Start(j) PROVE SystemTypeOK'
  BY <1>2, NextTypeOK DEF Start, Asleep, JobFrames, JobSteps, TypeOK, vars
<1>3. ASSUME NEW j \in Jobs, JobFails(j) PROVE SystemTypeOK'
  BY <1>3, NextTypeOK DEF JobFails, Asleep, JobFrames, JobSteps, TypeOK, vars
<1>4. ASSUME NEW j \in Jobs, DeleteFails(j) PROVE SystemTypeOK'
  BY <1>4 DEF DeleteFails, Remove, Asleep, JobFrames, JobSteps, TypeOK, tokens
<1>5. ASSUME NEW j \in Cleaners, CleanupStep(j) PROVE SystemTypeOK'
  <2>0. j \in Jobs /\ job[j] \in JobFrames
    BY DEF Jobs
  <2>1. job' \in [Jobs -> JobFrames] /\ UNCHANGED <<initiated, modified, faults>>
    BY <1>5, <2>0, SessionsAssumption
       DEF CleanupStep, ListTemporary, HeadTemporary, HeadedTemporary, DeleteExpired,
           ListUploads, AbortOld, AbortedOld, Look, Step, JobFrames, JobSteps
  <2>2. TypeOK'
    BY <1>5, SessionsAssumption
       DEF CleanupStep, ListTemporary, HeadTemporary, HeadedTemporary, DeleteExpired,
           ListUploads, AbortOld, AbortedOld, Look, Remove, vars, tokens, bucket, TypeOK
  <2>3. QED
    BY <2>1, <2>2
<1>6. ASSUME NEW j \in Reconcilers, ReconcileStep(j) PROVE SystemTypeOK'
  <2>0. j \in Jobs /\ job[j] \in JobFrames
    BY DEF Jobs
  <2>1. job' \in [Jobs -> JobFrames] /\ UNCHANGED <<initiated, modified, faults>>
    BY <1>6, <2>0
       DEF ReconcileStep, ListStored, HeadStored, HeadedStored, CheckTracked,
           DeleteOrphans, CheckedAll, Look, Step, JobFrames, JobSteps
  <2>2. TypeOK'
    BY <1>6
       DEF ReconcileStep, ListStored, HeadStored, HeadedStored, CheckTracked,
           DeleteOrphans, CheckedAll, Look, Remove, vars, tokens, bucket, TypeOK
  <2>3. QED
    BY <2>1, <2>2
<1>7. CASE UNCHANGED systemVars
  BY <1>7, NextTypeOK DEF systemVars
<1>8. QED
  BY <1>1, <1>2, <1>3, <1>4, <1>5, <1>6, <1>7 DEF SystemNext, RunJobs

(* Cleanup's steps.                                                        *)
LEMMA CleanupStepSound ==
  ASSUME SystemInv, SystemTypeOK', SafeWindows, NEW j \in Cleaners, CleanupStep(j)
  PROVE  SystemInv'
<1> USE DEF SystemInv, SystemTypeOK
<1>1. /\ j \in Jobs /\ j \notin Reconcilers
      /\ job \in [Jobs -> JobFrames] /\ job[j] \in JobFrames
      /\ CleanerSound(job[j])
      /\ \A i \in Jobs \ {j} : job'[i] = job[i]
      /\ UNCHANGED <<initiated, modified, faults>>
  BY JobsAssumption
     DEF Jobs, JobsSound, CleanupStep, ListTemporary, HeadTemporary, HeadedTemporary,
         DeleteExpired, ListUploads, AbortOld, AbortedOld, Look, Step
<1>2. ASSUME UNCHANGED vars, CleanerSound(job'[j]) PROVE SystemInv'
  BY <1>1, <1>2, QuietJob
<1>3. CASE ListTemporary(j)
  <2>1. /\ job'[j].clock = job[j].clock /\ job'[j].at = "head" /\ job'[j].doomed = {}
        /\ \A s \in job'[j].todo : s \in Temporary /\ object[s] # "absent"
        /\ UNCHANGED vars
    BY <1>1, <1>3 DEF ListTemporary, Look, Step
  <2>2. QED
    BY <1>1, <1>2, <2>1 DEF CleanerSound
<1>4. ASSUME NEW s \in Sessions, HeadTemporary(j, s) PROVE SystemInv'
  <2>1. PICK doomed \in {job[j].doomed, job[j].doomed \cup {s}} :
          /\ object[s] # "absent" => (s \in doomed <=> retainUntil[s] <= job[j].clock)
          /\ Look(j, "head", "head", job[j].todo \ {s}, doomed)
    BY <1>4 DEF HeadTemporary
  <2>2. /\ job'[j].clock = job[j].clock /\ job'[j].at = "head" /\ job'[j].doomed = doomed
        /\ job'[j].todo = job[j].todo \ {s} /\ job[j].at = "head"
        /\ UNCHANGED vars
    BY <1>1, <2>1 DEF Look, Step
  <2>3. s \in Temporary /\ (object[s] # "absent" \/ Spent(s))
    BY <1>1, <1>4, <2>2 DEF CleanerSound, HeadTemporary
  <2>4. s \in doomed => Spent(s)
    <3>1. CASE object[s] # "absent" /\ s \in doomed
      <4>1. retainUntil[s] <= job[j].clock /\ job[j].clock <= now
        BY <1>1, <2>1, <3>1 DEF CleanerSound
      <4>2. now \in Nat /\ retainUntil[s] \in Nat /\ job[j].clock \in Nat
        BY <1>1 DEF TypeOK, JobFrames
      <4>3. token[s] \in {"issued", "lost"}
        BY <3>1 DEF Bookkeeping, StoredMeansCompleted
      <4>4. QED
        BY <2>3, <4>1, <4>2, <4>3 DEF Spent, RetentionEnded
    <3>2. QED
      BY <2>3, <3>1
  <2>5. QED
    BY <1>1, <1>2, <2>2, <2>4 DEF CleanerSound
<1>5. CASE HeadedTemporary(j)
  <2>1. /\ job'[j].clock = job[j].clock /\ job'[j].at = "delete"
        /\ job'[j].todo = {} /\ job'[j].doomed = job[j].doomed
        /\ UNCHANGED vars
    BY <1>1, <1>5 DEF HeadedTemporary, Look, Step
  <2>2. QED
    BY <1>1, <1>2, <2>1 DEF CleanerSound
<1>6. CASE DeleteExpired(j)
  <2>1. /\ job'[j].clock = job[j].clock /\ job'[j].at = "uploads"
        /\ job'[j].todo = {} /\ job'[j].doomed = {}
        /\ Remove(job[j].doomed)
    BY <1>1, <1>6 DEF DeleteExpired, Step
  <2>2. job[j].doomed \in SUBSET Sessions /\ \A s \in job[j].doomed : Spent(s)
    BY <1>1 DEF CleanerSound, JobFrames
  <2>3. job'[j].clock <= now
    BY <1>1, <2>1 DEF CleanerSound
  <2>4. QED
    BY <1>1, <2>1, <2>2, <2>3, RemovalHurtsNobody
<1>7. CASE ListUploads(j)
  <2>1. /\ job'[j].clock = job[j].clock /\ job'[j].at = "abort" /\ job'[j].doomed = {}
        /\ \A s \in job'[j].todo : s \in Multipart /\ upload[s] = "open" /\ OldUpload(j, s)
        /\ UNCHANGED vars
    BY <1>1, <1>7 DEF ListUploads, Look, Step
  <2>2. ASSUME NEW s \in Multipart, upload[s] = "open", OldUpload(j, s), s \notin Undated
        PROVE  Over(s)
    <3>0. job[j].clock - initiated[s] >= MultipartSafety
      BY <2>2 DEF OldUpload
    <3>1. s \in Sessions
      BY SessionsAssumption
    <3>2. token[s] # "none"
      BY <2>2, <3>1 DEF Bookkeeping, FreshIsEmpty
    <3>3. expires[s] <= initiated[s] + UploadExpiry
      BY <2>2 DEF TimesNoted
    <3>4. job[j].clock <= now
      BY <1>1 DEF CleanerSound
    <3>5. /\ now \in Nat /\ expires[s] \in Nat /\ initiated[s] \in Nat /\ job[j].clock \in Nat
          /\ UploadExpiry \in Nat /\ HandlerTime \in Nat /\ MultipartSafety \in Nat
      BY <1>1, <3>1, TimeAssumption, JobsAssumption DEF TypeOK, JobFrames
    <3>6. MultipartSafety > UploadExpiry + HandlerTime
      BY DEF SafeWindows
    <3>7. now > expires[s] + HandlerTime
      BY <3>0, <3>3, <3>4, <3>5, <3>6
    <3>8. QED
      BY <3>2, <3>7 DEF Over
  <2>3. QED
    BY <1>1, <1>2, <2>1, <2>2 DEF CleanerSound
<1>8. ASSUME NEW s \in Sessions, AbortOld(j, s), upload[s] # "open" PROVE SystemInv'
  <2>1. /\ job'[j].clock = job[j].clock /\ job'[j].at = "asleep"
        /\ job'[j].todo = {} /\ job'[j].doomed = {} /\ UNCHANGED vars
    BY <1>1, <1>8 DEF AbortOld, Look, Step
  <2>2. QED
    BY <1>1, <1>2, <2>1 DEF CleanerSound
<1>9. ASSUME NEW s \in Sessions, AbortOld(j, s), upload[s] = "open" PROVE SystemInv'
  BY <1>1, <1>9, AbortHurtsNobody
<1>10. CASE AbortedOld(j)
  <2>1. /\ job'[j].clock = job[j].clock /\ job'[j].at = "asleep"
        /\ job'[j].todo = {} /\ job'[j].doomed = {} /\ UNCHANGED vars
    BY <1>1, <1>10 DEF AbortedOld, Look, Step
  <2>2. QED
    BY <1>1, <1>2, <2>1 DEF CleanerSound
<1>11. QED
  BY <1>3, <1>4, <1>5, <1>6, <1>7, <1>8, <1>9, <1>10 DEF CleanupStep

(* Reconcile's steps.                                                      *)
LEMMA ReconcileStepSound ==
  ASSUME SystemInv, SystemTypeOK', SafeWindows, NEW j \in Reconcilers, ReconcileStep(j)
  PROVE  SystemInv'
<1> USE DEF SystemInv, SystemTypeOK
<1>1. /\ j \in Jobs /\ j \notin Cleaners
      /\ job \in [Jobs -> JobFrames] /\ job[j] \in JobFrames
      /\ ReconcilerSound(job[j])
      /\ \A i \in Jobs \ {j} : job'[i] = job[i]
      /\ UNCHANGED <<initiated, modified, faults>>
  BY JobsAssumption
     DEF Jobs, JobsSound, ReconcileStep, ListStored, HeadStored, HeadedStored,
         CheckTracked, DeleteOrphans, CheckedAll, Look, Step
<1>2. ASSUME UNCHANGED vars, ReconcilerSound(job'[j]) PROVE SystemInv'
  BY <1>1, <1>2, QuietJob
<1>3. CASE ListStored(j)
  <2>1. /\ job'[j].clock = job[j].clock /\ job'[j].at = "head" /\ job'[j].doomed = {}
        /\ \A s \in job'[j].todo : s \in Sessions /\ object[s] # "absent" /\ OldObject(j, s)
        /\ UNCHANGED vars
    BY <1>1, <1>3 DEF ListStored, Look, Step
  <2>2. ASSUME NEW s \in Sessions, object[s] # "absent", OldObject(j, s)
        PROVE  Over(s)
    <3>0. job[j].clock - modified[s] >= ReconcileSafety
      BY <2>2 DEF OldObject
    <3>1. token[s] # "none"
      BY <2>2 DEF Bookkeeping, StoredMeansCompleted
    <3>2. expires[s] <= modified[s] + UploadExpiry
      BY <2>2 DEF TimesNoted
    <3>3. job[j].clock <= now
      BY <1>1 DEF ReconcilerSound
    <3>4. /\ now \in Nat /\ expires[s] \in Nat /\ modified[s] \in Nat /\ job[j].clock \in Nat
          /\ UploadExpiry \in Nat /\ HandlerTime \in Nat /\ ReconcileSafety \in Nat
      BY <1>1, TimeAssumption, JobsAssumption DEF TypeOK, JobFrames
    <3>5. ReconcileSafety > UploadExpiry + HandlerTime
      BY DEF SafeWindows
    <3>6. now > expires[s] + HandlerTime
      BY <3>0, <3>2, <3>3, <3>4, <3>5
    <3>7. QED
      BY <3>1, <3>6 DEF Over
  <2>3. QED
    BY <1>1, <1>2, <2>1, <2>2 DEF ReconcilerSound
<1>4. ASSUME NEW s \in Sessions, HeadStored(j, s) PROVE SystemInv'
  <2>1. /\ job'[j].clock = job[j].clock /\ job'[j].at = "head"
        /\ job'[j].todo \subseteq job[j].todo /\ s \in job[j].todo
        /\ job'[j].doomed \subseteq job[j].doomed \cup {s}
        /\ UNCHANGED vars
    BY <1>1, <1>4 DEF HeadStored, Look, Step
  <2>2. QED
    BY <1>1, <1>2, <2>1 DEF ReconcilerSound
<1>5. CASE HeadedStored(j) \/ CheckedAll(j)
  <2>1. /\ job'[j].clock = job[j].clock /\ job'[j].at \in {"check", "asleep"}
        /\ job'[j].todo \cup job'[j].doomed \subseteq job[j].todo \cup job[j].doomed
        /\ UNCHANGED vars
    BY <1>1, <1>5 DEF HeadedStored, CheckedAll, Look, Step
  <2>2. QED
    BY <1>1, <1>2, <2>1 DEF ReconcilerSound
<1>6. ASSUME NEW batch \in SUBSET Sessions, CheckTracked(j, batch) PROVE SystemInv'
  <2>1. /\ job'[j].clock = job[j].clock /\ job'[j].at = "delete"
        /\ job'[j].todo \subseteq job[j].todo /\ batch \subseteq job[j].todo
        /\ job'[j].doomed = {s \in batch : ~tracked[s]}
        /\ UNCHANGED vars
    BY <1>1, <1>6 DEF CheckTracked, Look, Step
  <2>2. QED
    BY <1>1, <1>2, <2>1 DEF ReconcilerSound
<1>7. CASE DeleteOrphans(j)
  <2>1. /\ job[j].at = "delete" /\ job'[j].at = "check"
        /\ job'[j].clock = job[j].clock /\ job'[j].doomed = {}
        /\ job'[j].todo = job[j].todo
        /\ Remove(job[j].doomed)
    BY <1>1, <1>7 DEF DeleteOrphans, Step
  <2>2. job[j].doomed \in SUBSET Sessions /\ \A s \in job[j].doomed : Spent(s)
    BY <1>1, <2>1 DEF ReconcilerSound, JobFrames, Spent
  <2>3. job'[j].clock <= now /\ \A s \in job'[j].todo : Over(s)
    BY <1>1, <2>1 DEF ReconcilerSound
  <2>4. QED
    BY <1>1, <2>1, <2>2, <2>3, RemovalHurtsNobody
<1>8. QED
  BY <1>3, <1>4, <1>5, <1>6, <1>7 DEF ReconcileStep

(* Starts and failures of either job.                                      *)
LEMMA StartStopSound ==
  ASSUME SystemInv, SystemTypeOK', NEW j \in Jobs,
         Start(j) \/ JobFails(j) \/ DeleteFails(j)
  PROVE  SystemInv'
<1> USE DEF SystemInv, SystemTypeOK
<1>1. /\ job \in [Jobs -> JobFrames] /\ job[j] \in JobFrames /\ now \in Nat
      /\ \A i \in Jobs \ {j} : job'[i] = job[i]
      /\ UNCHANGED <<initiated, modified>>
  BY DEF Start, JobFails, DeleteFails, TypeOK
<1>2. /\ job'[j].clock \in {0, now} /\ job'[j].at \in {"list", "asleep"}
      /\ job'[j].todo = {} /\ job'[j].doomed = {}
  <2>1. CASE Start(j)
    BY <1>1, <2>1 DEF Start, Asleep
  <2>2. CASE JobFails(j) \/ DeleteFails(j)
    BY <1>1, <2>2 DEF JobFails, DeleteFails, Asleep
  <2>3. QED
    BY <2>1, <2>2
<1>3. job'[j].clock <= now
  BY <1>1, <1>2
<1>4. CASE Start(j) \/ JobFails(j)
  <2>1. UNCHANGED vars
    BY <1>4 DEF Start, JobFails
  <2>2. CleanerSound(job'[j]) /\ ReconcilerSound(job'[j])
    BY <1>2, <1>3 DEF CleanerSound, ReconcilerSound
  <2>3. QED
    BY <1>1, <2>1, <2>2, QuietJob
<1>5. CASE DeleteFails(j)
  <2>1. PICK gone \in SUBSET job[j].doomed : Remove(gone)
    BY <1>5 DEF DeleteFails
  <2>2. job[j].at = "delete" /\ gone \in SUBSET Sessions
    BY <1>1, <1>5, <2>1 DEF DeleteFails, JobFrames
  <2>3. \A s \in job[j].doomed : Spent(s)
    BY <1>1, <2>2 DEF Jobs, JobsSound, CleanerSound, ReconcilerSound, Spent
  <2>4. QED
    BY <1>1, <1>2, <1>3, <2>1, <2>2, <2>3, RemovalHurtsNobody
<1>6. QED
  BY <1>4, <1>5

LEMMA SystemNextInv ==
  ASSUME SystemInv, [SystemNext]_systemVars, SafeWindows
  PROVE  SystemInv'
<1>1. SystemTypeOK'
  BY SystemNextTypeOK DEF SystemInv
<1>2. CASE Serve
  <2>1. Bookkeeping'
    BY <1>2, ServeIsNext, NextBookkeeping DEF SystemInv
  <2>2. QED
    BY <1>1, <1>2, <2>1, ServeTimes, ServeJobs, ServeKeepsVerified DEF SystemInv
<1>3. CASE RunJobs
  BY <1>1, <1>3, StartStopSound, CleanupStepSound, ReconcileStepSound DEF RunJobs
<1>4. CASE UNCHANGED systemVars
  <2>1. UNCHANGED <<vars, initiated, modified, job>>
    BY <1>4 DEF systemVars
  <2>2. Bookkeeping'
    BY <2>1, NextBookkeeping DEF SystemInv
  <2>3. TimesNoted' /\ JobsSound' /\ VerifiedKept' /\ RecordedSurvives'
    BY <2>1 DEF SystemInv, vars, tokens, bucket, TimesNoted, JobsSound, CleanerSound,
                ReconcilerSound, Over, Spent, RetentionEnded, VerifiedKept, Verifying,
                RecordedSurvives
  <2>4. QED
    BY <1>1, <2>2, <2>3 DEF SystemInv
<1>5. QED
  BY <1>2, <1>3, <1>4 DEF SystemNext

LEMMA SystemInitInv == SystemInit => SystemInv
<1> SUFFICES ASSUME SystemInit PROVE SystemInv
  OBVIOUS
<1>1. Bookkeeping /\ TypeOK
  BY InitBookkeeping DEF SystemInit, Bookkeeping
<1>2. SystemTypeOK /\ JobsSound
  BY <1>1 DEF SystemInit, SystemTypeOK, JobsSound, CleanerSound, ReconcilerSound,
              Asleep, JobFrames, JobSteps, Jobs, TypeOK
<1>3. TimesNoted /\ VerifiedKept /\ RecordedSurvives
  BY SessionsAssumption
     DEF SystemInit, Init, Idle, TimesNoted, VerifiedKept, Verifying, RecordedSurvives
<1>4. QED
  BY <1>1, <1>2, <1>3 DEF SystemInv

-----------------------------------------------------------------------------
(* With safe windows, the system's invariant holds in every reachable      *)
(* state.                                                                  *)
THEOREM SystemInvariance ==
  ASSUME SafeWindows
  PROVE  SystemSpec => []SystemInv
<1>1. SystemInv /\ [SystemNext]_systemVars => SystemInv'
  BY SystemNextInv
<1>2. QED
  BY <1>1, SystemInitInv, PTL DEF SystemSpec

(* With safe windows, no file an application recorded is deleted before    *)
(* its retention ends, whatever the jobs had read of it.                   *)
THEOREM RecordedFilesSurvive ==
  ASSUME SafeWindows
  PROVE  SystemSpec => []RecordedSurvives
<1>1. SystemInv => RecordedSurvives
  BY DEF SystemInv
<1>2. QED
  BY <1>1, SystemInvariance, PTL

(* With safe windows, the jobs abort uploads of ended sessions only, and   *)
(* those of which the bucket does not say when they were initiated.        *)
THEOREM LiveUploadsKept ==
  ASSUME SafeWindows
  PROVE  SystemSpec => LiveUploadKept
<1>1. SystemInv /\ [SystemNext]_systemVars
        => [\A s \in Multipart \ Undated :
              upload[s] = "open" /\ upload'[s] = "aborted" /\ call' = call
                => now > expires[s] + HandlerTime]_systemVars
  <2> SUFFICES ASSUME SystemInv, SystemNext, NEW s \in Multipart \ Undated,
                      upload[s] = "open", upload'[s] = "aborted", call' = call
               PROVE  Over(s)
    BY DEF systemVars, vars, bucket, Over
  <2> USE DEF SystemInv
  <2>1. s \in Sessions /\ s \notin Undated
    BY SessionsAssumption
  <2>2. CASE Serve
    BY <2>1, <2>2, ServeIsNext, OnlyRequestsAbort
  <2>3. ASSUME NEW j \in Cleaners, NEW x \in Sessions, AbortOld(j, x) PROVE Over(s)
    <3>1. x = s
      BY <2>1, <2>3 DEF AbortOld, Look, vars, bucket, SystemTypeOK, TypeOK
    <3>2. job[j].at = "abort" /\ s \in job[j].todo
      BY <2>3, <3>1 DEF AbortOld, Look, Step
    <3>3. QED
      BY <2>1, <3>2 DEF JobsSound, CleanerSound
  <2>4. CASE UNCHANGED upload
    BY <2>4
  <2>5. QED
    BY <2>2, <2>3, <2>4
       DEF SystemNext, RunJobs, Start, JobFails, DeleteFails, CleanupStep, ReconcileStep,
           ListTemporary, HeadTemporary, HeadedTemporary, DeleteExpired, ListUploads,
           AbortedOld, ListStored, HeadStored, HeadedStored, CheckTracked, DeleteOrphans,
           CheckedAll, Look, Remove, vars, bucket
<1>2. QED
  BY <1>1, SystemInvariance, PTL DEF SystemSpec, LiveUploadKept

(* What a job deletes has no record that counts, so nobody is told.        *)
LEMMA RemovalIsDiscard ==
  ASSUME SystemInv, NEW gone \in SUBSET Sessions, \A s \in gone : Spent(s), Remove(gone)
  PROVE  Contract!Discard
<1> USE DEF SystemInv
<1> DEFINE rec == [s \in Sessions |-> Record(s)]
<1>1. \A s \in Sessions : Record(s)' = Record(s)
  BY DEF Remove, tokens, Record, RetentionEnded, Verified, Verifying
<1>2. rec' = rec
  BY <1>1
<1>3. ASSUME NEW s \in gone PROVE Record(s) \in {"none", "expired"}
  <2>1. CASE RetentionEnded(s)
    BY <2>1 DEF Record
  <2>2. CASE ~RetentionEnded(s)
    <3>1. Over(s) /\ ~tracked[s] /\ ~acked[s]
      BY <2>2 DEF Spent, Bookkeeping, AckedIsTracked
    <3>2. ~Verified(s)
      BY <3>1, NobodyWorksOnOver DEF Verified, Verifying, FinalizeSteps
    <3>3. QED
      BY <3>1, <3>2 DEF Record
  <2>3. QED
    BY <2>1, <2>2
<1>4. gone \in SUBSET {s \in Sessions : rec[s] \in {"none", "expired"}}
  BY <1>3
<1>5. object' = [s \in Sessions |-> IF s \in gone THEN "absent" ELSE object[s]]
  BY DEF Remove
<1>6. QED
  BY <1>2, <1>4, <1>5 DEF Contract!Discard

(* With safe windows, server and jobs together keep the contract.          *)
THEOREM SystemKeepsContract ==
  ASSUME SafeWindows
  PROVE  SystemSpec => KeepsContract
<1>1. SystemInit => Contract!Init
  BY ContractInit DEF SystemInit
<1>2. SystemInv /\ SystemInv' /\ [SystemNext]_systemVars
        => [Contract!Next]_(Contract!contractVars)
  <2> SUFFICES ASSUME SystemInv, SystemInv', [SystemNext]_systemVars
               PROVE  [Contract!Next]_(Contract!contractVars)
    OBVIOUS
  <2>1. CASE [Next]_vars
    BY <2>1, ContractStep DEF SystemInv
  <2>2. ASSUME NEW j \in Jobs, NEW gone \in SUBSET job[j].doomed, Remove(gone),
               job[j].at = "delete"
        PROVE  Contract!Discard
    <3>1. job[j].doomed \subseteq Sessions
      BY DEF SystemInv, SystemTypeOK, JobFrames
    <3>2. \A s \in job[j].doomed : Spent(s)
      BY <2>2, <3>1 DEF SystemInv, Jobs, JobsSound, CleanerSound, ReconcilerSound, Spent
    <3>3. QED
      BY <2>2, <3>1, <3>2, RemovalIsDiscard
  <2>3. ASSUME NEW j \in Cleaners, NEW x \in Sessions, AbortOld(j, x)
        PROVE  UNCHANGED Contract!contractVars
    <3>1. /\ object' = object
          /\ \A s \in Sessions : Record(s)' = Record(s)
      BY <2>3 DEF AbortOld, Look, vars, tokens, bucket, Record, RetentionEnded, Verified,
                  Verifying
    <3>2. QED
      BY <3>1 DEF Contract!contractVars
  <2>4. CASE \E j \in Jobs : DeleteFails(j)
    BY <2>2, <2>4 DEF DeleteFails, Contract!Next
  <2>5. CASE \/ \E j \in Cleaners : DeleteExpired(j)
             \/ \E j \in Reconcilers : DeleteOrphans(j)
    BY <2>2, <2>5 DEF DeleteExpired, DeleteOrphans, Step, Jobs, Contract!Next
  <2>6. CASE Serve
    BY <2>1, <2>6, ServeIsNext
  <2>7. QED
    BY <2>1, <2>3, <2>4, <2>5, <2>6
       DEF SystemNext, systemVars, RunJobs, Start, JobFails, CleanupStep,
           ReconcileStep, ListTemporary, HeadTemporary, HeadedTemporary, ListUploads,
           AbortedOld, ListStored, HeadStored, HeadedStored, CheckTracked, CheckedAll, Look
<1>3. QED
  BY <1>1, <1>2, SystemInvariance, PTL DEF SystemSpec, KeepsContract, Contract!Spec
=============================================================================
