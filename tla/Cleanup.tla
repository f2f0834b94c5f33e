------------------------------ MODULE Cleanup ------------------------------
(***************************************************************************)
(* The two maintenance jobs beside a live upload server:                   *)
(* cleanupExpiredObjects deletes temporary objects whose retention ended   *)
(* and aborts old multipart uploads; reconcileUntrackedObjects deletes the *)
(* objects the application never recorded.  A job reads the clock once,    *)
(* lists, heads and asks the application, and deletes later: everything it *)
(* acts on may have changed since it was read.                             *)
(*                                                                         *)
(* A listing is one step: the pages of one prefix are read as one.  The    *)
(* jobs keep nothing between runs; a job that throws or dies simply stops. *)
(*                                                                         *)
(* As in Uploads, XSlip is X with a mistake the named property must notice. *)
(***************************************************************************)
EXTENDS Uploads

CONSTANTS
  Cleaners,         \* concurrent runs of cleanupExpiredObjects
  Reconcilers,      \* concurrent runs of reconcileUntrackedObjects
  MultipartSafety,  \* multipartSafetyMs
  ReconcileSafety,  \* safetyMs
  DayLength,        \* length of the day in an expiry prefix (86 400 000 ms)
  MaxFaults,        \* bound on the jobs that die on the way
  Undated           \* sessions whose upload and object are listed without a time

ASSUME JobsAssumption ==
  /\ Cleaners \cap Reconcilers = {}
  /\ MultipartSafety \in Nat
  /\ ReconcileSafety \in Nat
  /\ DayLength \in Nat \ {0}
  /\ MaxFaults \in Nat
  /\ Undated \subseteq Sessions

(* What the two windows have to exceed for the jobs to be harmless: the    *)
(* life of a session and the run of a handler that started at its end.     *)
(* The code checks neither (uploadExpirySeconds may be seven days, both    *)
(* windows default to one).                                                *)
SafeWindows ==
  /\ MultipartSafety > UploadExpiry + HandlerTime
  /\ ReconcileSafety > UploadExpiry + HandlerTime

VARIABLES
  initiated,  \* when the bucket opened the session's multipart upload
  modified,   \* lastModified of the session's object
  job,        \* the jobs in progress
  faults      \* jobs that have died so far

Jobs == Cleaners \cup Reconcilers

systemVars == <<vars, initiated, modified, job, faults>>

Asleep == [at |-> "asleep", clock |-> 0, todo |-> {}, doomed |-> {}]

JobSteps == {"asleep", "list", "head", "delete", "uploads", "abort", "check"}

JobFrames == [at : JobSteps, clock : Nat, todo : SUBSET Sessions,
              doomed : SUBSET Sessions]

SystemTypeOK ==
  /\ TypeOK
  /\ initiated \in [Sessions -> Nat]
  /\ modified \in [Sessions -> Nat]
  /\ job \in [Jobs -> JobFrames]
  /\ faults \in Nat

SystemInit ==
  /\ Init
  /\ initiated = [s \in Sessions |-> 0]
  /\ modified = [s \in Sessions |-> 0]
  /\ job = [j \in Jobs |-> Asleep]
  /\ faults = 0

-----------------------------------------------------------------------------
(***************************************************************************)
(* The server and its clients, with the times the bucket notes.  The       *)
(* lastModified of an assembled object is the time of the assembly or of   *)
(* the upload's initiation: providers differ.                              *)
(***************************************************************************)
NoteTimes ==
  /\ initiated' = [s \in Sessions |->
       IF upload[s] = "none" /\ upload'[s] = "open" THEN now ELSE initiated[s]]
  /\ \E assembled \in {initiated, [s \in Sessions |-> now]} :
       modified' = [s \in Sessions |->
         IF object'[s] = object[s] \/ object'[s] = "absent" THEN modified[s]
         ELSE IF s \in Multipart THEN assembled[s] ELSE now]

(* A PUT that is repeated renews lastModified, with the same bytes too.    *)
PutAgain(s) ==
  /\ PutObject(s)
  /\ modified' = [modified EXCEPT ![s] = now]
  /\ UNCHANGED initiated

Serve ==
  /\ (Next /\ NoteTimes) \/ \E s \in Sessions : PutAgain(s)
  /\ UNCHANGED <<job, faults>>

-----------------------------------------------------------------------------
(***************************************************************************)
(* Steps of a job j that leave the server alone.                           *)
(***************************************************************************)
Step(j, from, to, todo, doomed) ==
  /\ job[j].at = from
  /\ job' = [job EXCEPT ![j] = [at |-> to, clock |-> job[j].clock,
                                todo |-> todo, doomed |-> doomed]]
  /\ UNCHANGED <<initiated, modified, faults>>

Look(j, from, to, todo, doomed) ==
  Step(j, from, to, todo, doomed) /\ UNCHANGED vars

Start(j) ==
  /\ job[j].at = "asleep"
  /\ job' = [job EXCEPT ![j] = [Asleep EXCEPT !.at = "list", !.clock = now]]
  /\ UNCHANGED <<vars, initiated, modified, faults>>

(* The process running the job dies, or a storage call of it throws.       *)
JobFails(j) ==
  /\ faults < MaxFaults
  /\ job[j].at # "asleep"
  /\ job' = [job EXCEPT ![j] = Asleep]
  /\ faults' = faults + 1
  /\ UNCHANGED <<vars, initiated, modified>>

(* DeleteObjects removes the keys of which it reports no error.            *)
Remove(gone) ==
  /\ object' = [s \in Sessions |-> IF s \in gone THEN "absent" ELSE object[s]]
  /\ UNCHANGED <<now, tokens, upload, received, tracked, acked, call>>

(* A delete that reports errors throws, which ends the job.                *)
DeleteFails(j) ==
  /\ faults < MaxFaults
  /\ job[j].at = "delete"
  /\ \E gone \in SUBSET job[j].doomed : Remove(gone)
  /\ job' = [job EXCEPT ![j] = Asleep]
  /\ faults' = faults + 1
  /\ UNCHANGED <<initiated, modified>>

-----------------------------------------------------------------------------
(***************************************************************************)
(* cleanupExpiredObjects                                                   *)
(***************************************************************************)
Day(t) == t \div DayLength

(* ExpiredObjectsDeleted: the day of the expiry itself is never swept.     *)
ListTemporarySlip(j) ==
  Look(j, "list", "head",
       {s \in Temporary : object[s] # "absent" /\ Day(retainUntil[s]) < Day(job[j].clock)},
       {})

ListTemporary(j) ==
  Look(j, "list", "head",
       {s \in Temporary : object[s] # "absent" /\ Day(retainUntil[s]) <= Day(job[j].clock)},
       {})

(* RecordedSurvives: the day in the key is taken for the exact expiry.     *)
HeadTemporarySlip(j, s) ==
  /\ s \in job[j].todo
  /\ Look(j, "head", "head", job[j].todo \ {s}, job[j].doomed \cup {s})

(* An object gone since the listing has no exact expiry: the TypeScript    *)
(* job deletes it, the Go job passes it over.                              *)
HeadTemporary(j, s) ==
  /\ s \in job[j].todo
  /\ \E doomed \in {job[j].doomed, job[j].doomed \cup {s}} :
       /\ object[s] # "absent" => (s \in doomed <=> retainUntil[s] <= job[j].clock)
       /\ Look(j, "head", "head", job[j].todo \ {s}, doomed)

HeadedTemporary(j) ==
  /\ job[j].todo = {}
  /\ Look(j, "head", "delete", {}, job[j].doomed)

DeleteExpired(j) ==
  /\ Step(j, "delete", "uploads", {}, {})
  /\ Remove(job[j].doomed)

(* An upload is old when its age says so, or when it has none.             *)
OldUpload(j, s) ==
  s \in Undated \/ job[j].clock - initiated[s] >= MultipartSafety

(* LiveUploadKept: the age of the upload is not looked at.                 *)
ListUploadsSlip(j) ==
  Look(j, "uploads", "abort", {s \in Multipart : upload[s] = "open"}, {})

(* AbandonedUploadsClosed: the comparison is the wrong way round.          *)
ListUploadsYoungSlip(j) ==
  Look(j, "uploads", "abort",
       {s \in Multipart : upload[s] = "open" /\ ~OldUpload(j, s)},
       {})

ListUploads(j) ==
  Look(j, "uploads", "abort",
       {s \in Multipart : upload[s] = "open" /\ OldUpload(j, s)},
       {})

(* An upload that was completed or aborted since the listing makes the     *)
(* bucket refuse, and the job throws without trying the others.            *)
AbortOld(j, s) ==
  /\ s \in job[j].todo
  /\ IF upload[s] = "open"
       THEN /\ Step(j, "abort", "abort", job[j].todo \ {s}, {})
            /\ upload' = [upload EXCEPT ![s] = "aborted"]
            /\ received' = [received EXCEPT ![s] = {}]
            /\ UNCHANGED <<now, tokens, object, tracked, acked, call>>
       ELSE Look(j, "abort", "asleep", {}, {})

AbortedOld(j) ==
  /\ job[j].todo = {}
  /\ Look(j, "abort", "asleep", {}, {})

CleanupStep(j) ==
  \/ ListTemporary(j) \/ HeadedTemporary(j) \/ DeleteExpired(j)
  \/ ListUploads(j) \/ AbortedOld(j)
  \/ \E s \in Sessions : HeadTemporary(j, s) \/ AbortOld(j, s)

-----------------------------------------------------------------------------
(***************************************************************************)
(* reconcileUntrackedObjects                                               *)
(***************************************************************************)
(* RecordedSurvives: the safety window is forgotten.                       *)
ListStoredSlip(j) ==
  Look(j, "list", "head", {s \in Sessions : object[s] # "absent"}, {})

(* An object without a time is passed over.                                *)
OldObject(j, s) ==
  s \notin Undated /\ job[j].clock - modified[s] >= ReconcileSafety

ListStored(j) ==
  Look(j, "list", "head", {s \in Sessions : object[s] # "absent" /\ OldObject(j, s)}, {})

(* An object gone since the listing has no id, and is passed over.         *)
HeadStored(j, s) ==
  /\ s \in job[j].todo
  /\ Look(j, "head", "head", job[j].todo \ {s},
          IF object[s] = "absent" THEN job[j].doomed ELSE job[j].doomed \cup {s})

HeadedStored(j) ==
  /\ job[j].todo = {}
  /\ Look(j, "head", "check", job[j].doomed, {})

(* KeepsContract, OrphansDeleted: the answer is taken for its opposite.    *)
CheckTrackedSlip(j, batch) ==
  /\ batch # {}
  /\ batch \subseteq job[j].todo
  /\ Look(j, "check", "delete", job[j].todo \ batch, {s \in batch : tracked[s]})

(* The application is asked about one batch; what it does not know is      *)
(* deleted before the next batch is asked about.                           *)
CheckTracked(j, batch) ==
  /\ batch # {}
  /\ batch \subseteq job[j].todo
  /\ Look(j, "check", "delete", job[j].todo \ batch, {s \in batch : ~tracked[s]})

DeleteOrphans(j) ==
  /\ Step(j, "delete", "check", job[j].todo, {})
  /\ Remove(job[j].doomed)

CheckedAll(j) ==
  /\ job[j].todo = {}
  /\ Look(j, "check", "asleep", {}, {})

ReconcileStep(j) ==
  \/ ListStored(j) \/ HeadedStored(j) \/ DeleteOrphans(j) \/ CheckedAll(j)
  \/ \E s \in Sessions : HeadStored(j, s)
  \/ \E batch \in SUBSET Sessions : CheckTracked(j, batch)

-----------------------------------------------------------------------------
RunJobs ==
  \/ \E j \in Jobs : Start(j) \/ JobFails(j) \/ DeleteFails(j)
  \/ \E j \in Cleaners : CleanupStep(j)
  \/ \E j \in Reconcilers : ReconcileStep(j)

SystemNext == Serve \/ RunJobs

SystemSpec == SystemInit /\ [][SystemNext]_systemVars

(***************************************************************************)
(* The jobs are scheduled again and again, each storage call and callback  *)
(* returns or throws, and time does not stop before the horizon.           *)
(***************************************************************************)
Answer(r) == call[r].at # "idle" /\ Handler(r) /\ NoteTimes /\ UNCHANGED <<job, faults>>

Fairness ==
  /\ WF_systemVars(Tick /\ NoteTimes /\ UNCHANGED <<job, faults>>)
  /\ \A r \in Requests : WF_systemVars(Answer(r))
  /\ \A j \in Jobs : WF_systemVars(Start(j))
  /\ \A j \in Cleaners : WF_systemVars(CleanupStep(j))
  /\ \A j \in Reconcilers : WF_systemVars(ReconcileStep(j))

FairSpec == SystemSpec /\ Fairness

-----------------------------------------------------------------------------
(***************************************************************************)
(* Properties                                                              *)
(***************************************************************************)

(* A file the application recorded stays in the bucket until its retention *)
(* ends, whatever a job read before the record was made: a reconcile that  *)
(* asked about the file just before onUploadComplete stored it must not    *)
(* delete it, nor a cleanup that headed it on the day it expires.          *)
RecordedSurvives ==
  \A s \in Sessions :
    tracked[s] /\ ~RetentionEnded(s)
      => object[s] # "absent" /\ (s \in Multipart => object[s] = "whole")

(* The same with both jobs as a promise: storage is reclaimed only before  *)
(* a record or after the end of the retention (KeepsContract, with Discard *)
(* steps this time).                                                       *)

(* Cleanup never takes a multipart upload from a client whose session is   *)
(* still good, or from a finalize already on its way, if the bucket lists  *)
(* the time of its initiation (without one the code aborts it at once).    *)
LiveUploadKept ==
  [][\A s \in Multipart \ Undated :
       upload[s] = "open" /\ upload'[s] = "aborted" /\ call' = call
         => now > expires[s] + HandlerTime]_systemVars

(* An upload that a failed prepare, a lost answer or a vanished client     *)
(* left open is closed once it is old, in spite of runs of the job that    *)
(* die or that stop at an upload a finalize has just completed.            *)
AbandonedUploadsClosed ==
  \A s \in Multipart :
    (upload[s] = "open" /\ initiated[s] + MultipartSafety <= Horizon)
      ~> upload[s] # "open"

(* A temporary object does not outlive its retention for ever.             *)
ExpiredObjectsDeleted ==
  \A s \in Temporary :
    (object[s] # "absent" /\ retainUntil[s] <= Horizon) ~> object[s] = "absent"

(* An object whose finalize never got through is deleted, once the bucket  *)
(* says that it was stored long enough ago and nobody stores it anew.      *)
OrphansDeleted ==
  \A s \in Sessions \ Undated :
    (object[s] # "absent" /\ ~tracked[s] /\ modified[s] + ReconcileSafety <= Horizon)
      ~> (object[s] = "absent" \/ tracked[s] \/ modified[s] + ReconcileSafety > Horizon)
-----------------------------------------------------------------------------
(***************************************************************************)
(* The inductive invariant behind RecordedSurvives and LiveUploadKept.     *)
(***************************************************************************)

(* The session is over: no handler still works on it.                      *)
Over(s) == token[s] # "none" /\ now > expires[s] + HandlerTime

(* Nobody may miss the object: its retention ended, or it can no longer be *)
(* recorded.  Once true this stays true.                                   *)
Spent(s) == RetentionEnded(s) \/ (Over(s) /\ ~tracked[s])

(* What the bucket's times say about the ends of sessions.                 *)
TimesNoted ==
  /\ \A s \in Sessions : token[s] # "none" => expires[s] <= now + UploadExpiry
  /\ \A s \in Multipart : upload[s] = "open" => expires[s] <= initiated[s] + UploadExpiry
  /\ \A s \in Sessions : object[s] # "absent" => expires[s] <= modified[s] + UploadExpiry

(* What a job may believe of the sessions it is going to act on.           *)
CleanerSound(f) ==
  /\ f.clock <= now
  /\ f.at = "head" =>
       \A s \in f.todo : s \in Temporary /\ (object[s] # "absent" \/ Spent(s))
  /\ f.at = "abort" => \A s \in f.todo : s \in Undated \/ Over(s)
  /\ \A s \in f.doomed : Spent(s)

ReconcilerSound(f) ==
  /\ f.clock <= now
  /\ \A s \in f.todo \cup f.doomed : Over(s)
  /\ f.at = "delete" => \A s \in f.doomed : ~tracked[s]

JobsSound ==
  /\ \A j \in Cleaners : CleanerSound(job[j])
  /\ \A j \in Reconcilers : ReconcilerSound(job[j])

(* A verified object stays while its callback is still to come.            *)
VerifiedKept ==
  \A r \in Requests : \A s \in Sessions :
    Verifying(r, s) =>
      \/ object[s] # "absent" /\ (s \in Multipart => object[s] = "whole")
      \/ RetentionEnded(s)

SystemInv ==
  /\ Bookkeeping
  /\ SystemTypeOK
  /\ TimesNoted
  /\ JobsSound
  /\ VerifiedKept
  /\ RecordedSurvives
=============================================================================
