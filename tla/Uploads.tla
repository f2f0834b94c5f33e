------------------------------ MODULE Uploads ------------------------------
(***************************************************************************)
(* The upload protocol of a Raildrop server: the three actions of the      *)
(* route handler (prepare, finalize, abort) as concurrent invocations that *)
(* stop at every await, the session tokens they hand out, and the bucket   *)
(* they drive.                                                             *)
(*                                                                         *)
(* A session is one file of one prepare request: its id, its object key    *)
(* (which contains the id, so no two sessions share a key) and its signed  *)
(* token.  The server keeps no state of its own: everything it knows of a  *)
(* session is in the token and in the bucket.                              *)
(*                                                                         *)
(* What a client sends is up to the client: parts may assemble to anything *)
(* and a signed PUT may be repeated with other bytes until its URL runs    *)
(* out, also after the file was verified and recorded.  An object is       *)
(* "whole" when the second head of finalize accepts it (the declared size  *)
(* and type, and the signed metadata: the bytes themselves are never       *)
(* compared), and "damaged" otherwise.                                     *)
(*                                                                         *)
(* Simplifications.  Invocations answer within HandlerTime (the platform's *)
(* request timeout, not something the code enforces), and the clock stops  *)
(* at Horizon.                                                             *)
(*                                                                         *)
(* A definition XSlip is X with a plausible mistake, which the property    *)
(* named beside it must notice; no specification uses it.                  *)
(***************************************************************************)
EXTENDS Integers, FiniteSets

CONSTANTS
  Sessions,      \* upload ids createUploadId may draw
  NoSession,     \* the target of an invocation that works on none
  Requests,      \* handler invocations that can be in progress together
  Multipart,     \* sessions of files that reach the multipart threshold
  Temporary,     \* sessions with temporary retention
  Parts,         \* part numbers of a multipart session
  UploadExpiry,  \* uploadExpirySeconds
  Retention,     \* temporaryTtlSeconds
  HandlerTime,   \* longest time from a request's arrival to its answer
  Horizon        \* the last instant of the clock

ASSUME SessionsAssumption ==
  /\ NoSession \notin Sessions
  /\ Multipart \subseteq Sessions
  /\ Temporary \subseteq Sessions
  /\ Parts # {}

ASSUME TimeAssumption ==
  /\ UploadExpiry \in Nat \ {0}
  /\ Retention \in Nat \ {0}
  /\ HandlerTime \in Nat
  /\ Horizon \in Nat

VARIABLES
  now,          \* the clock (Date.now)
  token,        \* what has become of the session's token
  expires,      \* uploadExpiresAt in the token
  retainUntil,  \* expiresAt of a temporary session
  upload,       \* the bucket's multipart upload of the session
  received,     \* parts the bucket holds for that upload
  object,       \* the object under the session's key
  tracked,      \* the application recorded the file in onUploadComplete
  acked,        \* a client has received a successful finalize answer
  call          \* the invocations in progress

bucket == <<upload, received, object>>
tokens == <<token, expires, retainUntil>>
vars == <<now, tokens, bucket, tracked, acked, call>>

Idle == [at |-> "idle", batch |-> {}, todo |-> {}, target |-> NoSession,
         parts |-> {}, began |-> 0, code |-> "none"]

PrepareSteps  == {"prepare", "presign", "unwind"}
FinalizeSteps == {"probe", "complete", "verify", "validate", "callback"}
AbortSteps    == {"abortProbe", "abort"}
Steps == {"idle", "answer"} \cup PrepareSteps \cup FinalizeSteps \cup AbortSteps

Codes == {"none", "prepared", "finalized", "aborted", "BAD_REQUEST",
          "NOT_FOUND", "EXPIRED", "STORAGE_ERROR", "CALLBACK_ERROR"}

Calls == [at : Steps, batch : SUBSET Sessions, todo : SUBSET Sessions,
          target : Sessions \cup {NoSession}, parts : SUBSET Parts,
          began : Nat, code : Codes]

TypeOK ==
  /\ now \in Nat
  /\ token \in [Sessions -> {"none", "minting", "issued", "lost"}]
  /\ expires \in [Sessions -> Nat]
  /\ retainUntil \in [Sessions -> Nat]
  /\ upload \in [Sessions -> {"none", "open", "completed", "aborted"}]
  /\ received \in [Sessions -> SUBSET Parts]
  /\ object \in [Sessions -> {"absent", "whole", "damaged"}]
  /\ tracked \in [Sessions -> BOOLEAN]
  /\ acked \in [Sessions -> BOOLEAN]
  /\ call \in [Requests -> Calls]

Init ==
  /\ now = 0
  /\ token = [s \in Sessions |-> "none"]
  /\ expires = [s \in Sessions |-> 0]
  /\ retainUntil = [s \in Sessions |-> 0]
  /\ upload = [s \in Sessions |-> "none"]
  /\ received = [s \in Sessions |-> {}]
  /\ object = [s \in Sessions |-> "absent"]
  /\ tracked = [s \in Sessions |-> FALSE]
  /\ acked = [s \in Sessions |-> FALSE]
  /\ call = [r \in Requests |-> Idle]

(***************************************************************************)
(* A request arrives; an invocation moves to its next await, or settles on *)
(* an answer.                                                              *)
(***************************************************************************)
Arrive(r, step, files, s, sent, c) ==
  call' = [call EXCEPT ![r] =
             [at |-> step, batch |-> files, todo |-> files, target |-> s,
              parts |-> sent, began |-> now, code |-> c]]

Goto(r, step) == call' = [call EXCEPT ![r].at = step]

Reply(r, c) == call' = [call EXCEPT ![r].at = "answer", ![r].code = c]

(* The file of session s is prepared; the loop goes on with the others.    *)
FileDone(r, s) ==
  call' = [call EXCEPT ![r].at = "prepare", ![r].todo = @ \ {s},
                       ![r].target = NoSession]

-----------------------------------------------------------------------------
(***************************************************************************)
(* prepare: the files of the batch, one after the other.                   *)
(***************************************************************************)
BeginPrepare(r, files) ==
  /\ call[r].at = "idle"
  /\ files # {}
  /\ \A s \in files : token[s] = "none"
  /\ token' = [s \in Sessions |-> IF s \in files THEN "minting" ELSE token[s]]
  /\ expires' = [s \in Sessions |->
                   IF s \in files THEN now + UploadExpiry ELSE expires[s]]
  /\ Arrive(r, "prepare", files, NoSession, {}, "none")
  /\ UNCHANGED <<now, retainUntil, bucket, tracked, acked>>

(* A small file needs a signed PUT URL only; a large one opens a multipart *)
(* upload first.                                                           *)
PrepareFile(r, s) ==
  /\ call[r].at = "prepare"
  /\ s \in call[r].todo
  /\ retainUntil' = IF s \in Temporary
                      THEN [retainUntil EXCEPT ![s] = now + Retention]
                      ELSE retainUntil
  /\ IF s \in Multipart
       THEN /\ upload' = [upload EXCEPT ![s] = "open"]
            /\ call' = [call EXCEPT ![r].at = "presign", ![r].target = s]
       ELSE /\ FileDone(r, s)
            /\ UNCHANGED upload
  /\ UNCHANGED <<now, token, expires, received, object, tracked, acked>>

PresignParts(r) ==
  /\ call[r].at = "presign"
  /\ FileDone(r, call[r].target)
  /\ UNCHANGED <<now, tokens, bucket, tracked, acked>>

(* Signing fails, or the file needs more than 10000 parts.                 *)
PresignFails(r) ==
  /\ call[r].at = "presign"
  /\ Goto(r, "unwind")
  /\ UNCHANGED <<now, tokens, bucket, tracked, acked>>

(* The upload just opened is aborted, and an error of that is swallowed.   *)
Unwind(r) ==
  /\ call[r].at = "unwind"
  /\ \/ upload' = [upload EXCEPT ![call[r].target] = "aborted"]
     \/ UNCHANGED upload
  /\ Reply(r, "STORAGE_ERROR")
  /\ UNCHANGED <<now, tokens, received, object, tracked, acked>>

(* The namespace callback, createMultipart or a signature fails: the whole *)
(* batch is refused and what its earlier files opened stays open.          *)
PrepareFails(r) ==
  /\ call[r].at = "prepare"
  /\ call[r].todo # {}
  /\ Reply(r, "STORAGE_ERROR")
  /\ UNCHANGED <<now, tokens, bucket, tracked, acked>>

PrepareReplies(r) ==
  /\ call[r].at = "prepare"
  /\ call[r].todo = {}
  /\ Reply(r, "prepared")
  /\ UNCHANGED <<now, tokens, bucket, tracked, acked>>

-----------------------------------------------------------------------------
(***************************************************************************)
(* finalize: readSessionToken and the endpoint check are synchronous, the  *)
(* rest stops at each storage call and application callback.               *)
(***************************************************************************)
Expired(s) == now > expires[s]

(* TrackedInTime: the token's expiry is not checked.                       *)
BeginFinalizeSlip(r, s, sent) ==
  /\ call[r].at = "idle"
  /\ token[s] = "issued"
  /\ Arrive(r, IF s \in Multipart THEN "probe" ELSE "verify", {}, s, sent, "none")
  /\ UNCHANGED <<now, tokens, bucket, tracked, acked>>

BeginFinalize(r, s, sent) ==
  /\ call[r].at = "idle"
  /\ token[s] = "issued"
  /\ ~Expired(s)
  /\ Arrive(r, IF s \in Multipart THEN "probe" ELSE "verify", {}, s, sent, "none")
  /\ UNCHANGED <<now, tokens, bucket, tracked, acked>>

(* A finalize or abort request whose token has run out is refused at once. *)
RefuseExpired(r, s) ==
  /\ call[r].at = "idle"
  /\ token[s] = "issued"
  /\ Expired(s)
  /\ Arrive(r, "answer", {}, s, {}, "EXPIRED")
  /\ UNCHANGED <<now, tokens, bucket, tracked, acked>>

(* An earlier finalize may have completed the upload already.              *)
Probe(r) ==
  LET s == call[r].target IN
  /\ call[r].at = "probe"
  /\ \/ /\ object[s] # "absent"
        /\ Goto(r, "verify")
     \/ /\ object[s] = "absent"
        /\ call[r].parts = {}
        /\ Reply(r, "BAD_REQUEST")
     \/ /\ object[s] = "absent"
        /\ call[r].parts # {}
        /\ Goto(r, "complete")
  /\ UNCHANGED <<now, tokens, bucket, tracked, acked>>

(* An object is stored under the key of s, of whatever the client sent.    *)
Store(s) ==
  \E content \in {"whole", "damaged"} : object' = [object EXCEPT ![s] = content]

(* TrackedIsStored: an upload can be completed again with other parts.     *)
CompleteSlip(r) ==
  LET s == call[r].target
      sent == call[r].parts IN
  /\ call[r].at = "complete"
  /\ IF upload[s] \in {"open", "completed"} /\ sent \subseteq received[s]
       THEN /\ upload' = [upload EXCEPT ![s] = "completed"]
            /\ Store(s)
            /\ Goto(r, "verify")
            /\ UNCHANGED received
       ELSE /\ Reply(r, "STORAGE_ERROR")
            /\ UNCHANGED bucket
  /\ UNCHANGED <<now, tokens, tracked, acked>>

(* The bucket refuses an upload that is no longer open, and parts it does  *)
(* not hold.                                                               *)
Complete(r) ==
  LET s == call[r].target
      sent == call[r].parts IN
  /\ call[r].at = "complete"
  /\ IF upload[s] = "open" /\ sent \subseteq received[s]
       THEN /\ upload' = [upload EXCEPT ![s] = "completed"]
            /\ received' = [received EXCEPT ![s] = {}]
            /\ Store(s)
            /\ Goto(r, "verify")
       ELSE /\ Reply(r, "STORAGE_ERROR")
            /\ UNCHANGED bucket
  /\ UNCHANGED <<now, tokens, tracked, acked>>

(* The second head: the stored object against the session.                 *)
Verify(r) ==
  LET s == call[r].target IN
  /\ call[r].at = "verify"
  /\ \/ /\ object[s] = "absent"
        /\ Reply(r, "NOT_FOUND")
     \/ /\ object[s] = "damaged"
        /\ Reply(r, "BAD_REQUEST")
     \/ /\ object[s] = "whole"
        /\ Goto(r, "validate")
  /\ UNCHANGED <<now, tokens, bucket, tracked, acked>>

(* The route's validate callback accepts the file, or throws.              *)
Validate(r) ==
  /\ call[r].at = "validate"
  /\ Goto(r, "callback") \/ Reply(r, "STORAGE_ERROR")
  /\ UNCHANGED <<now, tokens, bucket, tracked, acked>>

(* onUploadComplete records the file and returns.                          *)
RunCallback(r) ==
  /\ call[r].at = "callback"
  /\ tracked' = [tracked EXCEPT ![call[r].target] = TRUE]
  /\ Reply(r, "finalized")
  /\ UNCHANGED <<now, tokens, bucket, acked>>

(* KeepsContract: an error of the callback is swallowed.                   *)
CallbackThrowsSlip(r) ==
  /\ call[r].at = "callback"
  /\ \/ tracked' = [tracked EXCEPT ![call[r].target] = TRUE]
     \/ UNCHANGED tracked
  /\ Reply(r, "finalized")
  /\ UNCHANGED <<now, tokens, bucket, acked>>

(* onUploadComplete throws, before or after it has recorded the file.      *)
CallbackThrows(r) ==
  /\ call[r].at = "callback"
  /\ \/ tracked' = [tracked EXCEPT ![call[r].target] = TRUE]
     \/ UNCHANGED tracked
  /\ Reply(r, "CALLBACK_ERROR")
  /\ UNCHANGED <<now, tokens, bucket, acked>>

-----------------------------------------------------------------------------
(***************************************************************************)
(* abort                                                                   *)
(***************************************************************************)
BeginAbort(r, s) ==
  /\ call[r].at = "idle"
  /\ token[s] = "issued"
  /\ ~Expired(s)
  /\ IF s \in Multipart
       THEN Arrive(r, "abortProbe", {}, s, {}, "none")
       ELSE Arrive(r, "answer", {}, s, {}, "aborted")
  /\ UNCHANGED <<now, tokens, bucket, tracked, acked>>

(* AbortedIsClosed: the test of the probe is the wrong way round.          *)
AbortProbeSlip(r) ==
  /\ call[r].at = "abortProbe"
  /\ IF object[call[r].target] # "absent" THEN Goto(r, "abort")
                                          ELSE Reply(r, "aborted")
  /\ UNCHANGED <<now, tokens, bucket, tracked, acked>>

(* An object that is already stored is left alone.                         *)
AbortProbe(r) ==
  /\ call[r].at = "abortProbe"
  /\ IF object[call[r].target] = "absent" THEN Goto(r, "abort")
                                          ELSE Reply(r, "aborted")
  /\ UNCHANGED <<now, tokens, bucket, tracked, acked>>

Abort(r) ==
  LET s == call[r].target IN
  /\ call[r].at = "abort"
  /\ IF upload[s] = "open"
       THEN /\ upload' = [upload EXCEPT ![s] = "aborted"]
            /\ received' = [received EXCEPT ![s] = {}]
            /\ Reply(r, "aborted")
       ELSE /\ Reply(r, "STORAGE_ERROR")
            /\ UNCHANGED <<upload, received>>
  /\ UNCHANGED <<now, tokens, object, tracked, acked>>

-----------------------------------------------------------------------------
(***************************************************************************)
(* Failures of an invocation, and its answer's way back to the client.     *)
(***************************************************************************)

(* A storage call of finalize or abort throws without having had an effect *)
StorageFails(r) ==
  /\ call[r].at \in {"probe", "complete", "verify", "abortProbe", "abort"}
  /\ Reply(r, "STORAGE_ERROR")
  /\ UNCHANGED <<now, tokens, bucket, tracked, acked>>

(* The sessions of a batch whose answer is never received are of no use to *)
(* anyone: nobody holds their tokens.                                      *)
Forget(r) ==
  token' = [s \in Sessions |-> IF s \in call[r].batch THEN "lost" ELSE token[s]]

(* The process dies, the platform cuts the request off, or the answer is   *)
(* lost on its way.                                                        *)
Crash(r) ==
  /\ call[r].at # "idle"
  /\ Forget(r)
  /\ call' = [call EXCEPT ![r] = Idle]
  /\ UNCHANGED <<now, expires, retainUntil, bucket, tracked, acked>>

Deliver(r) ==
  LET c == call[r] IN
  /\ c.at = "answer"
  /\ \/ /\ c.code = "prepared"
        /\ token' = [s \in Sessions |-> IF s \in c.batch THEN "issued" ELSE token[s]]
        /\ UNCHANGED acked
     \/ /\ c.code = "finalized"
        /\ acked' = [acked EXCEPT ![c.target] = TRUE]
        /\ UNCHANGED token
     \/ /\ c.code \notin {"prepared", "finalized"}
        /\ Forget(r)
        /\ UNCHANGED acked
  /\ call' = [call EXCEPT ![r] = Idle]
  /\ UNCHANGED <<now, expires, retainUntil, bucket, tracked>>

-----------------------------------------------------------------------------
(***************************************************************************)
(* What clients do directly to the bucket with the URLs they were given.   *)
(* A URL is valid for UploadExpiry from when it was signed, which is at    *)
(* most HandlerTime after the token's own expiry was fixed.                *)
(***************************************************************************)
(* ObjectsSettle: URLs are signed for longer than the session lives.       *)
UrlValidSlip(s) == token[s] = "issued" /\ now <= expires[s] + HandlerTime + UploadExpiry

UrlValid(s) == token[s] = "issued" /\ now <= expires[s] + HandlerTime

UploadPart(s, p) ==
  /\ s \in Multipart
  /\ UrlValid(s)
  /\ upload[s] = "open"
  /\ received' = [received EXCEPT ![s] = @ \cup {p}]
  /\ UNCHANGED <<now, tokens, upload, object, tracked, acked, call>>

PutObject(s) ==
  /\ s \notin Multipart
  /\ UrlValid(s)
  /\ Store(s)
  /\ UNCHANGED <<now, tokens, upload, received, tracked, acked, call>>

-----------------------------------------------------------------------------
Tick ==
  /\ now < Horizon
  /\ \A r \in Requests : call[r].at # "idle" => now < call[r].began + HandlerTime
  /\ now' = now + 1
  /\ UNCHANGED <<tokens, bucket, tracked, acked, call>>

Prepare(r) ==
  \/ \E files \in SUBSET Sessions : BeginPrepare(r, files)
  \/ \E s \in Sessions : PrepareFile(r, s)
  \/ PresignParts(r) \/ PresignFails(r) \/ Unwind(r)
  \/ PrepareFails(r) \/ PrepareReplies(r)

Finalize(r) ==
  \/ \E s \in Multipart, sent \in SUBSET Parts : BeginFinalize(r, s, sent)
  \/ \E s \in Sessions \ Multipart : BeginFinalize(r, s, {})
  \/ \E s \in Sessions : RefuseExpired(r, s)
  \/ Probe(r) \/ Complete(r) \/ Verify(r) \/ Validate(r)
  \/ RunCallback(r) \/ CallbackThrows(r)

AbortUpload(r) ==
  \/ \E s \in Sessions : BeginAbort(r, s)
  \/ AbortProbe(r) \/ Abort(r)

Handler(r) ==
  Prepare(r) \/ Finalize(r) \/ AbortUpload(r)
  \/ StorageFails(r) \/ Crash(r) \/ Deliver(r)

Client ==
  \/ \E s \in Sessions, p \in Parts : UploadPart(s, p)
  \/ \E s \in Sessions : PutObject(s)

Next == Tick \/ Client \/ \E r \in Requests : Handler(r)

Spec == Init /\ [][Next]_vars
-----------------------------------------------------------------------------
(***************************************************************************)
(* Properties                                                              *)
(***************************************************************************)

(* "Upload completion verifies the stored object before callbacks run":    *)
(* whatever finalize, abort, retry and direct upload requests race, a file *)
(* the application recorded is in the bucket, and a multipart file is the  *)
(* one that was verified.  A file sent with a signed PUT may have been     *)
(* replaced since, through a URL that is still valid.                      *)
TrackedIsStored ==
  \A s \in Sessions :
    tracked[s] => object[s] # "absent" /\ (s \in Multipart => object[s] = "whole")

(* A stored file is final: an assembled one at once, whatever finalize,    *)
(* abort and part requests still come, and one sent with a signed PUT from *)
(* one handler's run after the end of its session.                         *)
ObjectsSettle ==
  [][\A s \in Sessions :
       object[s] # "absent" /\ object'[s] # object[s]
         => s \notin Multipart /\ now <= expires[s] + HandlerTime]_vars

(* A session that was handed to a client can be used: every multipart      *)
(* upload of the batch was opened before any token of it left the server.  *)
IssuedIsUsable ==
  \A s \in Multipart : token[s] = "issued" => upload[s] # "none"

(* A client that is told its upload was removed has nothing left to pay    *)
(* for: the bucket holds no open upload of that session.                   *)
AbortedIsClosed ==
  \A r \in Requests :
    call[r].code = "aborted" /\ call[r].target \in Multipart
      => upload[call[r].target] # "open"

(* An application hears of a file only while the session lives, or within  *)
(* one handler's run of its end: the expiry in the token bounds when a     *)
(* record can appear, which the cleanup jobs rely on.                      *)
TrackedInTime ==
  [][\A s \in Sessions :
       tracked'[s] # tracked[s] => now <= expires[s] + HandlerTime]_vars

(* The promise to the application, read off the server's state.            *)
RetentionEnded(s) ==
  s \in Temporary /\ token[s] \in {"issued", "lost"} /\ now >= retainUntil[s]

(* A finalize has seen the object whole and has not let go of it yet.      *)
Verifying(r, s) == call[r].at \in {"validate", "callback"} /\ call[r].target = s

Verified(s) == \E r \in Requests : Verifying(r, s)

Record(s) ==
  IF RetentionEnded(s) THEN "expired"
  ELSE IF acked[s]     THEN "acknowledged"
  ELSE IF tracked[s]   THEN "tracked"
  ELSE IF Verified(s)  THEN "verified"
  ELSE "none"

Contract == INSTANCE UploadContract WITH
  Replaceable <- Sessions \ Multipart,
  content <- object,
  record <- [s \in Sessions |-> Record(s)]

(* Every step of the server, its clients and the bucket is a step of the   *)
(* contract: no assembled file is replaced, nothing is recorded that was   *)
(* not verified, no success is reported for a file that was not recorded.  *)
KeepsContract == Contract!Spec
-----------------------------------------------------------------------------
(***************************************************************************)
(* The inductive invariant behind these properties, one conjunct per idea. *)
(***************************************************************************)

(* The sessions of a batch belong to one invocation until it answers.      *)
BatchOwned ==
  /\ \A r \in Requests : call[r].todo \subseteq call[r].batch
  /\ \A r \in Requests : \A s \in call[r].batch : token[s] = "minting"
  /\ \A q, r \in Requests : \A s \in call[q].batch : s \in call[r].batch => q = r

(* How far a prepare has come with its files.                              *)
BatchProgress ==
  /\ \A r \in Requests : call[r].at = "prepare" =>
       \A s \in call[r].todo : upload[s] = "none"
  /\ \A r \in Requests : call[r].at \in {"presign", "unwind"} =>
       /\ call[r].target \in call[r].todo \cap Multipart
       /\ upload[call[r].target] # "none"
       /\ \A s \in call[r].todo \ {call[r].target} : upload[s] = "none"
  /\ \A r \in Requests : call[r].at \in PrepareSteps =>
       \A s \in (call[r].batch \ call[r].todo) \cap Multipart : upload[s] # "none"
  /\ \A r \in Requests : call[r].code = "prepared" =>
       \A s \in call[r].batch \cap Multipart : upload[s] # "none"

(* Nothing exists of a session before its prepare.                         *)
FreshIsEmpty ==
  \A s \in Sessions : token[s] = "none" => upload[s] = "none"

(* A finalize or abort works on one issued session, unexpired when it came. *)
WorksOnIssued ==
  \A r \in Requests :
    call[r].at \in FinalizeSteps \cup AbortSteps =>
      /\ call[r].target \in Sessions
      /\ token[call[r].target] = "issued"
      /\ call[r].batch = {}
      /\ call[r].began <= expires[call[r].target]
      /\ call[r].at \notin {"verify", "validate", "callback"} =>
           call[r].target \in Multipart

OnTime ==
  \A r \in Requests :
    call[r].at # "idle" => call[r].began <= now /\ now <= call[r].began + HandlerTime

AnswersAreCodes ==
  \A r \in Requests : call[r].code # "none" => call[r].at = "answer"

(* A multipart object exists once its upload is completed, not before.     *)
StoredMeansCompleted ==
  \A s \in Sessions :
    /\ s \in Multipart /\ object[s] # "absent" => upload[s] = "completed"
    /\ token[s] \notin {"issued", "lost"} => object[s] = "absent"

(* A verified object stays until the callback has run, and an assembled    *)
(* one stays what it was.                                                  *)
VerifiedStays ==
  \A r \in Requests : \A s \in Sessions :
    Verifying(r, s) =>
      object[s] # "absent" /\ (s \in Multipart => object[s] = "whole")

(* Success is answered, and received, only for a recorded file.            *)
FinalizedIsTracked ==
  \A r \in Requests :
    call[r].code = "finalized" => call[r].target \in Sessions /\ tracked[call[r].target]

AbortedStaysClosed ==
  \A r \in Requests :
    call[r].code = "aborted" /\ call[r].target \in Multipart
      => upload[call[r].target] \in {"completed", "aborted"}

AckedIsTracked == \A s \in Sessions : acked[s] => tracked[s]

(* What holds of requests, tokens and uploads, even in a bucket from which  *)
(* others delete.                                                          *)
Bookkeeping ==
  /\ TypeOK
  /\ BatchOwned
  /\ BatchProgress
  /\ FreshIsEmpty
  /\ WorksOnIssued
  /\ OnTime
  /\ AnswersAreCodes
  /\ StoredMeansCompleted
  /\ AbortedStaysClosed
  /\ FinalizedIsTracked
  /\ AckedIsTracked
  /\ IssuedIsUsable

IInv ==
  /\ Bookkeeping
  /\ VerifiedStays
  /\ TrackedIsStored
=============================================================================
