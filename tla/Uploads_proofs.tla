--------------------------- MODULE Uploads_proofs ---------------------------
(***************************************************************************)
(* Proofs about Uploads, for any set of sessions, of concurrent requests   *)
(* and of parts, and any expiry, retention and handler time.               *)
(***************************************************************************)
EXTENDS Uploads, TLAPS

-----------------------------------------------------------------------------
(* What the four ways to move an invocation do to it and to the others.    *)
LEMMA ArriveEffect ==
  ASSUME call \in [Requests -> Calls], now \in Nat, NEW r \in Requests,
         NEW step \in Steps, NEW files \in SUBSET Sessions,
         NEW s \in Sessions \cup {NoSession}, NEW sent \in SUBSET Parts,
         NEW c \in Codes, Arrive(r, step, files, s, sent, c)
  PROVE  /\ call' \in [Requests -> Calls]
         /\ call'[r].at = step
         /\ call'[r].batch = files
         /\ call'[r].todo = files
         /\ call'[r].target = s
         /\ call'[r].parts = sent
         /\ call'[r].began = now
         /\ call'[r].code = c
         /\ \A q \in Requests \ {r} : call'[q] = call[q]
BY DEF Arrive, Calls

LEMMA GotoEffect ==
  ASSUME call \in [Requests -> Calls], NEW r \in Requests, NEW step \in Steps,
         Goto(r, step)
  PROVE  /\ call' \in [Requests -> Calls]
         /\ call'[r].at = step
         /\ call'[r].batch = call[r].batch
         /\ call'[r].todo = call[r].todo
         /\ call'[r].target = call[r].target
         /\ call'[r].parts = call[r].parts
         /\ call'[r].began = call[r].began
         /\ call'[r].code = call[r].code
         /\ \A q \in Requests \ {r} : call'[q] = call[q]
BY DEF Goto, Calls

LEMMA ReplyEffect ==
  ASSUME call \in [Requests -> Calls], NEW r \in Requests, NEW c \in Codes,
         Reply(r, c)
  PROVE  /\ call' \in [Requests -> Calls]
         /\ call'[r].at = "answer"
         /\ call'[r].batch = call[r].batch
         /\ call'[r].todo = call[r].todo
         /\ call'[r].target = call[r].target
         /\ call'[r].parts = call[r].parts
         /\ call'[r].began = call[r].began
         /\ call'[r].code = c
         /\ \A q \in Requests \ {r} : call'[q] = call[q]
<1>1. "answer" \in Steps
  BY DEF Steps
<1>2. QED
  BY <1>1 DEF Reply, Calls

LEMMA FileDoneEffect ==
  ASSUME call \in [Requests -> Calls], NEW r \in Requests, NEW s, FileDone(r, s)
  PROVE  /\ call' \in [Requests -> Calls]
         /\ call'[r].at = "prepare"
         /\ call'[r].batch = call[r].batch
         /\ call'[r].todo = call[r].todo \ {s}
         /\ call'[r].target = NoSession
         /\ call'[r].parts = call[r].parts
         /\ call'[r].began = call[r].began
         /\ call'[r].code = call[r].code
         /\ \A q \in Requests \ {r} : call'[q] = call[q]
<1>1. "prepare" \in Steps
  BY DEF Steps, PrepareSteps
<1>2. QED
  BY <1>1 DEF FileDone, Calls

LEMMA IdleEffect ==
  ASSUME call \in [Requests -> Calls], NEW r \in Requests,
         call' = [call EXCEPT ![r] = Idle]
  PROVE  /\ call' \in [Requests -> Calls]
         /\ call'[r].at = "idle"
         /\ call'[r].batch = {}
         /\ call'[r].todo = {}
         /\ call'[r].target = NoSession
         /\ call'[r].code = "none"
         /\ \A q \in Requests \ {r} : call'[q] = call[q]
<1>1. Idle \in Calls
  BY DEF Idle, Calls, Steps, Codes
<1>2. QED
  BY <1>1 DEF Idle

-----------------------------------------------------------------------------
(* Every variable keeps its type.                                          *)
LEMMA InitTypeOK == Init => TypeOK
BY SessionsAssumption DEF Init, TypeOK, Calls, Idle, Steps, Codes

LEMMA PrepareTypeOK ==
  ASSUME TypeOK, NEW r \in Requests, Prepare(r)
  PROVE  TypeOK'
<1> USE TimeAssumption, SessionsAssumption DEF TypeOK, tokens, bucket
<1> DEFINE Named == {"prepare", "presign", "unwind"}
<1>a. Named \subseteq Steps
  BY DEF Steps, PrepareSteps
<1>b. {"none", "prepared", "STORAGE_ERROR"} \subseteq Codes
  BY DEF Codes
<1>1. ASSUME NEW files \in SUBSET Sessions, BeginPrepare(r, files) PROVE TypeOK'
  <2>1. call' \in [Requests -> Calls]
    BY <1>1, <1>a, <1>b, ArriveEffect DEF BeginPrepare
  <2>2. QED
    BY <1>1, <2>1 DEF BeginPrepare
<1>2. ASSUME NEW s \in Sessions, PrepareFile(r, s) PROVE TypeOK'
  <2>1. call' \in [Requests -> Calls]
    <3>1. CASE s \in Multipart
      BY <1>2, <1>a, <3>1 DEF PrepareFile, Calls
    <3>2. CASE s \notin Multipart
      BY <1>2, <3>2, FileDoneEffect DEF PrepareFile
    <3>3. QED
      BY <3>1, <3>2
  <2>2. QED
    BY <1>2, <2>1 DEF PrepareFile
<1>3. CASE PresignParts(r)
  BY <1>3, FileDoneEffect DEF PresignParts
<1>4. CASE PresignFails(r)
  BY <1>4, <1>a, GotoEffect DEF PresignFails
<1>5. CASE Unwind(r)
  BY <1>5, <1>b, ReplyEffect DEF Unwind
<1>6. CASE PrepareFails(r)
  BY <1>6, <1>b, ReplyEffect DEF PrepareFails
<1>7. CASE PrepareReplies(r)
  BY <1>7, <1>b, ReplyEffect DEF PrepareReplies
<1>8. QED
  BY <1>1, <1>2, <1>3, <1>4, <1>5, <1>6, <1>7 DEF Prepare

LEMMA FinalizeTypeOK ==
  ASSUME TypeOK, NEW r \in Requests, Finalize(r)
  PROVE  TypeOK'
<1> USE SessionsAssumption DEF TypeOK, tokens, bucket
<1>a. FinalizeSteps \cup {"answer"} \subseteq Steps
  BY DEF Steps
<1>b. {"none", "finalized", "BAD_REQUEST", "NOT_FOUND", "EXPIRED",
       "STORAGE_ERROR", "CALLBACK_ERROR"} \subseteq Codes
  BY DEF Codes
<1>c. {"probe", "complete", "verify", "validate", "callback"} \subseteq FinalizeSteps
  BY DEF FinalizeSteps
<1>1. ASSUME NEW s \in Sessions, NEW sent \in SUBSET Parts, BeginFinalize(r, s, sent)
      PROVE  TypeOK'
  BY <1>1, <1>a, <1>b, <1>c, ArriveEffect DEF BeginFinalize
<1>2. ASSUME NEW s \in Sessions, RefuseExpired(r, s) PROVE TypeOK'
  BY <1>2, <1>a, <1>b, ArriveEffect DEF RefuseExpired
<1>3. CASE Probe(r)
  BY <1>3, <1>a, <1>b, <1>c, GotoEffect, ReplyEffect DEF Probe
<1>4. CASE Complete(r)
  <2>1. call' \in [Requests -> Calls]
    BY <1>4, <1>a, <1>b, <1>c, GotoEffect, ReplyEffect DEF Complete
  <2>2. QED
    BY <1>4, <2>1 DEF Complete, Store
<1>5. CASE Verify(r)
  BY <1>5, <1>a, <1>b, <1>c, GotoEffect, ReplyEffect DEF Verify
<1>6. CASE Validate(r)
  BY <1>6, <1>a, <1>b, <1>c, GotoEffect, ReplyEffect DEF Validate
<1>7. CASE RunCallback(r)
  BY <1>7, <1>b, ReplyEffect DEF RunCallback
<1>8. CASE CallbackThrows(r)
  BY <1>8, <1>b, ReplyEffect DEF CallbackThrows
<1>9. QED
  BY <1>1, <1>2, <1>3, <1>4, <1>5, <1>6, <1>7, <1>8 DEF Finalize

LEMMA OtherTypeOK ==
  ASSUME TypeOK, NEW r \in Requests,
         AbortUpload(r) \/ StorageFails(r) \/ Crash(r) \/ Deliver(r)
  PROVE  TypeOK'
<1> USE SessionsAssumption DEF TypeOK, tokens, bucket
<1>a. {"answer", "abortProbe", "abort"} \subseteq Steps
  BY DEF Steps, AbortSteps
<1>b. {"none", "aborted", "STORAGE_ERROR"} \subseteq Codes
  BY DEF Codes
<1>1. ASSUME NEW s \in Sessions, BeginAbort(r, s) PROVE TypeOK'
  BY <1>1, <1>a, <1>b, ArriveEffect DEF BeginAbort
<1>2. CASE AbortProbe(r)
  BY <1>2, <1>a, <1>b, GotoEffect, ReplyEffect DEF AbortProbe
<1>3. CASE Abort(r)
  <2>1. call' \in [Requests -> Calls]
    BY <1>3, <1>b, ReplyEffect DEF Abort
  <2>2. QED
    BY <1>3, <2>1 DEF Abort
<1>4. CASE StorageFails(r)
  BY <1>4, <1>b, ReplyEffect DEF StorageFails
<1>5. CASE Crash(r)
  BY <1>5, IdleEffect DEF Crash, Forget
<1>6. CASE Deliver(r)
  <2>1. call' \in [Requests -> Calls]
    BY <1>6, IdleEffect DEF Deliver
  <2>2. QED
    BY <1>6, <2>1 DEF Deliver, Forget
<1>7. QED
  BY <1>1, <1>2, <1>3, <1>4, <1>5, <1>6 DEF AbortUpload

LEMMA NextTypeOK == TypeOK /\ [Next]_vars => TypeOK'
<1> SUFFICES ASSUME TypeOK, [Next]_vars PROVE TypeOK'
  OBVIOUS
<1>1. CASE Tick
  BY <1>1 DEF Tick, TypeOK, tokens, bucket
<1>2. ASSUME NEW s \in Sessions, NEW p \in Parts, UploadPart(s, p) PROVE TypeOK'
  BY <1>2 DEF UploadPart, TypeOK, tokens
<1>3. ASSUME NEW s \in Sessions, PutObject(s) PROVE TypeOK'
  BY <1>3 DEF PutObject, Store, TypeOK, tokens
<1>4. ASSUME NEW r \in Requests, Handler(r) PROVE TypeOK'
  BY <1>4, PrepareTypeOK, FinalizeTypeOK, OtherTypeOK DEF Handler
<1>5. CASE UNCHANGED vars
  BY <1>5 DEF vars, TypeOK, tokens, bucket
<1>6. QED
  BY <1>1, <1>2, <1>3, <1>4, <1>5 DEF Next, Client

(* Every reachable state of the upload protocol is well typed.             *)
THEOREM TypeCorrect == Spec => []TypeOK
BY InitTypeOK, NextTypeOK, PTL DEF Spec

-----------------------------------------------------------------------------
(***************************************************************************)
(* Bookkeeping is inductive: what the invocations know of the sessions     *)
(* they own, of the uploads they opened and of the answers they gave.      *)
(***************************************************************************)
LEMMA InitBookkeeping == Init => Bookkeeping
BY InitTypeOK
   DEF Init, Idle, Bookkeeping, BatchOwned, BatchProgress, FreshIsEmpty,
       WorksOnIssued, OnTime, AnswersAreCodes, StoredMeansCompleted,
       AbortedStaysClosed, FinalizedIsTracked, AckedIsTracked, IssuedIsUsable,
       PrepareSteps, FinalizeSteps, AbortSteps

(* Batches and their progress, when a step leaves tokens, or which uploads *)
(* exist, alone.                                                           *)
LEMMA BatchKept ==
  ASSUME BatchOwned, NEW r \in Requests, token' = token,
         call'[r].batch = call[r].batch, call'[r].todo \subseteq call[r].todo,
         \A q \in Requests \ {r} : call'[q] = call[q]
  PROVE  BatchOwned'
<1>1. \A q \in Requests : call'[q].todo \subseteq call'[q].batch
  BY DEF BatchOwned
<1>2. \A q \in Requests : call'[q].batch = call[q].batch
  OBVIOUS
<1>3. QED
  BY <1>1, <1>2 DEF BatchOwned

LEMMA ProgressKept ==
  ASSUME TypeOK, BatchProgress, NEW r \in Requests,
         \A s \in Sessions : upload'[s] = "none" <=> upload[s] = "none",
         call'[r].at \notin PrepareSteps, call'[r].code # "prepared",
         \A q \in Requests \ {r} : call'[q] = call[q]
  PROVE  BatchProgress'
<1>1. \A q \in Requests : /\ call[q].batch \subseteq Sessions
                          /\ call[q].todo \subseteq Sessions
                          /\ call[q].target \in Sessions \cup {NoSession}
  BY DEF TypeOK, Calls
<1>2. QED
  BY <1>1 DEF BatchProgress, PrepareSteps

(* A step that only moves one invocation on: where it may move to.         *)
QuietMove(r) ==
  \/ call[r].at = "presign" /\ call'[r].at = "unwind" /\ call'[r].code = call[r].code
  \/ /\ call[r].at \in FinalizeSteps \cup AbortSteps
     /\ call'[r].at \in FinalizeSteps \cup AbortSteps
     /\ call'[r].at \in {"verify", "validate", "callback"} \/ call[r].at \in {"probe", "abortProbe"}
     /\ call'[r].code = call[r].code
  \/ /\ call[r].at # "idle" /\ call'[r].at = "answer"
     /\ call'[r].code # "finalized"
     /\ call'[r].code = "prepared" => call[r].at = "prepare" /\ call[r].todo = {}
     /\ call'[r].code = "aborted" =>
          call[r].at = "abortProbe" /\ object[call[r].target] # "absent"

LEMMA QuietBookkeeping ==
  ASSUME Bookkeeping, TypeOK', NEW r \in Requests,
         \/ PresignFails(r) \/ PrepareFails(r) \/ PrepareReplies(r)
         \/ Probe(r) \/ Verify(r) \/ Validate(r) \/ AbortProbe(r) \/ StorageFails(r)
  PROVE  Bookkeeping'
<1> USE DEF Bookkeeping
<1>1. /\ UNCHANGED <<now, token, expires, retainUntil, upload, received, object, tracked, acked>>
      /\ Goto(r, "unwind") \/ Goto(r, "verify") \/ Goto(r, "complete")
         \/ Goto(r, "callback") \/ Goto(r, "validate") \/ Goto(r, "abort")
         \/ \E c \in Codes : Reply(r, c)
  BY DEF PresignFails, PrepareFails, PrepareReplies, Probe, Verify, Validate,
         AbortProbe, StorageFails, Codes, tokens, bucket
<1>2. /\ call'[r].batch = call[r].batch
      /\ call'[r].todo = call[r].todo
      /\ call'[r].target = call[r].target
      /\ call'[r].began = call[r].began
      /\ \A q \in Requests \ {r} : call'[q] = call[q]
  BY <1>1, GotoEffect, ReplyEffect
     DEF TypeOK, Steps, PrepareSteps, FinalizeSteps, AbortSteps
<1>3. QuietMove(r)
  <2> USE GotoEffect, ReplyEffect
          DEF QuietMove, TypeOK, Steps, Codes, PrepareSteps, FinalizeSteps, AbortSteps
  <2>1. CASE PresignFails(r)
    BY <2>1 DEF PresignFails
  <2>2. CASE PrepareFails(r) \/ PrepareReplies(r)
    BY <2>2 DEF PrepareFails, PrepareReplies
  <2>3. CASE Probe(r)
    BY <2>3 DEF Probe
  <2>4. CASE Verify(r)
    BY <2>4 DEF Verify
  <2>5. CASE Validate(r)
    BY <2>5 DEF Validate
  <2>6. CASE AbortProbe(r)
    BY <2>6 DEF AbortProbe
  <2>7. CASE StorageFails(r)
    BY <2>7 DEF StorageFails
  <2>8. QED
    BY <2>1, <2>2, <2>3, <2>4, <2>5, <2>6, <2>7
<1>4. BatchOwned'
  BY <1>1, <1>2, BatchKept
<1>5. BatchProgress'
  <2>1. CASE call'[r].at \notin PrepareSteps /\ call'[r].code # "prepared"
    BY <1>1, <1>2, <2>1, ProgressKept
  <2>2. CASE call[r].at = "presign" /\ call'[r].at = "unwind" /\ call'[r].code = call[r].code
    BY <1>1, <1>2, <2>2 DEF BatchProgress, PrepareSteps
  <2>3. CASE call[r].at = "prepare" /\ call[r].todo = {} /\ call'[r].at = "answer"
    BY <1>1, <1>2, <2>3 DEF BatchProgress, PrepareSteps
  <2>4. QED
    <3>1. \/ call'[r].at \notin PrepareSteps /\ call'[r].code # "prepared"
          \/ call[r].at = "presign" /\ call'[r].at = "unwind" /\ call'[r].code = call[r].code
          \/ call[r].at = "prepare" /\ call[r].todo = {} /\ call'[r].at = "answer"
      BY <1>3 DEF QuietMove, AnswersAreCodes, PrepareSteps, FinalizeSteps, AbortSteps
    <3>2. QED
      BY <2>1, <2>2, <2>3, <3>1
<1>6. FreshIsEmpty' /\ IssuedIsUsable' /\ StoredMeansCompleted' /\ AckedIsTracked'
  BY <1>1 DEF FreshIsEmpty, IssuedIsUsable, StoredMeansCompleted, AckedIsTracked
<1>7. WorksOnIssued'
  BY <1>1, <1>2, <1>3 DEF QuietMove, WorksOnIssued, FinalizeSteps, AbortSteps
<1>8. OnTime' /\ AnswersAreCodes'
  BY <1>1, <1>2, <1>3
     DEF QuietMove, OnTime, AnswersAreCodes, FinalizeSteps, AbortSteps
<1>9. AbortedStaysClosed' /\ FinalizedIsTracked'
  <2>1. call'[r].code # "finalized"
    BY <1>3 DEF QuietMove, AnswersAreCodes, FinalizeSteps, AbortSteps
  <2>2. call'[r].code = "aborted" => object[call[r].target] # "absent"
    BY <1>3 DEF QuietMove, AnswersAreCodes, FinalizeSteps, AbortSteps
  <2>3. AbortedStaysClosed'
    BY <1>1, <1>2, <2>2, SessionsAssumption DEF AbortedStaysClosed, StoredMeansCompleted
  <2>4. FinalizedIsTracked'
    BY <1>1, <1>2, <2>1 DEF FinalizedIsTracked
  <2>5. QED
    BY <2>3, <2>4
<1>10. QED
  BY <1>4, <1>5, <1>6, <1>7, <1>8, <1>9

(* The steps of prepare that change tokens or uploads.                     *)
LEMMA BeginPrepareBookkeeping ==
  ASSUME Bookkeeping, TypeOK', NEW r \in Requests, NEW files \in SUBSET Sessions,
         BeginPrepare(r, files)
  PROVE  Bookkeeping'
<1> USE DEF Bookkeeping
<1>1. /\ call'[r].at = "prepare"
      /\ call'[r].batch = files
      /\ call'[r].todo = files
      /\ call'[r].began = now
      /\ call'[r].code = "none"
      /\ \A q \in Requests \ {r} : call'[q] = call[q]
  BY ArriveEffect DEF BeginPrepare, TypeOK, Steps, PrepareSteps, Codes
<1>2. BatchOwned'
  <2>1. \A q \in Requests, s \in files : s \notin call[q].batch
    BY DEF BatchOwned, BeginPrepare
  <2>2. \A q \in Requests : call'[q].todo \subseteq call'[q].batch
    BY <1>1 DEF BatchOwned
  <2>3. \A q \in Requests : \A s \in call'[q].batch : token'[s] = "minting"
    <3>1. \A s \in Sessions : IF s \in files THEN token'[s] = "minting"
                                            ELSE token'[s] = token[s]
      BY DEF BeginPrepare
    <3>2. \A q \in Requests : call[q].batch \subseteq Sessions
      BY DEF TypeOK, Calls
    <3>3. QED
      BY <1>1, <3>1, <3>2 DEF BatchOwned
  <2>4. \A p, q \in Requests : \A s \in call'[p].batch : s \in call'[q].batch => p = q
    BY <1>1, <2>1 DEF BatchOwned
  <2>5. QED
    BY <2>2, <2>3, <2>4 DEF BatchOwned
<1>3. BatchProgress'
  BY <1>1 DEF BeginPrepare, BatchProgress, BatchOwned, FreshIsEmpty, TypeOK, bucket,
              PrepareSteps
<1>4. FreshIsEmpty' /\ IssuedIsUsable'
  BY SessionsAssumption DEF BeginPrepare, FreshIsEmpty, IssuedIsUsable, TypeOK, bucket
<1>5. WorksOnIssued'
  BY <1>1 DEF BeginPrepare, WorksOnIssued, TypeOK, FinalizeSteps, AbortSteps
<1>6. OnTime' /\ AnswersAreCodes'
  BY <1>1, TimeAssumption DEF BeginPrepare, OnTime, AnswersAreCodes, TypeOK
<1>7. StoredMeansCompleted' /\ AbortedStaysClosed'
  BY <1>1 DEF BeginPrepare, StoredMeansCompleted, AbortedStaysClosed, TypeOK, bucket
<1>8. FinalizedIsTracked' /\ AckedIsTracked'
  BY <1>1 DEF BeginPrepare, FinalizedIsTracked, AckedIsTracked
<1>9. QED
  BY <1>2, <1>3, <1>4, <1>5, <1>6, <1>7, <1>8

LEMMA PrepareFileBookkeeping ==
  ASSUME Bookkeeping, TypeOK', NEW r \in Requests, NEW s \in Sessions,
         PrepareFile(r, s)
  PROVE  Bookkeeping'
<1> USE DEF Bookkeeping
<1>1. CASE s \notin Multipart
  <2>1. /\ call[r].at = "prepare"
        /\ call'[r].at = "prepare"
        /\ call'[r].batch = call[r].batch
        /\ call'[r].todo = call[r].todo \ {s}
        /\ call'[r].began = call[r].began
        /\ call'[r].code = call[r].code
        /\ \A q \in Requests \ {r} : call'[q] = call[q]
        /\ UNCHANGED <<now, token, expires, upload, object, tracked, acked>>
    BY <1>1, FileDoneEffect DEF PrepareFile, TypeOK
  <2>2. BatchOwned'
    BY <2>1, BatchKept
  <2>3. BatchProgress' /\ FreshIsEmpty' /\ IssuedIsUsable'
    BY <1>1, <2>1 DEF BatchProgress, FreshIsEmpty, IssuedIsUsable, PrepareSteps
  <2>4. WorksOnIssued' /\ OnTime' /\ AnswersAreCodes'
    BY <2>1 DEF WorksOnIssued, OnTime, AnswersAreCodes, FinalizeSteps, AbortSteps
  <2>5. StoredMeansCompleted' /\ AbortedStaysClosed'
    BY <2>1 DEF StoredMeansCompleted, AbortedStaysClosed, AnswersAreCodes
  <2>6. FinalizedIsTracked' /\ AckedIsTracked'
    BY <2>1 DEF FinalizedIsTracked, AckedIsTracked, AnswersAreCodes
  <2>7. QED
    BY <2>2, <2>3, <2>4, <2>5, <2>6
<1>2. CASE s \in Multipart
  <2>1. /\ call[r].at = "prepare"
        /\ s \in call[r].todo
        /\ call'[r].at = "presign"
        /\ call'[r].batch = call[r].batch
        /\ call'[r].todo = call[r].todo
        /\ call'[r].target = s
        /\ call'[r].began = call[r].began
        /\ call'[r].code = call[r].code
        /\ \A q \in Requests \ {r} : call'[q] = call[q]
        /\ UNCHANGED <<now, token, expires, object, tracked, acked>>
    BY <1>2 DEF PrepareFile, TypeOK, Calls
  <2>2. /\ upload[s] = "none" /\ token[s] = "minting"
        /\ upload'[s] = "open"
        /\ \A x \in Sessions \ {s} : upload'[x] = upload[x]
        /\ \A q \in Requests \ {r} : s \notin call[q].batch /\ s \notin call[q].todo
    BY <1>2, <2>1 DEF PrepareFile, BatchProgress, BatchOwned, TypeOK
  <2>3. BatchOwned'
    BY <2>1, BatchKept
  <2>4. BatchProgress'
    <3>1. \A q \in Requests : /\ call[q].batch \subseteq Sessions
                              /\ call[q].todo \subseteq Sessions
                              /\ call[q].target \in Sessions \cup {NoSession}
      BY DEF TypeOK, Calls
    <3>2. QED
      BY <1>2, <2>1, <2>2, <3>1 DEF BatchProgress, AnswersAreCodes, PrepareSteps
  <2>5. FreshIsEmpty' /\ IssuedIsUsable'
    BY <2>1, <2>2, SessionsAssumption DEF FreshIsEmpty, IssuedIsUsable
  <2>6. WorksOnIssued' /\ OnTime' /\ AnswersAreCodes'
    BY <2>1 DEF WorksOnIssued, OnTime, AnswersAreCodes, FinalizeSteps, AbortSteps
  <2>7. StoredMeansCompleted'
    BY <2>1, <2>2 DEF StoredMeansCompleted
  <2>8. AbortedStaysClosed'
    BY <2>1, <2>2, SessionsAssumption DEF AbortedStaysClosed, AnswersAreCodes
  <2>9. FinalizedIsTracked' /\ AckedIsTracked'
    BY <2>1 DEF FinalizedIsTracked, AckedIsTracked, AnswersAreCodes
  <2>10. QED
    BY <2>3, <2>4, <2>5, <2>6, <2>7, <2>8, <2>9
<1>3. QED
  BY <1>1, <1>2

LEMMA PresignPartsBookkeeping ==
  ASSUME Bookkeeping, TypeOK', NEW r \in Requests, PresignParts(r)
  PROVE  Bookkeeping'
<1> USE DEF Bookkeeping
<1>1. /\ call[r].at = "presign"
      /\ call'[r].at = "prepare"
      /\ call'[r].batch = call[r].batch
      /\ call'[r].todo = call[r].todo \ {call[r].target}
      /\ call'[r].began = call[r].began
      /\ call'[r].code = call[r].code
      /\ \A q \in Requests \ {r} : call'[q] = call[q]
      /\ UNCHANGED <<now, token, expires, upload, object, tracked, acked>>
  BY FileDoneEffect DEF PresignParts, TypeOK, tokens, bucket
<1>2. BatchOwned'
  BY <1>1, BatchKept
<1>3. BatchProgress'
  BY <1>1 DEF BatchProgress, PrepareSteps
<1>4. FreshIsEmpty' /\ IssuedIsUsable'
  BY <1>1 DEF FreshIsEmpty, IssuedIsUsable
<1>5. WorksOnIssued' /\ OnTime' /\ AnswersAreCodes'
  BY <1>1 DEF WorksOnIssued, OnTime, AnswersAreCodes, FinalizeSteps, AbortSteps
<1>6. StoredMeansCompleted' /\ AbortedStaysClosed'
  BY <1>1 DEF StoredMeansCompleted, AbortedStaysClosed, AnswersAreCodes
<1>7. FinalizedIsTracked' /\ AckedIsTracked'
  BY <1>1 DEF FinalizedIsTracked, AckedIsTracked, AnswersAreCodes
<1>8. QED
  BY <1>2, <1>3, <1>4, <1>5, <1>6, <1>7

(* A multipart upload ends: unwound by a failed prepare, or aborted or     *)
(* completed by a request.  It existed before, so nobody's progress moves. *)
LEMMA UploadEnds ==
  ASSUME Bookkeeping, TypeOK', NEW r \in Requests,
         Unwind(r) \/ Complete(r) \/ Abort(r)
  PROVE  Bookkeeping'
<1> USE DEF Bookkeeping
<1> DEFINE s == call[r].target
<1>1. /\ s \in Multipart
      /\ upload[s] \in {"open", "completed", "aborted"}
      /\ token[s] # "none"
  BY SessionsAssumption
     DEF Unwind, Complete, Abort, BatchProgress, BatchOwned, WorksOnIssued, TypeOK,
         IssuedIsUsable, FinalizeSteps, AbortSteps
<1>2. /\ call[r].at \in {"unwind", "complete", "abort"}
      /\ call'[r].at \in {"verify", "answer"}
      /\ call'[r].batch = call[r].batch
      /\ call'[r].todo = call[r].todo
      /\ call'[r].target = call[r].target
      /\ call'[r].began = call[r].began
      /\ call'[r].code \in {call[r].code, "STORAGE_ERROR", "aborted"}
      /\ call'[r].code = "aborted" => call[r].code = "aborted" \/ upload'[s] = "aborted"
      /\ call'[r].at = "verify" => call[r].at = "complete" /\ call'[r].code = call[r].code
      /\ \A q \in Requests \ {r} : call'[q] = call[q]
      /\ UNCHANGED <<now, token, expires, tracked, acked>>
  <2>1. CASE Unwind(r)
    BY <2>1, ReplyEffect DEF Unwind, TypeOK, Codes, tokens
  <2>2. CASE Complete(r)
    BY <2>2, ReplyEffect, GotoEffect
       DEF Complete, TypeOK, Codes, Steps, FinalizeSteps, tokens
  <2>3. CASE Abort(r)
    BY <1>1, <2>3, SessionsAssumption, ReplyEffect DEF Abort, TypeOK, Codes, tokens
  <2>4. QED
    BY <2>1, <2>2, <2>3
<1>3. /\ upload'[s] \in {upload[s], "completed", "aborted"}
      /\ upload'[s] # upload[s] => upload[s] = "open" \/ call[r].at = "unwind"
      /\ \A x \in Sessions \ {s} : upload'[x] = upload[x] /\ object'[x] = object[x]
      /\ object'[s] # object[s] => upload'[s] = "completed" /\ call[r].at = "complete"
      /\ upload[s] = "completed" /\ call[r].at # "unwind" => upload'[s] = "completed"
  BY <1>1, SessionsAssumption DEF Unwind, Complete, Store, Abort, TypeOK, bucket
<1>4. BatchOwned'
  BY <1>2, BatchKept
<1>5. BatchProgress'
  <2>1. \A x \in Sessions : upload'[x] = "none" <=> upload[x] = "none"
    BY <1>1, <1>3
  <2>2. call'[r].at \notin PrepareSteps /\ call'[r].code # "prepared"
    BY <1>2 DEF PrepareSteps, AnswersAreCodes
  <2>3. QED
    BY <1>2, <2>1, <2>2, ProgressKept
<1>6. FreshIsEmpty' /\ IssuedIsUsable'
  BY <1>1, <1>2, <1>3, SessionsAssumption DEF FreshIsEmpty, IssuedIsUsable
<1>7. WorksOnIssued' /\ OnTime' /\ AnswersAreCodes'
  BY <1>2, SessionsAssumption
     DEF WorksOnIssued, OnTime, AnswersAreCodes, FinalizeSteps, AbortSteps
<1>8. StoredMeansCompleted'
  <2>1. call[r].at = "unwind" => token[s] = "minting"
    BY DEF BatchProgress, BatchOwned
  <2>2. call[r].at = "complete" => token[s] = "issued"
    BY DEF WorksOnIssued, FinalizeSteps
  <2>3. QED
    BY <1>1, <1>2, <1>3, <2>1, <2>2, SessionsAssumption DEF StoredMeansCompleted
<1>9. AbortedStaysClosed'
  BY <1>1, <1>2, <1>3, SessionsAssumption DEF AbortedStaysClosed, AnswersAreCodes
<1>10. FinalizedIsTracked' /\ AckedIsTracked'
  BY <1>2 DEF FinalizedIsTracked, AckedIsTracked, AnswersAreCodes
<1>11. QED
  BY <1>4, <1>5, <1>6, <1>7, <1>8, <1>9, <1>10

(* A finalize or abort request arrives.                                    *)
LEMMA ArrivalBookkeeping ==
  ASSUME Bookkeeping, TypeOK', NEW r \in Requests, NEW s \in Sessions,
         \/ \E sent \in SUBSET Parts : BeginFinalize(r, s, sent)
         \/ RefuseExpired(r, s) \/ BeginAbort(r, s)
  PROVE  Bookkeeping'
<1> USE DEF Bookkeeping
<1>1. /\ call'[r].at \in {"probe", "verify", "abortProbe", "answer"}
      /\ call'[r].at \in {"probe", "abortProbe"} => s \in Multipart
      /\ call'[r].at # "answer" => now <= expires[s]
      /\ call'[r].batch = {}
      /\ call'[r].todo = {}
      /\ call'[r].target = s
      /\ call'[r].began = now
      /\ call'[r].code \in {"none", "EXPIRED", "aborted"}
      /\ call'[r].code # "none" => call'[r].at = "answer"
      /\ call'[r].code = "aborted" => s \notin Multipart
      /\ \A q \in Requests \ {r} : call'[q] = call[q]
      /\ token[s] = "issued"
      /\ UNCHANGED <<now, token, expires, upload, object, tracked, acked>>
  <2>1. PICK step \in {"probe", "verify", "abortProbe", "answer"},
             sent \in SUBSET Parts, c \in {"none", "EXPIRED", "aborted"} :
          /\ Arrive(r, step, {}, s, sent, c)
          /\ step \in {"probe", "abortProbe"} => s \in Multipart
          /\ step # "answer" => now <= expires[s]
          /\ c # "none" => step = "answer"
          /\ c = "aborted" => s \notin Multipart
    BY DEF BeginFinalize, RefuseExpired, BeginAbort, Expired, TypeOK
  <2>2. /\ token[s] = "issued"
        /\ UNCHANGED <<now, token, expires, upload, object, tracked, acked>>
    BY DEF BeginFinalize, RefuseExpired, BeginAbort, tokens, bucket
  <2>3. step \in Steps /\ c \in Codes
    BY DEF Steps, FinalizeSteps, AbortSteps, Codes
  <2>4. QED
    BY <2>1, <2>2, <2>3, ArriveEffect DEF TypeOK
<1>2. BatchOwned'
  BY <1>1 DEF BatchOwned
<1>3. BatchProgress'
  <2>1. call'[r].at \notin PrepareSteps /\ call'[r].code # "prepared"
    BY <1>1 DEF PrepareSteps
  <2>2. QED
    BY <1>1, <2>1, ProgressKept
<1>4. FreshIsEmpty' /\ IssuedIsUsable'
  BY <1>1 DEF FreshIsEmpty, IssuedIsUsable
<1>5. WorksOnIssued' /\ OnTime' /\ AnswersAreCodes'
  BY <1>1, TimeAssumption
     DEF WorksOnIssued, OnTime, AnswersAreCodes, TypeOK, FinalizeSteps, AbortSteps
<1>6. StoredMeansCompleted' /\ AbortedStaysClosed'
  BY <1>1 DEF StoredMeansCompleted, AbortedStaysClosed
<1>7. FinalizedIsTracked' /\ AckedIsTracked'
  BY <1>1 DEF FinalizedIsTracked, AckedIsTracked
<1>8. QED
  BY <1>2, <1>3, <1>4, <1>5, <1>6, <1>7

(* onUploadComplete runs.                                                  *)
LEMMA CallbackBookkeeping ==
  ASSUME Bookkeeping, TypeOK', NEW r \in Requests, RunCallback(r) \/ CallbackThrows(r)
  PROVE  Bookkeeping'
<1> USE DEF Bookkeeping
<1>1. /\ call[r].at = "callback"
      /\ call'[r].at = "answer"
      /\ call'[r].batch = call[r].batch
      /\ call'[r].todo = call[r].todo
      /\ call'[r].target = call[r].target
      /\ call'[r].began = call[r].began
      /\ call'[r].code \in {"finalized", "CALLBACK_ERROR"}
      /\ \A q \in Requests \ {r} : call'[q] = call[q]
      /\ UNCHANGED <<now, token, expires, upload, object, acked>>
  BY ReplyEffect DEF RunCallback, CallbackThrows, TypeOK, Codes, tokens, bucket
<1>2. /\ \A s \in Sessions : tracked[s] => tracked'[s]
      /\ call'[r].code = "finalized" => call[r].target \in Sessions /\ tracked'[call[r].target]
  <2>1. call[r].target \in Sessions
    BY <1>1 DEF WorksOnIssued, FinalizeSteps
  <2>2. CASE RunCallback(r)
    BY <2>1, <2>2 DEF RunCallback, TypeOK
  <2>3. CASE CallbackThrows(r)
    BY <2>1, <2>3, ReplyEffect DEF CallbackThrows, TypeOK, Codes
  <2>4. QED
    BY <2>2, <2>3
<1>3. BatchOwned'
  BY <1>1, BatchKept
<1>4. BatchProgress'
  <2>1. call'[r].at \notin PrepareSteps /\ call'[r].code # "prepared"
    BY <1>1 DEF PrepareSteps
  <2>2. QED
    BY <1>1, <2>1, ProgressKept
<1>5. FreshIsEmpty' /\ IssuedIsUsable' /\ StoredMeansCompleted' /\ AbortedStaysClosed'
  BY <1>1 DEF FreshIsEmpty, IssuedIsUsable, StoredMeansCompleted, AbortedStaysClosed
<1>6. WorksOnIssued' /\ OnTime' /\ AnswersAreCodes'
  BY <1>1 DEF WorksOnIssued, OnTime, AnswersAreCodes, FinalizeSteps, AbortSteps
<1>7. FinalizedIsTracked' /\ AckedIsTracked'
  BY <1>1, <1>2 DEF FinalizedIsTracked, AckedIsTracked
<1>8. QED
  BY <1>3, <1>4, <1>5, <1>6, <1>7

(* Batches that only shrink, while no token changes, keep their owners.     *)
LEMMA ShrunkBatches ==
  ASSUME BatchOwned, UNCHANGED token,
         \A q \in Requests : call'[q].batch \subseteq call[q].batch
                          /\ call'[q].todo \subseteq call'[q].batch
  PROVE  BatchOwned'
BY DEF BatchOwned

(* Ends of invocations, direct uploads and the clock.                      *)
LEMMA OtherBookkeeping ==
  ASSUME Bookkeeping, TypeOK',
         \/ \E r \in Requests : Crash(r) \/ Deliver(r)
         \/ Client \/ Tick \/ UNCHANGED vars
  PROVE  Bookkeeping'
<1> USE SessionsAssumption, TimeAssumption
        DEF Bookkeeping, BatchOwned, BatchProgress, FreshIsEmpty, WorksOnIssued,
            OnTime, AnswersAreCodes, StoredMeansCompleted, AbortedStaysClosed,
            FinalizedIsTracked, AckedIsTracked, IssuedIsUsable, TypeOK,
            tokens, bucket, Steps, Codes, PrepareSteps, FinalizeSteps, AbortSteps
<1>1. ASSUME NEW r \in Requests, Crash(r) PROVE Bookkeeping'
  <2>1. /\ call'[r].at = "idle"
        /\ call'[r].batch = {}
        /\ call'[r].todo = {}
        /\ call'[r].code = "none"
        /\ \A q \in Requests \ {r} : call'[q] = call[q]
    BY <1>1, IdleEffect DEF Crash
  <2>2. BatchOwned'
    BY <1>1, <2>1 DEF Crash, Forget, Calls
  <2>3. QED
    BY <1>1, <2>1, <2>2 DEF Crash, Forget
<1>2. ASSUME NEW r \in Requests, Deliver(r) PROVE Bookkeeping'
  <2>1. /\ call'[r].at = "idle"
        /\ call'[r].batch = {}
        /\ call'[r].todo = {}
        /\ call'[r].code = "none"
        /\ \A q \in Requests \ {r} : call'[q] = call[q]
    BY <1>2, IdleEffect DEF Deliver
  <2>2. CASE call[r].code = "finalized"
    <3>1. UNCHANGED token
      BY <1>2, <2>2 DEF Deliver
    <3>2. \A q \in Requests : call'[q].batch \subseteq call[q].batch
                          /\ call'[q].todo \subseteq call'[q].batch
      BY <2>1
    <3>3. BatchOwned'
      BY <3>1, <3>2, ShrunkBatches
    <3>4. QED
      BY <1>2, <2>1, <2>2, <3>1, <3>3 DEF Deliver
  <2>3. CASE call[r].code # "finalized"
    <3>1. BatchOwned'
      BY <1>2, <2>1, <2>3 DEF Deliver, Forget, Calls
    <3>2. QED
      BY <1>2, <2>1, <2>3, <3>1 DEF Deliver, Forget
  <2>4. QED
    BY <2>2, <2>3
<1>3. ASSUME NEW s \in Sessions, NEW p \in Parts, UploadPart(s, p) PROVE Bookkeeping'
  BY <1>3 DEF UploadPart
<1>4. ASSUME NEW s \in Sessions, PutObject(s) PROVE Bookkeeping'
  BY <1>4 DEF PutObject, UrlValid, Store
<1>5. CASE Tick
  <2>1. OnTime'
    BY <1>5 DEF Tick, Calls
  <2>2. QED
    BY <1>5, <2>1 DEF Tick
<1>6. CASE UNCHANGED vars
  BY <1>6 DEF vars
<1>7. QED
  BY <1>1, <1>2, <1>3, <1>4, <1>5, <1>6 DEF Client

LEMMA NextBookkeeping == Bookkeeping /\ [Next]_vars => Bookkeeping'
<1> SUFFICES ASSUME Bookkeeping, [Next]_vars PROVE Bookkeeping'
  OBVIOUS
<1>1. TypeOK'
  BY NextTypeOK DEF Bookkeeping
<1>2. QED
  BY <1>1, SessionsAssumption, QuietBookkeeping, BeginPrepareBookkeeping,
     PrepareFileBookkeeping, PresignPartsBookkeeping, UploadEnds, ArrivalBookkeeping,
     CallbackBookkeeping, OtherBookkeeping
     DEF Next, Handler, Prepare, Finalize, AbortUpload

-----------------------------------------------------------------------------
(***************************************************************************)
(* A stored object never disappears under the requests, and changes only   *)
(* through a signed PUT that is still valid: a completed multipart upload  *)
(* cannot be completed again.                                              *)
(***************************************************************************)
LEMMA ObjectStays ==
  ASSUME Bookkeeping, [Next]_vars, NEW s \in Sessions, object[s] # "absent"
  PROVE  /\ object'[s] # "absent"
         /\ object'[s] # object[s] => s \notin Multipart /\ now <= expires[s] + HandlerTime
<1> USE DEF Bookkeeping
<1>1. CASE \E r \in Requests : Complete(r)
  <2>1. PICK r \in Requests : Complete(r)
    BY <1>1
  <2>2. call[r].target \in Multipart
    BY <2>1 DEF Complete, WorksOnIssued, FinalizeSteps
  <2>3. upload[call[r].target] = "open" => call[r].target # s
    BY <2>2 DEF StoredMeansCompleted
  <2>4. QED
    BY <2>1, <2>2, <2>3, SessionsAssumption DEF Complete, Store, TypeOK, bucket
<1>2. CASE \E x \in Sessions : PutObject(x)
  BY <1>2 DEF PutObject, UrlValid, Store, TypeOK
<1>3. CASE UNCHANGED object
  BY <1>3
<1>4. QED
  BY <1>1, <1>2, <1>3
     DEF Next, Client, Handler, Prepare, Finalize, AbortUpload, vars, bucket, Tick,
         UploadPart, BeginPrepare, PrepareFile, PresignParts, PresignFails, Unwind,
         PrepareFails, PrepareReplies, BeginFinalize, RefuseExpired, Probe, Verify,
         Validate, RunCallback, CallbackThrows, BeginAbort, AbortProbe, Abort,
         StorageFails, Crash, Deliver

(* Records appear in a callback, in time, and never disappear.             *)
LEMMA TrackedGrows ==
  ASSUME Bookkeeping, [Next]_vars, NEW s \in Sessions, tracked'[s] # tracked[s]
  PROVE  /\ tracked'[s] /\ ~tracked[s]
         /\ object' = object
         /\ \E r \in Requests : call[r].at = "callback" /\ call[r].target = s
<1> USE DEF Bookkeeping
<1>1. CASE \E r \in Requests : RunCallback(r) \/ CallbackThrows(r)
  BY <1>1 DEF RunCallback, CallbackThrows, TypeOK, bucket
<1>2. CASE UNCHANGED tracked
  BY <1>2
<1>3. QED
  BY <1>1, <1>2
     DEF Next, Client, Handler, Prepare, Finalize, AbortUpload, vars, Tick,
         UploadPart, PutObject, BeginPrepare, PrepareFile, PresignParts, PresignFails,
         Unwind, PrepareFails, PrepareReplies, BeginFinalize, RefuseExpired, Probe,
         Complete, Verify, Validate, BeginAbort, AbortProbe, Abort,
         StorageFails, Crash, Deliver

(* An invocation comes to validate only from a look at the object, and     *)
(* leaves it by an answer or a crash.                                      *)
LEMMA VerifyingStep ==
  ASSUME Bookkeeping, [Next]_vars, NEW r \in Requests, NEW s \in Sessions
  PROVE  \/ Verifying(r, s)' = Verifying(r, s)
         \/ /\ Verify(r) /\ call[r].at = "verify" /\ call[r].target = s
            /\ object[s] = "whole" /\ Verifying(r, s)'
         \/ /\ Verifying(r, s) /\ ~Verifying(r, s)'
            /\ Validate(r) \/ RunCallback(r) \/ CallbackThrows(r) \/ Crash(r)
<1> USE DEF Bookkeeping, Verifying
<1>1. ASSUME NEW q \in Requests, q # r, Handler(q) PROVE call'[r] = call[r]
  BY <1>1
     DEF Handler, Prepare, Finalize, AbortUpload, Arrive, Goto, Reply, FileDone, TypeOK,
         BeginPrepare, PrepareFile, PresignParts, PresignFails, Unwind, PrepareFails,
         PrepareReplies, BeginFinalize, RefuseExpired, Probe, Complete, Verify, Validate,
         RunCallback, CallbackThrows, BeginAbort, AbortProbe, Abort, StorageFails, Crash,
         Deliver
<1>2. CASE Handler(r)
  <2>1. CASE Verify(r)
    BY <2>1, GotoEffect, ReplyEffect DEF Verify, TypeOK, Steps, Codes, FinalizeSteps
  <2>2. CASE Validate(r)
    BY <2>2, GotoEffect, ReplyEffect DEF Validate, TypeOK, Steps, Codes, FinalizeSteps
  <2>3. CASE RunCallback(r) \/ CallbackThrows(r)
    BY <2>3, ReplyEffect DEF RunCallback, CallbackThrows, TypeOK, Codes
  <2>4. CASE Crash(r)
    BY <2>4, IdleEffect DEF Crash, TypeOK
  <2>5. CASE ~(Verify(r) \/ Validate(r) \/ RunCallback(r) \/ CallbackThrows(r) \/ Crash(r))
    <3> SUFFICES /\ call[r].at \notin {"validate", "callback"}
                 /\ call'[r].at \notin {"validate", "callback"}
      OBVIOUS
    <3> USE DEF TypeOK
    <3>1. CASE Prepare(r)
      <4>1. CASE \E files \in SUBSET Sessions : BeginPrepare(r, files)
        BY <4>1 DEF BeginPrepare, Arrive, Calls
      <4>2. ASSUME NEW x \in Sessions, PrepareFile(r, x)
            PROVE  /\ call[r].at \notin {"validate", "callback"}
                   /\ call'[r].at \notin {"validate", "callback"}
        BY <4>2, FileDoneEffect DEF PrepareFile, Calls
      <4>3. CASE PresignParts(r)
        BY <4>3, FileDoneEffect DEF PresignParts
      <4>4. CASE PresignFails(r) \/ Unwind(r) \/ PrepareFails(r) \/ PrepareReplies(r)
        BY <4>4 DEF PresignFails, Unwind, PrepareFails, PrepareReplies, Goto, Reply, Calls
      <4>5. QED
        BY <3>1, <4>1, <4>2, <4>3, <4>4 DEF Prepare
    <3>2. CASE Probe(r) \/ Complete(r)
      BY <3>2 DEF Probe, Complete, Goto, Reply, Calls
    <3>3. CASE \E x \in Sessions, sent \in SUBSET Parts :
                 BeginFinalize(r, x, sent) \/ RefuseExpired(r, x) \/ BeginAbort(r, x)
      BY <3>3 DEF BeginFinalize, RefuseExpired, BeginAbort, Arrive, Calls
    <3>4. CASE AbortProbe(r) \/ Abort(r) \/ StorageFails(r)
      BY <3>4 DEF AbortProbe, Abort, StorageFails, Goto, Reply, Calls
    <3>5. CASE Deliver(r)
      BY <3>5 DEF Deliver, Idle
    <3>6. QED
      BY <1>2, <2>5, <3>1, <3>2, <3>3, <3>4, <3>5, SessionsAssumption
         DEF Handler, Finalize, AbortUpload
  <2>6. QED
    BY <2>1, <2>2, <2>3, <2>4, <2>5
<1>3. CASE Tick \/ Client \/ UNCHANGED vars
  BY <1>3 DEF Tick, Client, UploadPart, PutObject, vars
<1>4. QED
  BY <1>1, <1>2, <1>3 DEF Next

(* So what an invocation is about to record has been seen whole.           *)
LEMMA VerifiedBySight ==
  ASSUME Bookkeeping, [Next]_vars, NEW r \in Requests, NEW s \in Sessions,
         Verifying(r, s)'
  PROVE  Verifying(r, s) \/ object[s] = "whole"
BY VerifyingStep

LEMMA NextIInv == IInv /\ [Next]_vars => IInv'
<1> SUFFICES ASSUME IInv, [Next]_vars PROVE IInv'
  OBVIOUS
<1>1. Bookkeeping'
  BY NextBookkeeping DEF IInv
<1>2. VerifiedStays'
  <2> SUFFICES ASSUME NEW r \in Requests, NEW s \in Sessions, Verifying(r, s)'
               PROVE  object'[s] # "absent" /\ (s \in Multipart => object'[s] = "whole")
    BY DEF VerifiedStays
  <2>1. object[s] # "absent" /\ (s \in Multipart => object[s] = "whole")
    BY VerifiedBySight DEF IInv, VerifiedStays
  <2>2. QED
    BY <2>1, ObjectStays DEF IInv
<1>3. TrackedIsStored'
  <2> SUFFICES ASSUME NEW s \in Sessions, tracked'[s]
               PROVE  object'[s] # "absent" /\ (s \in Multipart => object'[s] = "whole")
    BY DEF TrackedIsStored
  <2>1. object[s] # "absent" /\ (s \in Multipart => object[s] = "whole")
    <3>1. CASE tracked[s]
      BY <3>1 DEF IInv, TrackedIsStored
    <3>2. CASE ~tracked[s]
      BY <3>2, TrackedGrows DEF IInv, VerifiedStays, Verifying
    <3>3. QED
      BY <3>1, <3>2
  <2>2. QED
    BY <2>1, ObjectStays DEF IInv
<1>4. QED
  BY <1>1, <1>2, <1>3 DEF IInv

LEMMA InitIInv == Init => IInv
BY InitBookkeeping DEF Init, Idle, IInv, VerifiedStays, Verifying, TrackedIsStored

(* The inductive invariant holds in every reachable state, whatever the    *)
(* clients send and however often they repeat a signed PUT.                *)
THEOREM Invariance == Spec => []IInv
BY InitIInv, NextIInv, PTL DEF Spec

(* A recorded file is in the bucket, and a multipart file is the one that  *)
(* was verified, whatever the interleaving of requests, retries, crashes   *)
(* and direct uploads.                                                     *)
THEOREM RecordedFilesAreStored == Spec => []TrackedIsStored
<1>1. IInv => TrackedIsStored
  BY DEF IInv
<1>2. QED
  BY <1>1, Invariance, PTL

(* Stored files are final: assembled ones at once, the others when their   *)
(* signed URL has run out.                                                 *)
THEOREM FilesSettle == Spec => ObjectsSettle
<1>1. IInv /\ [Next]_vars
        => [\A s \in Sessions :
              object[s] # "absent" /\ object'[s] # object[s]
                => s \notin Multipart /\ now <= expires[s] + HandlerTime]_vars
  BY ObjectStays DEF IInv
<1>2. QED
  BY <1>1, Invariance, PTL DEF Spec, ObjectsSettle

(* Every session handed to a client has the multipart upload it needs.     *)
THEOREM HandedOutSessionsAreUsable == Spec => []IssuedIsUsable
<1>1. IInv => IssuedIsUsable
  BY DEF IInv, Bookkeeping
<1>2. QED
  BY <1>1, Invariance, PTL

(* A client told that its upload was removed leaves no open upload behind. *)
THEOREM AbortedUploadsAreClosed == Spec => []AbortedIsClosed
<1>1. IInv => AbortedIsClosed
  BY DEF IInv, Bookkeeping, AbortedStaysClosed, AbortedIsClosed
<1>2. QED
  BY <1>1, Invariance, PTL

LEMMA StepTrackedInTime ==
  ASSUME Bookkeeping, [Next]_vars, NEW s \in Sessions, tracked'[s] # tracked[s]
  PROVE  now <= expires[s] + HandlerTime
<1>1. PICK r \in Requests : call[r].at = "callback" /\ call[r].target = s
  BY TrackedGrows
<1>2. call[r].began <= expires[s] /\ now <= call[r].began + HandlerTime
  BY <1>1 DEF Bookkeeping, WorksOnIssued, OnTime, FinalizeSteps
<1>3. now \in Nat /\ call[r].began \in Nat /\ expires[s] \in Nat
  BY DEF Bookkeeping, TypeOK, Calls
<1>4. QED
  BY <1>2, <1>3, TimeAssumption

(* A file is recorded at most one handler's run after its session's end.  *)
THEOREM RecordsAppearInTime == Spec => TrackedInTime
<1>1. IInv /\ [Next]_vars
        => [\A s \in Sessions : tracked'[s] # tracked[s]
              => now <= expires[s] + HandlerTime]_vars
  BY StepTrackedInTime DEF IInv
<1>2. QED
  BY <1>1, Invariance, PTL DEF Spec, TrackedInTime

-----------------------------------------------------------------------------
(***************************************************************************)
(* The protocol implements its contract.                                   *)
(***************************************************************************)

(* An answer that hands tokens over, or a batch that is lost, and the      *)
(* clock: the only steps that can end the retention of several sessions.   *)
LEMMA RetentionStep ==
  ASSUME Bookkeeping, [Next]_vars
  PROVE  \/ \A s \in Sessions : RetentionEnded(s)' = RetentionEnded(s)
         \/ /\ \A s \in Sessions : RetentionEnded(s) => RetentionEnded(s)'
            /\ \A s \in Sessions : Verified(s)' = Verified(s)
            /\ UNCHANGED <<object, tracked, acked>>
<1> USE DEF Bookkeeping
<1>1. CASE UNCHANGED <<now, token, retainUntil>>
  BY <1>1 DEF RetentionEnded
<1>2. CASE \E r \in Requests, s \in Sessions : PrepareFile(r, s)
  <2>1. PICK r \in Requests, s \in Sessions : PrepareFile(r, s)
    BY <1>2
  <2>2. token[s] = "minting" /\ token' = token /\ now' = now
    BY <2>1 DEF PrepareFile, BatchOwned
  <2>3. \A x \in Sessions \ {s} : retainUntil'[x] = retainUntil[x]
    BY <2>1 DEF PrepareFile, TypeOK
  <2>4. QED
    BY <2>2, <2>3 DEF RetentionEnded
<1>3. CASE \E r \in Requests, files \in SUBSET Sessions : BeginPrepare(r, files)
  BY <1>3 DEF BeginPrepare, RetentionEnded, TypeOK
<1>4. CASE Tick
  BY <1>4 DEF Tick, RetentionEnded, Verified, Verifying, TypeOK, tokens, bucket
<1>5. ASSUME NEW r \in Requests, Crash(r) \/ (Deliver(r) /\ call[r].code # "finalized")
      PROVE  /\ \A s \in Sessions : RetentionEnded(s) => RetentionEnded(s)'
             /\ UNCHANGED <<object, tracked, acked>>
  BY <1>5 DEF Crash, Deliver, Forget, RetentionEnded, TypeOK, bucket
<1>6. ASSUME NEW r \in Requests, Crash(r) \/ Deliver(r), call[r].at \notin {"validate", "callback"}
      PROVE  \A s \in Sessions : Verified(s)' = Verified(s)
  <2>1. call'[r].at = "idle" /\ \A q \in Requests \ {r} : call'[q] = call[q]
    BY <1>6, IdleEffect DEF Crash, Deliver, TypeOK
  <2>2. QED
    BY <1>6, <2>1 DEF Verified, Verifying
<1>7. ASSUME NEW r \in Requests, Crash(r), call[r].at \in {"validate", "callback"}
      PROVE  \A s \in Sessions : RetentionEnded(s)' = RetentionEnded(s)
  <2>1. call[r].batch = {}
    BY <1>7 DEF WorksOnIssued, FinalizeSteps
  <2>2. token' = token
    BY <1>7, <2>1 DEF Crash, Forget, TypeOK
  <2>3. QED
    BY <1>7, <2>2 DEF Crash, RetentionEnded
<1>8. CASE \E r \in Requests : Crash(r) \/ (Deliver(r) /\ call[r].code # "finalized")
  BY <1>5, <1>6, <1>7, <1>8 DEF Deliver
<1>9. CASE \E r \in Requests : Deliver(r) /\ call[r].code = "finalized"
  BY <1>9 DEF Deliver, RetentionEnded
<1>10. QED
  BY <1>1, <1>2, <1>3, <1>4, <1>8, <1>9
     DEF Next, Client, Handler, Prepare, Finalize, AbortUpload, vars, tokens,
         UploadPart, PutObject, PresignParts, PresignFails, Unwind,
         PrepareFails, PrepareReplies, BeginFinalize, RefuseExpired, Probe, Complete,
         Verify, Validate, RunCallback, CallbackThrows, BeginAbort, AbortProbe, Abort,
         StorageFails

(* Only an assembly or a signed PUT stores anything, and does nothing else. *)
LEMMA StoreStep ==
  ASSUME Bookkeeping, [Next]_vars, object' # object
  PROVE  /\ \E s \in Sessions : (object[s] = "absent" \/ s \notin Multipart) /\ Store(s)
         /\ UNCHANGED <<tracked, acked>>
         /\ \A s \in Sessions : Record(s)' = Record(s)
<1> USE DEF Bookkeeping
<1>1. ASSUME NEW r \in Requests, Complete(r)
      PROVE  /\ \E s \in Sessions : (object[s] = "absent" \/ s \notin Multipart) /\ Store(s)
             /\ UNCHANGED <<now, token, retainUntil, tracked, acked>>
             /\ \A s \in Sessions : Verified(s)' = Verified(s)
  <2>1. call[r].at = "complete" /\ call[r].target \in Multipart /\ call[r].target \in Sessions
    BY <1>1 DEF Complete, WorksOnIssued, FinalizeSteps
  <2>2. upload[call[r].target] = "open" /\ Store(call[r].target)
    BY <1>1 DEF Complete, bucket
  <2>3. object[call[r].target] = "absent"
    BY <2>1, <2>2 DEF StoredMeansCompleted
  <2>4. call'[r].at \notin {"validate", "callback"} /\ \A q \in Requests \ {r} : call'[q] = call[q]
    BY <1>1, GotoEffect, ReplyEffect DEF Complete, TypeOK, Steps, FinalizeSteps, Codes
  <2>5. UNCHANGED <<now, token, retainUntil, tracked, acked>>
    BY <1>1 DEF Complete, tokens
  <2>6. QED
    BY <2>1, <2>2, <2>3, <2>4, <2>5 DEF Verified, Verifying
<1>2. ASSUME NEW x \in Sessions, PutObject(x)
      PROVE  /\ \E s \in Sessions : (object[s] = "absent" \/ s \notin Multipart) /\ Store(s)
             /\ UNCHANGED <<now, token, retainUntil, tracked, acked>>
             /\ \A s \in Sessions : Verified(s)' = Verified(s)
  BY <1>2 DEF PutObject, tokens, Verified, Verifying
<1>3. \/ \E r \in Requests : Complete(r)
      \/ \E x \in Sessions : PutObject(x)
  BY DEF Next, Client, Handler, Prepare, Finalize, AbortUpload, vars, bucket, Tick,
         UploadPart, BeginPrepare, PrepareFile, PresignParts, PresignFails, Unwind,
         PrepareFails, PrepareReplies, BeginFinalize, RefuseExpired, Probe, Verify,
         Validate, RunCallback, CallbackThrows, BeginAbort, AbortProbe, Abort,
         StorageFails, Crash, Deliver
<1>4. QED
  BY <1>1, <1>2, <1>3 DEF Record, RetentionEnded

(* What an invocation that has just verified a file, or is about to record *)
(* it, does to the records.                                                *)
LEMMA VerifierEffect ==
  ASSUME Bookkeeping, [Next]_vars, NEW r \in Requests,
         \/ Verify(r) \/ Validate(r) \/ RunCallback(r) \/ CallbackThrows(r)
         \/ Crash(r) /\ call[r].at \in {"validate", "callback"}
  PROVE  \E s \in Sessions :
           /\ \A x \in Sessions \ {s} : tracked'[x] = tracked[x] /\ Verified(x)' = Verified(x)
           /\ acked' = acked
           /\ Verified(s) \/ (tracked' = tracked /\ (Verified(s)' => object[s] = "whole"))
           /\ tracked[s] => tracked'[s]
<1> USE DEF Bookkeeping
<1>0. call[r].target \in Sessions /\ call[r].at \in {"verify", "validate", "callback"}
  BY DEF Verify, Validate, RunCallback, CallbackThrows, WorksOnIssued, FinalizeSteps
<1>s. PICK s \in Sessions : s = call[r].target
  BY <1>0
<1>1. s = call[r].target /\ call[r].at \in {"verify", "validate", "callback"}
  BY <1>0, <1>s
<1>2. /\ \A x \in Sessions \ {s} : tracked'[x] = tracked[x]
      /\ acked' = acked
      /\ tracked[s] => tracked'[s]
      /\ call[r].at = "verify" => tracked' = tracked
  BY <1>1 DEF Verify, Validate, RunCallback, CallbackThrows, Crash, TypeOK
<1>3. /\ \A q \in Requests \ {r} : call'[q] = call[q]
      /\ call'[r].at \in {"validate", "callback"} => call'[r].target = s
  <2>1. CASE Verify(r) \/ Validate(r)
    BY <1>1, <2>1, GotoEffect, ReplyEffect DEF Verify, Validate, TypeOK, Steps, Codes, FinalizeSteps
  <2>2. CASE RunCallback(r) \/ CallbackThrows(r)
    BY <1>1, <2>2, ReplyEffect DEF RunCallback, CallbackThrows, TypeOK, Codes
  <2>3. CASE Crash(r)
    BY <1>1, <2>3, IdleEffect DEF Crash, TypeOK
  <2>4. QED
    BY <2>1, <2>2, <2>3
<1>4. \A x \in Sessions \ {s} : Verified(x)' = Verified(x)
  <2>1. \A x \in Sessions \ {s}, q \in Requests : Verifying(q, x)' = Verifying(q, x)
    BY <1>1, <1>3 DEF Verifying
  <2>2. QED
    BY <2>1 DEF Verified
<1>5. call[r].at \in {"validate", "callback"} => Verified(s)
  BY <1>1 DEF Verified, Verifying
<1>6. ASSUME Verified(s)', ~Verified(s)
      PROVE  object[s] = "whole"
  <2>1. PICK q \in Requests : Verifying(q, s)'
    BY <1>6 DEF Verified
  <2>2. ~Verifying(q, s)
    BY <1>6 DEF Verified
  <2>3. QED
    BY <2>1, <2>2, VerifiedBySight
<1>7. Verified(s) \/ (tracked' = tracked /\ (Verified(s)' => object[s] = "whole"))
  BY <1>1, <1>2, <1>5, <1>6
<1>8. QED
  BY <1>1, <1>2, <1>4, <1>7

(* A step that stores nothing and ends no retention moves the record of    *)
(* one session at most, and by one stage.                                  *)
LEMMA RecordStep ==
  ASSUME Bookkeeping, [Next]_vars,
         \A s \in Sessions : RetentionEnded(s)' = RetentionEnded(s)
  PROVE  \/ \A s \in Sessions : Record(s)' = Record(s)
         \/ \E s \in Sessions :
              /\ \A x \in Sessions \ {s} : Record(x)' = Record(x)
              /\ \/ Record(s) = "none" /\ Record(s)' = "verified" /\ object[s] = "whole"
                 \/ Record(s) = "verified" /\ Record(s)' = "none"
                 \/ Record(s) = "verified" /\ Record(s)' = "tracked"
                 \/ Record(s) = "tracked" /\ Record(s)' = "acknowledged"
                 \/ Record(s)' = Record(s)
<1> USE DEF Bookkeeping
<1>0. \A s \in Sessions : acked[s] => tracked[s]
  BY DEF AckedIsTracked
<1>1. ASSUME NEW r \in Requests,
             \/ Verify(r) \/ Validate(r) \/ RunCallback(r) \/ CallbackThrows(r)
             \/ Crash(r) /\ call[r].at \in {"validate", "callback"}
      PROVE  \E s \in Sessions :
              /\ \A x \in Sessions \ {s} : Record(x)' = Record(x)
              /\ \/ Record(s) = "none" /\ Record(s)' = "verified" /\ object[s] = "whole"
                 \/ Record(s) = "verified" /\ Record(s)' = "none"
                 \/ Record(s) = "verified" /\ Record(s)' = "tracked"
                 \/ Record(s)' = Record(s)
  <2>1. PICK s \in Sessions :
           /\ \A x \in Sessions \ {s} : tracked'[x] = tracked[x] /\ Verified(x)' = Verified(x)
           /\ acked' = acked
           /\ Verified(s) \/ (tracked' = tracked /\ (Verified(s)' => object[s] = "whole"))
           /\ tracked[s] => tracked'[s]
    BY <1>1, VerifierEffect
  <2>2. \A x \in Sessions \ {s} : Record(x)' = Record(x)
    BY <2>1 DEF Record
  <2>3. \/ Record(s) = "none" /\ Record(s)' = "verified" /\ object[s] = "whole"
        \/ Record(s) = "verified" /\ Record(s)' = "none"
        \/ Record(s) = "verified" /\ Record(s)' = "tracked"
        \/ Record(s)' = Record(s)
    <3>1. CASE RetentionEnded(s) \/ acked[s] \/ tracked[s]
      BY <2>1, <3>1 DEF Record
    <3>2. CASE ~RetentionEnded(s) /\ ~acked[s] /\ ~tracked[s]
      BY <2>1, <3>2 DEF Record
    <3>3. QED
      BY <3>1, <3>2
  <2>4. QED
    BY <2>2, <2>3
<1>2. ASSUME NEW r \in Requests, Deliver(r), acked' # acked
      PROVE  \E s \in Sessions :
              /\ \A x \in Sessions \ {s} : Record(x)' = Record(x)
              /\ \/ Record(s) = "tracked" /\ Record(s)' = "acknowledged"
                 \/ Record(s)' = Record(s)
  <2>1. /\ call[r].target \in Sessions
        /\ tracked[call[r].target] /\ acked'[call[r].target]
        /\ \A x \in Sessions \ {call[r].target} : acked'[x] = acked[x]
        /\ tracked' = tracked
        /\ call[r].at = "answer"
    BY <1>2 DEF Deliver, FinalizedIsTracked, TypeOK
  <2>2. \A x \in Sessions : Verified(x)' = Verified(x)
    <3>1. call'[r].at = "idle" /\ \A q \in Requests \ {r} : call'[q] = call[q]
      BY <1>2, IdleEffect DEF Deliver, TypeOK
    <3>2. QED
      BY <2>1, <3>1 DEF Verified, Verifying
  <2>3. QED
    BY <2>1, <2>2 DEF Record
<1>3. CASE \E r \in Requests : \/ Verify(r) \/ Validate(r) \/ RunCallback(r) \/ CallbackThrows(r)
                               \/ Crash(r) /\ call[r].at \in {"validate", "callback"}
  BY <1>1, <1>3
<1>4. CASE \E r \in Requests : Deliver(r) /\ acked' # acked
  BY <1>2, <1>4
<1>5. CASE /\ ~ \E r \in Requests : \/ Verify(r) \/ Validate(r) \/ RunCallback(r) \/ CallbackThrows(r)
                                    \/ Crash(r) /\ call[r].at \in {"validate", "callback"}
           /\ ~ \E r \in Requests : Deliver(r) /\ acked' # acked
  <2>1. UNCHANGED <<tracked, acked>>
    BY <1>5
       DEF Next, Client, Handler, Prepare, Finalize, AbortUpload, vars, Tick,
           UploadPart, PutObject, BeginPrepare, PrepareFile, PresignParts, PresignFails,
           Unwind, PrepareFails, PrepareReplies, BeginFinalize, RefuseExpired, Probe,
           Complete, BeginAbort, AbortProbe, Abort, StorageFails, Crash, Deliver
  <2>2. \A r \in Requests, s \in Sessions : Verifying(r, s)' = Verifying(r, s)
    BY <1>5, VerifyingStep DEF Verifying
  <2>3. \A s \in Sessions : Verified(s)' = Verified(s)
    BY <2>2 DEF Verified
  <2>4. QED
    BY <2>1, <2>3 DEF Record
<1>6. QED
  BY <1>3, <1>4, <1>5

LEMMA ContractInit == Init => Contract!Init
BY DEF Init, Contract!Init, Record, RetentionEnded, Verified, Verifying, Idle

(* Every step of the server is one of the contract; it needs no more than  *)
(* the bookkeeping, so that it also holds where maintenance jobs delete.   *)
LEMMA ContractStep ==
  ASSUME Bookkeeping, Bookkeeping', [Next]_vars
  PROVE  [Contract!Next]_(Contract!contractVars)
<1> DEFINE rec == [s \in Sessions |-> Record(s)]
<1>1. CASE object' # object
  <2>1. PICK s \in Sessions : (object[s] = "absent" \/ s \notin Multipart) /\ Store(s)
    BY <1>1, StoreStep
  <2>2. rec' = rec
    BY <1>1, StoreStep
  <2>3. Contract!Put(s)
    BY <2>1, <2>2 DEF Contract!Put, Store
  <2>4. QED
    BY <2>3 DEF Contract!Next
<1>2. CASE /\ UNCHANGED <<object, tracked, acked>>
           /\ \A s \in Sessions : RetentionEnded(s) => RetentionEnded(s)'
           /\ \A s \in Sessions : Verified(s)' = Verified(s)
  <2> DEFINE ended == {s \in Temporary : RetentionEnded(s)'}
  <2>1. \A s \in Sessions : Record(s)' = IF s \in ended THEN "expired" ELSE Record(s)
    BY <1>2 DEF Record, RetentionEnded
  <2>2. rec' = [s \in Sessions |-> IF s \in ended THEN "expired" ELSE rec[s]]
    BY <2>1
  <2>3. Contract!Expire
    BY <1>2, <2>2 DEF Contract!Expire
  <2>4. QED
    BY <2>3 DEF Contract!Next
<1>3. CASE object' = object /\ \A s \in Sessions : RetentionEnded(s)' = RetentionEnded(s)
  <2>1. CASE \A s \in Sessions : Record(s)' = Record(s)
    <3>1. rec' = rec
      BY <2>1
    <3>2. QED
      BY <1>3, <3>1 DEF Contract!contractVars
  <2>2. ASSUME NEW s \in Sessions,
               \A x \in Sessions \ {s} : Record(x)' = Record(x),
               \/ Record(s) = "none" /\ Record(s)' = "verified" /\ object[s] = "whole"
               \/ Record(s) = "verified" /\ Record(s)' = "none"
               \/ Record(s) = "verified" /\ Record(s)' = "tracked"
               \/ Record(s) = "tracked" /\ Record(s)' = "acknowledged"
               \/ Record(s)' = Record(s)
        PROVE  [Contract!Next]_(Contract!contractVars)
    <3>1. rec' = [rec EXCEPT ![s] = Record(s)'] /\ rec[s] = Record(s)
      BY <2>2
    <3>2. \/ Contract!Verify(s) \/ Contract!GiveUp(s) \/ Contract!Track(s)
          \/ Contract!Acknowledge(s) \/ rec' = rec
      BY <1>3, <2>2, <3>1
         DEF Contract!Verify, Contract!GiveUp, Contract!Track, Contract!Acknowledge,
             Contract!Move
    <3>3. QED
      BY <1>3, <3>2 DEF Contract!Next, Contract!contractVars
  <2>3. QED
    BY <1>3, <2>1, <2>2, RecordStep
<1>4. QED
  BY <1>1, <1>2, <1>3, RetentionStep

(* Every behaviour of the server keeps the promise made to applications.   *)
THEOREM ContractKept == Spec => KeepsContract
<1>1. IInv /\ [Next]_vars => [Contract!Next]_(Contract!contractVars)
  BY ContractStep, NextIInv DEF IInv
<1>2. QED
  BY <1>1, ContractInit, Invariance, PTL DEF Spec, KeepsContract, Contract!Spec

=============================================================================
