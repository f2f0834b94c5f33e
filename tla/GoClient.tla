------------------------------ MODULE GoClient ------------------------------
(***************************************************************************)
(* Client.Upload of the Go SDK: one call prepares its files and takes them *)
(* one after the other; a small file is one PUT, a large one is sent by a  *)
(* pool of goroutines that share a cursor, a failure and the list of       *)
(* finished parts; then it is finalized.  Every request is retried.        *)
(*                                                                         *)
(* A step of a goroutine is what it does under one lock, or one request.   *)
(* The context may be cancelled between any two steps.                     *)
(*                                                                         *)
(* Simplifications.  The pauses between attempts take no time.  A part is  *)
(* taken once, so the sorted slice of finished parts is its set.  The      *)
(* server is what the client sees of it: a request may be executed or not, *)
(* whatever the client is told, and an error ends the call or is retried.  *)
(* Another call of Upload shares nothing with this one.                    *)
(*                                                                         *)
(* A definition XSlip is X with a plausible mistake, which the property    *)
(* named beside it must notice; no specification uses it.                  *)
(***************************************************************************)
EXTENDS Integers, FiniteSets

CONSTANTS
  FileCount,    \* files of the call
  Large,        \* those the server uploads in parts
  PartCount,    \* parts of a large file
  Concurrency,  \* partConcurrency
  Attempts      \* retryAttempts + 1

Files == 1..FileCount
Workers == 1..Concurrency

ASSUME GoClientAssumption ==
  /\ FileCount \in Nat \ {0}
  /\ Large \subseteq Files
  /\ PartCount \in Nat \ {0}
  /\ Concurrency \in Nat \ {0}
  /\ Attempts \in Nat \ {0}

PartsOf(f) == IF f \in Large THEN 1..PartCount ELSE {1}

(* Each attempt to prepare that reaches the server opens sessions of its   *)
(* own, one per file.                                                      *)
Sessions == (1..Attempts) \X Files

VARIABLES
  at,         \* what the call is doing
  file,       \* the file it is at
  tries,      \* which attempt of its own request it is at
  asked,      \* that attempt is under way
  prepared,   \* the attempt whose sessions it uses, 0 before
  worker,     \* the goroutines
  cursor,     \* parts taken
  failure,    \* a goroutine has recorded an error
  parts,      \* finished parts
  reported,   \* part counts the application was told for the file
  cancelled,  \* the context
  received,   \* parts of each session that have reached the bucket
  status      \* the sessions on the server

callVars == <<at, file, tries, asked, prepared>>
poolVars == <<worker, cursor, failure, parts, reported>>
serverVars == <<received, status>>
vars == <<callVars, poolVars, cancelled, serverVars>>

Gone == [step |-> "gone", part |-> 1, tries |-> 1, count |-> 0]
Starting == [Gone EXCEPT !.step = "take"]

WorkerStates ==
  [step : {"take", "try", "wait", "fail", "append", "count", "report", "gone"},
   part : 1..PartCount, tries : 1..Attempts, count : 0..PartCount]

TypeOK ==
  /\ at \in {"prepare", "put", "upload", "finalize", "done", "failed"}
  /\ file \in Files
  /\ tries \in 1..Attempts
  /\ asked \in BOOLEAN
  /\ prepared \in 0..Attempts
  /\ worker \in [Workers -> WorkerStates]
  /\ cursor \in 0..PartCount
  /\ failure \in BOOLEAN
  /\ parts \subseteq 1..PartCount
  /\ reported \subseteq 0..PartCount
  /\ cancelled \in BOOLEAN
  /\ received \in [Sessions -> SUBSET (1..PartCount)]
  /\ status \in [Sessions -> {"none", "open", "stored", "damaged"}]

Init ==
  /\ at = "prepare" /\ file = 1 /\ tries = 1 /\ asked = FALSE /\ prepared = 0
  /\ worker = [w \in Workers |-> Gone]
  /\ cursor = 0 /\ failure = FALSE /\ parts = {} /\ reported = {}
  /\ cancelled = FALSE
  /\ received = [s \in Sessions |-> {}]
  /\ status = [s \in Sessions |-> "none"]

Returned == at \in {"done", "failed"}

(* The session of the file the call is at.                                 *)
Current == <<prepared, file>>

(* The context is cancelled, or its deadline passes.                       *)
Cancel ==
  /\ ~cancelled /\ ~Returned
  /\ cancelled' = TRUE
  /\ UNCHANGED <<callVars, poolVars, serverVars>>

-----------------------------------------------------------------------------
(***************************************************************************)
(* The call                                                                *)
(***************************************************************************)
Fail ==
  /\ at' = "failed" /\ asked' = FALSE
  /\ UNCHANGED <<file, tries, prepared, poolVars>>

(* EventuallyReturns: the attempt that fails is not counted.               *)
AgainSlip(retryable) ==
  IF cancelled \/ ~retryable \/ tries = Attempts
  THEN Fail
  ELSE asked' = FALSE /\ UNCHANGED <<at, file, tries, prepared, poolVars>>

(* What retry does after an attempt that failed.                           *)
Again(retryable) ==
  IF cancelled \/ ~retryable \/ tries = Attempts
  THEN Fail
  ELSE /\ tries' = tries + 1 /\ asked' = FALSE
       /\ UNCHANGED <<at, file, prepared, poolVars>>

(* The call turns to its next request.                                     *)
Turn(next) == at' = next /\ tries' = 1 /\ asked' = FALSE

(* The call turns to file f: a large one starts the goroutines, no more of *)
(* them than there are parts.                                              *)
AtFile(f) ==
  /\ file' = f
  /\ cursor' = 0 /\ failure' = FALSE /\ parts' = {} /\ reported' = {}
  /\ IF f \in Large
     THEN /\ Turn("upload")
          /\ worker' = [w \in Workers |-> IF w <= PartCount THEN Starting ELSE Gone]
     ELSE Turn("put") /\ UNCHANGED worker

(* An attempt begins, unless the context is cancelled already.             *)
Ask ==
  /\ at \in {"prepare", "put", "finalize"} /\ ~asked
  /\ IF cancelled
     THEN Fail
     ELSE asked' = TRUE /\ UNCHANGED <<at, file, tries, prepared, poolVars>>
  /\ UNCHANGED <<cancelled, serverVars>>

(* The server opens the sessions of the first n files, of all of them when *)
(* the call is answered.                                                   *)
PrepareAnswer ==
  /\ at = "prepare" /\ asked
  /\ \E n \in 0..FileCount :
       /\ status' = [s \in Sessions |->
                       IF s[1] = tries /\ s[2] <= n THEN "open" ELSE status[s]]
       /\ \/ n = FileCount /\ prepared' = tries /\ AtFile(1)
          \/ \E retryable \in BOOLEAN : Again(retryable)
  /\ UNCHANGED <<cancelled, received>>

PutAnswer ==
  /\ at = "put" /\ asked
  /\ \E reached \in BOOLEAN :
       /\ received' = IF reached THEN [received EXCEPT ![Current] = @ \cup {1}] ELSE received
       /\ \/ /\ reached
             /\ Turn("finalize") /\ reported' = {1}
             /\ UNCHANGED <<file, prepared, worker, cursor, failure, parts>>
          \/ Again(TRUE)
  /\ UNCHANGED <<cancelled, status>>

(* What a finalize makes of the session on the server: only all of the     *)
(* parts are the whole file.                                               *)
Finalized ==
  IF received[Current] = PartsOf(file) /\ (file \in Large => parts = PartsOf(file))
  THEN "stored" ELSE "damaged"

(* KeepsClientContract: a finalize that failed with CALLBACK_ERROR is taken   *)
(* for done.                                                               *)
FinalizeAnswerSlip ==
  /\ at = "finalize" /\ asked
  /\ \E executed \in BOOLEAN :
       /\ status' = IF executed THEN [status EXCEPT ![Current] = Finalized] ELSE status
       /\ \/ IF file < FileCount
             THEN AtFile(file + 1) /\ UNCHANGED prepared
             ELSE Turn("done") /\ UNCHANGED <<file, prepared, poolVars>>
          \/ \E retryable \in BOOLEAN : Again(retryable)
  /\ UNCHANGED <<cancelled, received>>

FinalizeAnswer ==
  /\ at = "finalize" /\ asked
  /\ \E executed \in BOOLEAN :
       /\ status' = IF executed THEN [status EXCEPT ![Current] = Finalized] ELSE status
       /\ \/ /\ executed /\ Finalized = "stored"
             /\ IF file < FileCount
                THEN AtFile(file + 1) /\ UNCHANGED prepared
                ELSE Turn("done") /\ UNCHANGED <<file, prepared, poolVars>>
          \/ \E retryable \in BOOLEAN : Again(retryable)
  /\ UNCHANGED <<cancelled, received>>

(* NothingLeftBehind: the call returns with the first failure.             *)
JoinSlip ==
  /\ at = "upload"
  /\ failure \/ \A w \in Workers : worker[w].step = "gone"
  /\ IF failure THEN Fail
     ELSE Turn("finalize") /\ UNCHANGED <<file, prepared, poolVars>>
  /\ UNCHANGED <<cancelled, serverVars>>

(* The call waits for all the goroutines, failed or not.                   *)
Join ==
  /\ at = "upload"
  /\ \A w \in Workers : worker[w].step = "gone"
  /\ IF failure THEN Fail
     ELSE Turn("finalize") /\ UNCHANGED <<file, prepared, poolVars>>
  /\ UNCHANGED <<cancelled, serverVars>>

-----------------------------------------------------------------------------
(***************************************************************************)
(* A goroutine                                                             *)
(***************************************************************************)
Goes(w, step) == worker' = [worker EXCEPT ![w].step = step]

(* FinalizeIsComplete: a part is counted as taken and not sent once the    *)
(* context is cancelled.                                                   *)
TakePartSlip(w) ==
  /\ worker[w].step = "take"
  /\ IF failure \/ cursor = PartCount
     THEN Goes(w, "gone") /\ UNCHANGED cursor
     ELSE /\ worker' = [worker EXCEPT
               ![w].step = IF cancelled THEN "gone" ELSE "try",
               ![w].part = cursor + 1, ![w].tries = 1]
          /\ cursor' = cursor + 1
  /\ UNCHANGED <<failure, parts, reported, callVars, cancelled, serverVars>>

(* Under the lock of the cursor: stop, or take the next part.              *)
TakePart(w) ==
  /\ worker[w].step = "take"
  /\ IF failure \/ cursor = PartCount
     THEN Goes(w, "gone") /\ UNCHANGED cursor
     ELSE /\ worker' = [worker EXCEPT
               ![w].step = "try", ![w].part = cursor + 1, ![w].tries = 1]
          /\ cursor' = cursor + 1
  /\ UNCHANGED <<failure, parts, reported, callVars, cancelled, serverVars>>

TryPart(w) ==
  /\ worker[w].step = "try"
  /\ Goes(w, IF cancelled THEN "fail" ELSE "wait")
  /\ UNCHANGED <<cursor, failure, parts, reported, callVars, cancelled, serverVars>>

(* The PUT of the part reaches the bucket or not.  Without its ETag it has *)
(* failed, and every failure but a cancelled context is retried.           *)
PartAnswer(w) ==
  /\ worker[w].step = "wait"
  /\ \E reached \in BOOLEAN :
       /\ received' = IF reached THEN [received EXCEPT ![Current] = @ \cup {worker[w].part}]
                      ELSE received
       /\ \/ reached /\ Goes(w, "append")
          \/ (cancelled \/ worker[w].tries = Attempts) /\ Goes(w, "fail")
          \/ /\ ~cancelled /\ worker[w].tries < Attempts
             /\ worker' = [worker EXCEPT ![w].step = "try", ![w].tries = @ + 1]
  /\ UNCHANGED <<cursor, failure, parts, reported, callVars, cancelled, status>>

RecordFailure(w) ==
  /\ worker[w].step = "fail"
  /\ failure' = TRUE
  /\ Goes(w, "gone")
  /\ UNCHANGED <<cursor, parts, reported, callVars, cancelled, serverVars>>

AppendPart(w) ==
  /\ worker[w].step = "append"
  /\ parts' = parts \cup {worker[w].part}
  /\ Goes(w, "count")
  /\ UNCHANGED <<cursor, failure, reported, callVars, cancelled, serverVars>>

(* The progress is computed under a lock taken anew ...                    *)
CountParts(w) ==
  /\ worker[w].step = "count"
  /\ worker' = [worker EXCEPT ![w].step = "report", ![w].count = Cardinality(parts)]
  /\ UNCHANGED <<cursor, failure, parts, reported, callVars, cancelled, serverVars>>

(* ... and reported without one.                                           *)
Report(w) ==
  /\ worker[w].step = "report"
  /\ reported' = reported \cup {worker[w].count}
  /\ Goes(w, "take")
  /\ UNCHANGED <<cursor, failure, parts, callVars, cancelled, serverVars>>

-----------------------------------------------------------------------------
Work(w) ==
  \/ TakePart(w) \/ TryPart(w) \/ PartAnswer(w) \/ RecordFailure(w)
  \/ AppendPart(w) \/ CountParts(w) \/ Report(w)

Call == Ask \/ PrepareAnswer \/ PutAnswer \/ FinalizeAnswer \/ Join

Next == Cancel \/ Call \/ \E w \in Workers : Work(w)

Spec == Init /\ [][Next]_vars

(* The scheduler runs every goroutine, and each request ends with an       *)
(* answer or an error.                                                     *)
FairSpec == Spec /\ WF_vars(Call) /\ \A w \in Workers : WF_vars(Work(w))

-----------------------------------------------------------------------------
(***************************************************************************)
(* Properties                                                              *)
(***************************************************************************)

(* A finalize is only sent for a file all of whose parts have reached the  *)
(* bucket and are named in it, however the goroutines shared them out and  *)
(* whichever of them failed (uploadPut).                                   *)
FinalizeIsComplete ==
  at = "finalize" =>
    /\ received[Current] = PartsOf(file)
    /\ file \in Large => parts = PartsOf(file)

(* No goroutine of a file is left when the call has gone on or returned:   *)
(* uploadPut waits for all of them, also after a failure.                  *)
NothingLeftBehind == at # "upload" => \A w \in Workers : worker[w].step = "gone"

(* A call that succeeds has stored every file, and no call stores a file   *)
(* twice though its prepare and its finalize were sent several times:      *)
(* only sessions of the answered prepare are used.                         *)
ResultsAreStored ==
  /\ at = "done" => \A f \in Files : status[<<prepared, f>>] = "stored"
  /\ \A s \in Sessions : status[s] = "stored" => s[1] = prepared

(* The application has been told that all the parts are there when a file  *)
(* goes to finalize, although each goroutine computes the progress and     *)
(* reports it in steps of its own.                                         *)
FullProgress == at = "finalize" => Cardinality(PartsOf(file)) \in reported

(* A call returns, though requests fail and are sent again and goroutines  *)
(* wait for one another: as long as every request ends, which the default  *)
(* client of net/http, having no timeout, leaves to the context.           *)
EventuallyReturns == <>Returned

-----------------------------------------------------------------------------
(***************************************************************************)
(* The inductive invariant                                                 *)
(***************************************************************************)
Holds(w) == worker[w].step \in {"try", "wait", "fail", "append"}

(* The call has the sessions of a prepare, from then on.                   *)
HasSessions ==
  /\ at \in {"put", "upload", "finalize", "done"} => prepared \in 1..Attempts
  /\ at = "prepare" => prepared = 0
  /\ at = "upload" => file \in Large
  /\ at = "put" => file \notin Large

(* A goroutine that holds a part took it, and one that appends it has seen *)
(* it reach the bucket.                                                    *)
HeldIsTaken ==
  \A w \in Workers :
    /\ Holds(w) => worker[w].part \in 1..cursor
    /\ worker[w].step = "append" => worker[w].part \in received[Current]

(* No part gets lost: what was taken is finished or held, or the pool has  *)
(* failed; and a goroutine leaves only when nothing is left for it.        *)
NoPartLost ==
  at = "upload" =>
    /\ failure \/ \A p \in 1..cursor :
                     p \in parts \/ \E w \in Workers : Holds(w) /\ worker[w].part = p
    /\ \A w \in Workers :
         w <= PartCount /\ worker[w].step = "gone" => failure \/ cursor = PartCount
    /\ parts \subseteq received[Current]

SmallIsOnePart == \A s \in Sessions : s[2] \notin Large => received[s] \subseteq {1}

(* Whoever appends the last part still has to count.                       *)
LastOneCounts ==
  at = "upload" /\ parts = 1..PartCount =>
    \/ PartCount \in reported
    \/ \E w \in Workers : \/ worker[w].step = "count"
                          \/ worker[w].step = "report" /\ worker[w].count = PartCount

StoredSoFar ==
  at \in {"put", "upload", "finalize"} =>
    \A f \in Files : f < file => status[<<prepared, f>>] = "stored"

IInv ==
  /\ TypeOK
  /\ HasSessions
  /\ HeldIsTaken
  /\ NoPartLost
  /\ SmallIsOnePart
  /\ LastOneCounts
  /\ StoredSoFar
  /\ NothingLeftBehind
  /\ FinalizeIsComplete
  /\ FullProgress
  /\ ResultsAreStored


-----------------------------------------------------------------------------
(***************************************************************************)
(* What the application sees.                                              *)
(***************************************************************************)
NoSession == <<0, 0>>

Working == at \in {"put", "upload", "finalize"}

Contract == INSTANCE ClientContract WITH
  stage <- IF at = "done" THEN "done" ELSE IF Working THEN "working" ELSE "idle",
  entry <- [f \in Files |-> IF Working \/ at = "done" THEN <<prepared, f>> ELSE NoSession],
  confirmed <- IF at = "done" THEN FileCount ELSE IF Working THEN file - 1 ELSE 0,
  stored <- {s \in Sessions : status[s] = "stored"}

(* The call counts files in order and only what the server has stored, in  *)
(* sessions of the prepare it was answered; a finalize whose answer is     *)
(* lost stores its file and nothing else.                                  *)
KeepsClientContract == Contract!Spec

=============================================================================
