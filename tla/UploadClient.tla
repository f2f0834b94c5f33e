---------------------------- MODULE UploadClient ----------------------------
(***************************************************************************)
(* uploadFiles of the TypeScript client: an application uploads the same   *)
(* files, in the same order, again and again until a call succeeds.  A     *)
(* call resumes the sessions the resume store remembers or prepares new    *)
(* ones, takes one file after the other, sends a large file's parts with   *)
(* several workers, saves the finished parts and finalizes.                *)
(*                                                                         *)
(* A call fails with the first of its workers that fails; the others are   *)
(* not stopped.  They take further parts and save progress beside the next *)
(* call, which works on a snapshot of the store of its own.                *)
(*                                                                         *)
(* One application is meant, which begins a call when its last one has     *)
(* returned; uploadFiles itself does not keep calls apart.                 *)
(*                                                                         *)
(* Simplifications.  The files of a call differ, so each has a resume key  *)
(* of its own.  The store is local storage: a save is atomic with what     *)
(* precedes it, and the saves after a prepare are one step.  (A page that  *)
(* goes away between those leaves saved progress for some of the files, as *)
(* one does after a file was finalized or aborted.)  Retries within a call *)
(* are one request that may be slow.                                       *)
(* The server is what a client sees of it: a session is open, stored or    *)
(* closed and lives for UploadExpiry.  A session nobody refers to is handed *)
(* out again as a new one, which keeps the model finite.                   *)
(*                                                                         *)
(* A definition XSlip is X with a plausible mistake, which the property    *)
(* named beside it must notice; no specification uses it.                  *)
(***************************************************************************)
EXTENDS Integers, FiniteSets

CONSTANTS
  FileCount,     \* files of a call
  Large,         \* those the server uploads in parts
  Parts,         \* part numbers of a large file
  Concurrency,   \* partConcurrency
  Sessions,      \* sessions the server hands out
  NoSession,
  Calls,         \* calls of uploadFiles, with the workers they leave behind
  FreshFor,      \* how long saved progress is resumed (50 minutes)
  UploadExpiry,  \* how long a session and its signed URLs live
  MaxFaults      \* bound on failures, cancellations, reloads and slow calls

Files == 1..FileCount

ASSUME ClientAssumption ==
  /\ FileCount \in Nat \ {0}
  /\ Large \subseteq Files
  /\ Parts \subseteq Nat /\ Parts # {} /\ IsFiniteSet(Parts)
  /\ Concurrency \in Nat \ {0}
  /\ NoSession \notin Sessions /\ IsFiniteSet(Sessions)
  /\ FreshFor \in Nat \ {0}
  /\ UploadExpiry \in Nat
  /\ MaxFaults \in Nat

VARIABLES
  store,    \* the resume store, per file
  call,     \* the calls and what is left of them
  session,  \* the server's sessions
  faults

vars == <<store, call, session, faults>>

Unsaved == [session |-> NoSession, parts |-> {}, age |-> 0]

(* at: where the call stands; entries: the session of each file; kept: the *)
(* finished parts of each as read from the store when the call began;      *)
(* file: the file it is at; list: the finished parts of that; pending: the *)
(* parts no worker has taken; busy: those being sent, sent: those of them  *)
(* that have reached the bucket.                                           *)
Idle == [at |-> "idle", entries |-> [f \in Files |-> NoSession],
         kept |-> [f \in Files |-> {}], file |-> 1,
         list |-> {}, pending |-> {}, busy |-> {}, sent |-> {}]

MaxAge == IF FreshFor > UploadExpiry THEN FreshFor ELSE UploadExpiry + 1

TypeOK ==
  /\ store \in [Files -> [session : Sessions \cup {NoSession},
                          parts : SUBSET Parts, age : 0..MaxAge]]
  /\ call \in [Calls ->
       [at : {"idle", "read", "decide", "prepare", "upload", "finalize", "failed", "done"},
        entries : [Files -> Sessions \cup {NoSession}],
        kept : [Files -> SUBSET Parts], file : Files,
        list : SUBSET Parts, pending : SUBSET Parts,
        busy : SUBSET Parts, sent : SUBSET Parts]]
  /\ session \in [Sessions -> [upload : {"open", "stored", "damaged", "closed"},
                               received : SUBSET Parts, age : 0..MaxAge]]
  /\ faults \in 0..MaxFaults

Init ==
  /\ store = [f \in Files |-> Unsaved]
  /\ call = [c \in Calls |-> Idle]
  /\ session = [s \in Sessions |-> [upload |-> "closed", received |-> {}, age |-> 0]]
  /\ faults = 0

Active(c) == call[c].at \in {"read", "decide", "prepare", "upload", "finalize"}
Current(c) == call[c].entries[call[c].file]

(* A session is remembered by the store, a call, or a worker left behind.  *)
Remembered(s) ==
  \/ \E f \in Files : store[f].session = s
  \/ \E c \in Calls, f \in Files : call[c].entries[f] = s

Alive(s) == session[s].age <= UploadExpiry

Fault == faults < MaxFaults /\ faults' = faults + 1

-----------------------------------------------------------------------------
(***************************************************************************)
(* The start of a call                                                     *)
(***************************************************************************)
Saved(f) == store[f].session # NoSession /\ store[f].age < FreshFor

(* The parts the workers take first.                                       *)
FirstOf(todo) == {p \in todo : Cardinality({q \in todo : q < p}) < Concurrency}

(* The state k of a call as it turns to file f: the workers take their     *)
(* first parts, and a file that has all of them goes to finalize.          *)
AtFile(k, f) ==
  LET done == IF f \in Large THEN k.kept[f] ELSE {}
      todo == IF f \in Large THEN Parts \ done ELSE {}
  IN [k EXCEPT !.at = IF f \in Large /\ todo = {} THEN "finalize" ELSE "upload",
               !.file = f, !.list = done, !.pending = todo \ FirstOf(todo),
               !.busy = FirstOf(todo), !.sent = {}]

(* What is left of a call that has failed.                                 *)
Settled(k) == IF k.busy = {} THEN Idle ELSE [k EXCEPT !.at = "failed"]

(* The application waits for its last call, and is content with a success. *)
Begin(c) ==
  /\ call[c].at = "idle"
  /\ \A d \in Calls : ~Active(d) /\ call[d].at # "done"
  /\ call' = [call EXCEPT ![c].at = "read"]
  /\ UNCHANGED <<store, session, faults>>

(* EventuallyUploaded: saved progress is resumed however old it is.        *)
ReadSavedSlip(c) ==
  LET f == call[c].file IN
  /\ call[c].at = "read"
  /\ call' = [call EXCEPT
       ![c].entries[f] = store[f].session,
       ![c].kept[f] = store[f].parts,
       ![c].at = IF f = FileCount THEN "decide" ELSE "read",
       ![c].file = IF f = FileCount THEN 1 ELSE f + 1]
  /\ UNCHANGED <<store, session, faults>>

(* Hashing a file for its key takes time, so each is read at its own.      *)
ReadSaved(c) ==
  LET f == call[c].file IN
  /\ call[c].at = "read"
  /\ call' = [call EXCEPT
       ![c].entries[f] = IF Saved(f) THEN store[f].session ELSE NoSession,
       ![c].kept[f] = IF Saved(f) THEN store[f].parts ELSE {},
       ![c].at = IF f = FileCount THEN "decide" ELSE "read",
       ![c].file = IF f = FileCount THEN 1 ELSE f + 1]
  /\ UNCHANGED <<store, session, faults>>

Resume(c) ==
  /\ call[c].at = "decide"
  /\ \A f \in Files : call[c].entries[f] # NoSession
  /\ call' = [call EXCEPT ![c] = AtFile(@, 1)]
  /\ UNCHANGED <<store, session, faults>>

(* One file without fresh progress, and that of the others is dropped too. *)
AskPrepare(c) ==
  /\ call[c].at = "decide"
  /\ \E f \in Files : call[c].entries[f] = NoSession
  /\ store' = [f \in Files |->
       IF call[c].entries[f] # NoSession THEN Unsaved ELSE store[f]]
  /\ call' = [call EXCEPT ![c].at = "prepare", ![c].entries = Idle.entries]
  /\ UNCHANGED <<session, faults>>

NewSessions == {s \in Sessions : ~Remembered(s)}

(* Session ids are random: which ones a prepare takes does not matter.      *)
FreshSessions ==
  CHOOSE given \in [Files -> NewSessions] :
    \A f, g \in Files : given[f] = given[g] => f = g

Opened(given) ==
  [s \in Sessions |-> IF \E f \in Files : given[f] = s
                        THEN [upload |-> "open", received |-> {}, age |-> 0]
                        ELSE session[s]]

(* CountedPartsAreStored: parts saved for an old session are counted for   *)
(* the new one.                                                            *)
PreparedSlip(c) ==
  LET given == FreshSessions IN
  /\ call[c].at = "prepare"
  /\ Cardinality(NewSessions) >= FileCount
  /\ session' = Opened(given)
  /\ store' = [f \in Files |-> [Unsaved EXCEPT !.session = given[f]]]
  /\ call' = [call EXCEPT ![c] = AtFile([@ EXCEPT !.entries = given], 1)]
  /\ UNCHANGED faults

Prepared(c) ==
  LET given == FreshSessions IN
  /\ call[c].at = "prepare"
  /\ Cardinality(NewSessions) >= FileCount
  /\ session' = Opened(given)
  /\ store' = [f \in Files |-> [Unsaved EXCEPT !.session = given[f]]]
  /\ call' = [call EXCEPT ![c] = AtFile([Idle EXCEPT !.entries = given], 1)]
  /\ UNCHANGED faults

PrepareFails(c) ==
  /\ call[c].at = "prepare"
  /\ Fault
  /\ call' = [call EXCEPT ![c] = Idle]
  /\ UNCHANGED <<store, session>>

-----------------------------------------------------------------------------
(***************************************************************************)
(* uploadPut                                                               *)
(***************************************************************************)
PutFile(c) ==
  LET s == Current(c) IN
  /\ call[c].at = "upload"
  /\ call[c].file \notin Large
  /\ Alive(s)
  /\ session' = [session EXCEPT ![s].upload = "stored"]
  /\ call' = [call EXCEPT ![c].at = "finalize"]
  /\ UNCHANGED <<store, faults>>

(* A worker's part reaches the bucket; its answer is still on the way.     *)
SendPart(c, p) ==
  LET s == Current(c) IN
  /\ p \in call[c].busy \ call[c].sent
  /\ Alive(s)
  /\ session[s].upload = "open"
  /\ session' = [session EXCEPT ![s].received = @ \cup {p}]
  /\ call' = [call EXCEPT ![c].sent = @ \cup {p}]
  /\ UNCHANGED <<store, faults>>

(* ClientInv: a part is counted when its worker has taken it.              *)
PartDoneSlip(c, p) ==
  LET k == call[c]
      next == {q \in k.pending : \A r \in k.pending : q <= r}
      busy == (k.busy \ {p}) \cup next
      list == k.list \cup {p}
  IN
  /\ p \in k.busy
  /\ store' = [store EXCEPT ![k.file] =
                 [session |-> Current(c), parts |-> list, age |-> 0]]
  /\ call' = [call EXCEPT ![c] =
       IF k.at = "failed" /\ busy = {} THEN Idle
       ELSE [k EXCEPT !.at = IF k.at = "upload" /\ busy = {} THEN "finalize" ELSE k.at,
                      !.list = list, !.pending = k.pending \ next,
                      !.busy = busy, !.sent = k.sent \ {p}]]
  /\ UNCHANGED <<session, faults>>

(* The worker counts its part, saves what its own call has finished, and   *)
(* takes the next part; with the last one the call turns to finalize.      *)
PartDone(c, p) ==
  LET k == call[c]
      next == {q \in k.pending : \A r \in k.pending : q <= r}
      busy == (k.busy \ {p}) \cup next
      list == k.list \cup {p}
  IN
  /\ p \in k.sent
  /\ store' = [store EXCEPT ![k.file] =
                 [session |-> Current(c), parts |-> list, age |-> 0]]
  /\ call' = [call EXCEPT ![c] =
       IF k.at = "failed" /\ busy = {} THEN Idle
       ELSE [k EXCEPT !.at = IF k.at = "upload" /\ busy = {} THEN "finalize" ELSE k.at,
                      !.list = list, !.pending = k.pending \ next,
                      !.busy = busy, !.sent = k.sent \ {p}]]
  /\ UNCHANGED <<session, faults>>

(* FinalizeIsComplete: the call waits for its workers, not for success.    *)
PartLostSlip(c, p) ==
  LET k == call[c] IN
  /\ p \in k.busy
  /\ call' = [call EXCEPT ![c] =
       [k EXCEPT !.at = IF k.at = "upload" /\ k.busy = {p} THEN "finalize" ELSE k.at,
                 !.busy = k.busy \ {p}, !.sent = k.sent \ {p}]]
  /\ UNCHANGED <<store, session>>

(* The worker ends and the call has failed; the other workers go on.       *)
PartLost(c, p) ==
  LET k == call[c] IN
  /\ p \in k.busy
  /\ call' = [call EXCEPT ![c] =
       Settled([k EXCEPT !.busy = k.busy \ {p}, !.sent = k.sent \ {p}])]
  /\ UNCHANGED <<store, session>>

PartFails(c, p) == Fault /\ PartLost(c, p)

(* The signed URL has expired, or the upload is no longer open.            *)
PartRefused(c, p) ==
  /\ p \in call[c].busy \ call[c].sent
  /\ ~Alive(Current(c)) \/ session[Current(c)].upload # "open"
  /\ PartLost(c, p)
  /\ UNCHANGED faults

PutFails(c) ==
  /\ call[c].at = "upload"
  /\ call[c].file \notin Large
  /\ IF Alive(Current(c)) THEN Fault ELSE UNCHANGED faults
  /\ call' = [call EXCEPT ![c] = Idle]
  /\ UNCHANGED <<store, session>>

-----------------------------------------------------------------------------
(***************************************************************************)
(* finalize                                                                *)
(***************************************************************************)
Assemblable(c) ==
  /\ session[Current(c)].upload = "open"
  /\ call[c].list \subseteq session[Current(c)].received

(* The server completes the upload with the parts it is told of.           *)
Assemble(c) ==
  /\ call[c].at = "finalize"
  /\ Alive(Current(c))
  /\ Assemblable(c)
  /\ session' = [session EXCEPT ![Current(c)].upload =
                   IF call[c].list = Parts THEN "stored" ELSE "damaged"]
  /\ UNCHANGED <<store, call, faults>>

(* The state after the current file of a call is finished.                 *)
NextFile(k) ==
  IF k.file = FileCount THEN [Idle EXCEPT !.at = "done", !.entries = k.entries]
                        ELSE AtFile(k, k.file + 1)

(* KeepsClientContract: any answer is taken for a success.                 *)
FinalizedSlip(c) ==
  /\ call[c].at = "finalize"
  /\ Alive(Current(c))
  /\ store' = [store EXCEPT ![call[c].file] = Unsaved]
  /\ call' = [call EXCEPT ![c] = NextFile(@)]
  /\ UNCHANGED <<session, faults>>

Finalized(c) ==
  /\ call[c].at = "finalize"
  /\ Alive(Current(c))
  /\ session[Current(c)].upload = "stored"
  /\ store' = [store EXCEPT ![call[c].file] = Unsaved]
  /\ call' = [call EXCEPT ![c] = NextFile(@)]
  /\ UNCHANGED <<session, faults>>

(* Refused because the session is over or cannot be completed, or failed.  *)
FinalizeFails(c) ==
  /\ call[c].at = "finalize"
  /\ IF Alive(Current(c)) /\ (session[Current(c)].upload = "stored" \/ Assemblable(c))
       THEN Fault ELSE UNCHANGED faults
  /\ call' = [call EXCEPT ![c] = Idle]
  /\ UNCHANGED <<store, session>>

-----------------------------------------------------------------------------
(***************************************************************************)
(* The signal of the caller, the page, and time                            *)
(***************************************************************************)
(* The signal ends every request of the call, and so its workers.          *)
Pause(c) ==
  /\ Active(c)
  /\ Fault
  /\ call' = [call EXCEPT ![c] = Idle]
  /\ UNCHANGED <<store, session>>

(* With abortOnCancel the server is asked to abort the upload of the file  *)
(* at hand, and its saved progress goes whatever the answer.               *)
CancelUpload(c) ==
  /\ call[c].at \in {"upload", "finalize"}
  /\ call[c].file \in Large
  /\ Fault
  /\ \/ /\ session[Current(c)].upload = "open"
        /\ Alive(Current(c))
        /\ session' = [session EXCEPT ![Current(c)].upload = "closed",
                                      ![Current(c)].received = {}]
     \/ UNCHANGED session
  /\ store' = [store EXCEPT ![call[c].file] = Unsaved]
  /\ call' = [call EXCEPT ![c] = Idle]

(* The page is closed or reloaded: every call and worker is gone.          *)
Reload ==
  /\ \A c \in Calls : call[c].at # "done"
  /\ Fault
  /\ call' = [c \in Calls |-> Idle]
  /\ UNCHANGED <<store, session>>

Older(age) == IF age < MaxAge THEN age + 1 ELSE MaxAge

Aged ==
  /\ store' = [f \in Files |-> [store[f] EXCEPT !.age =
                 IF store[f].session = NoSession THEN 0 ELSE Older(@)]]
  /\ session' = [s \in Sessions |-> [session[s] EXCEPT !.age = Older(@)]]
  /\ UNCHANGED call

(* Time passes freely between calls; during one that is a slow call.       *)
Wait == (\A c \in Calls : call[c].at \in {"idle", "failed"}) /\ Aged /\ UNCHANGED faults
Lag  == (\E c \in Calls : Active(c)) /\ Aged /\ Fault

-----------------------------------------------------------------------------
(* What a call does when nothing goes wrong.                               *)
Advance(c) ==
  \/ ReadSaved(c) \/ Resume(c) \/ AskPrepare(c)
  \/ Prepared(c) \/ PutFile(c) \/ Assemble(c) \/ Finalized(c)
  \/ \E p \in Parts : SendPart(c, p) \/ PartDone(c, p)

(* Steps a call can always take by failing.                                *)
Fail(c) ==
  \/ PrepareFails(c) \/ PutFails(c) \/ FinalizeFails(c)
  \/ \E p \in Parts : PartFails(c, p) \/ PartRefused(c, p)

Next ==
  \/ \E c \in Calls : Begin(c) \/ Advance(c) \/ Fail(c) \/ Pause(c) \/ CancelUpload(c)
  \/ Reload \/ Wait \/ Lag

Spec == Init /\ [][Next]_vars

(* The application calls again after a failure; requests are answered,     *)
(* well or badly; and time passes between the calls.                       *)
Fairness ==
  /\ WF_vars(\E c \in Calls : Begin(c))
  /\ \A c \in Calls : WF_vars(Advance(c) \/ Fail(c))
  /\ SF_vars(Wait)

FairSpec == Spec /\ Fairness
-----------------------------------------------------------------------------
(***************************************************************************)
(* Properties                                                              *)
(***************************************************************************)

(* Progress is never counted too high: a part that a call or the store     *)
(* takes for finished is in the bucket, for that very session, as long as  *)
(* the upload is open; whichever worker, call or page counted it.          *)
CountedPartsAreStored ==
  /\ \A f \in Files :
       store[f].session # NoSession /\ session[store[f].session].upload = "open"
         => store[f].parts \subseteq session[store[f].session].received
  /\ \A c \in Calls :
       call[c].at = "upload" /\ session[Current(c)].upload = "open"
         => call[c].list \subseteq session[Current(c)].received

(* A large file is finalized with all of its parts, resumed ones included: *)
(* the server would assemble a damaged object from fewer.                  *)
FinalizeIsComplete ==
  \A c \in Calls :
    call[c].at = "finalize" /\ call[c].file \in Large => call[c].list = Parts

(* A call that returns its results has stored every one of its files, each *)
(* in a session of its own.                                                *)
ReportedIsStored ==
  \A c \in Calls : call[c].at = "done" =>
    /\ \A f \in Files : session[call[c].entries[f]].upload = "stored"
    /\ \A f, g \in Files : call[c].entries[f] = call[c].entries[g] => f = g

(* An application that calls again after a failure succeeds, even though   *)
(* what it resumes may be a session that has expired, that was aborted, or *)
(* that a worker of an earlier call saved after it was finalized.          *)
EventuallyUploaded == <>(\E c \in Calls : call[c].at = "done")

(* "Progress persists to local storage so interrupted uploads resume": the *)
(* finished parts saved for a session do not get fewer.                    *)
ProgressKept ==
  [][\A f \in Files :
       store'[f].session = store[f].session => store[f].parts \subseteq store'[f].parts]_vars

-----------------------------------------------------------------------------
(* The inductive invariant.                                                *)

(* A call past its start has a session for every file.                     *)
HasSessions ==
  \A c \in Calls : call[c].at \in {"upload", "finalize", "failed", "done"} =>
    \A f \in Files : call[c].entries[f] # NoSession

(* Whatever remembers a session remembers it for the same file.            *)
RememberedFor(f) == {store[f].session} \cup {call[c].entries[f] : c \in Calls}

OneFilePerSession ==
  \A f, g \in Files : f # g => RememberedFor(f) \cap RememberedFor(g) \subseteq {NoSession}

(* What a call has read of the store, has finished or has sent is in the   *)
(* bucket, while the upload is open.                                       *)
StoredWhileOpen(s, parts) ==
  s # NoSession /\ session[s].upload = "open" => parts \subseteq session[s].received

BeliefsAreRight ==
  /\ \A f \in Files : StoredWhileOpen(store[f].session, store[f].parts)
  /\ \A c \in Calls :
       /\ \A f \in Files : StoredWhileOpen(call[c].entries[f], call[c].kept[f])
       /\ StoredWhileOpen(Current(c), call[c].list \cup call[c].sent)

(* A part of the current file is finished, with a worker or to be taken;   *)
(* only the workers of a failed call outlive it, and with work to do.      *)
PartsAccounted ==
  \A c \in Calls :
    /\ call[c].sent \subseteq call[c].busy
    /\ call[c].at \notin {"upload", "failed"} => call[c].busy = {} /\ call[c].pending = {}
    /\ call[c].at \in {"idle", "read", "decide", "prepare"} => call[c].list = {}
    /\ call[c].at \in {"upload", "failed"} /\ call[c].busy \cup call[c].pending # {} =>
         call[c].file \in Large
    /\ call[c].at \in {"upload", "finalize"} /\ call[c].file \in Large =>
         Parts = call[c].list \cup call[c].pending \cup call[c].busy

(* The files before the current one are stored.                            *)
EarlierStored ==
  \A c \in Calls :
    /\ call[c].at \in {"upload", "finalize"} =>
         \A f \in 1..(call[c].file - 1) : session[call[c].entries[f]].upload = "stored"
    /\ call[c].at = "done" =>
         \A f \in Files : session[call[c].entries[f]].upload = "stored"

(* Sessions, lists and stored files stay in step, whatever the workers of  *)
(* earlier calls save beside the current one.                              *)
ClientInv ==
  /\ TypeOK
  /\ HasSessions
  /\ OneFilePerSession
  /\ BeliefsAreRight
  /\ PartsAccounted
  /\ EarlierStored


-----------------------------------------------------------------------------
(***************************************************************************)
(* What the application sees: the call that has sessions, if there is one. *)
(***************************************************************************)
AtWork == {"upload", "finalize", "done"}

(* A call stays alone until it has ended; what runs beside it are workers  *)
(* that failed calls have left.                                            *)
OneAtATime ==
  \A c, d \in Calls :
    (Active(c) \/ call[c].at = "done") /\ (Active(d) \/ call[d].at = "done") => c = d

Now ==
  IF \E c \in Calls : call[c].at \in AtWork
    THEN call[CHOOSE c \in Calls : call[c].at \in AtWork] ELSE Idle

StageOf(k) ==
  IF k.at = "done" THEN "done" ELSE IF k.at \in AtWork THEN "working" ELSE "idle"

StoredSessions == {s \in Sessions : session[s].upload = "stored"}

Contract == INSTANCE ClientContract WITH
  stage <- StageOf(Now), entry <- Now.entries, stored <- StoredSessions,
  confirmed <- IF Now.at = "done" THEN FileCount ELSE Now.file - 1

(* Call after call, with resumed sessions, paused and failed calls and the *)
(* workers they leave, the client counts files in order and only what the  *)
(* server has stored, stores nothing else meanwhile, and a result is final. *)
KeepsClientContract == Contract!Spec

=============================================================================
