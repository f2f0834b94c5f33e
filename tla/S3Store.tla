------------------------------ MODULE S3Store -------------------------------
(***************************************************************************)
(* The calls of the bucket adapter that take several requests: listing the *)
(* objects or the open multipart uploads of a bucket page by page, deleting *)
(* keys in chunks, storing an object and looking whether it is there.      *)
(* Between two requests of a call other processes store, delete, open and  *)
(* close whatever they like, and any request may fail, with or without     *)
(* having had an effect.                                                   *)
(*                                                                         *)
(* Names stand for keys, or for uploads, in the order the bucket lists     *)
(* them.  A call keeps nothing in common with another one, so one call is  *)
(* followed at a time; the others are among the processes that interfere.  *)
(* A truncated page without a marker is refused (RequestFails).  The bucket *)
(* is taken to move its markers on: the adapter refuses missing ones only, *)
(* and a bucket that repeats one would be asked for ever.                  *)
(*                                                                         *)
(* A definition XSlip is X with a plausible mistake, which the property    *)
(* named beside it must notice; no specification uses it.                  *)
(***************************************************************************)
EXTENDS Integers, FiniteSets

CONSTANTS
  NameCount,    \* keys, and uploads, a bucket may hold
  PageSize,     \* entries of a page, at most
  ChunkSize,    \* keys of a bulk delete, at most (1000)
  MaxChanges    \* bound on what others do during a call

ASSUME StoreAssumption ==
  /\ NameCount \in Nat \ {0}
  /\ PageSize \in Nat \ {0}
  /\ ChunkSize \in Nat \ {0}
  /\ MaxChanges \in Nat

Names == 1..NameCount

(* Uploads are named by key and upload id: two of them share a key.        *)
KeyOf(n) == (n + 1) \div 2

VARIABLES
  objects,  \* the keys that hold an object
  uploads,  \* the multipart uploads that are open
  call,     \* the call in progress
  always,   \* what the bucket has held ever since the call began
  ever,     \* what it has held at some time since
  changes   \* what others have done since

bucket == <<objects, uploads>>
watched == <<always, ever>>
vars == <<bucket, call, watched, changes>>

(* after: the last name of the pages read so far; got: their entries;      *)
(* todo: keys still to be deleted, or the key to be stored; stored: the    *)
(* key, once the bucket has stored it for this call; unread: an answer of  *)
(* the bucket could not be read.                                           *)
Idle == [op |-> "none", at |-> "idle", after |-> 0, got |-> {}, todo |-> {},
         given |-> {}, stored |-> {}, unread |-> FALSE, code |-> "none"]

Operations == {"list", "uploads", "delete", "put"}

Calls == [op : Operations \cup {"none"}, at : {"idle", "ask", "head", "done"},
          after : Names \cup {0}, got : SUBSET Names, todo : SUBSET Names,
          given : SUBSET Names, stored : SUBSET Names, unread : BOOLEAN,
          code : {"none", "ok", "error"}]

TypeOK ==
  /\ objects \in SUBSET Names
  /\ uploads \in SUBSET Names
  /\ call \in Calls
  /\ always \in SUBSET Names
  /\ ever \in SUBSET Names
  /\ changes \in 0..MaxChanges

Init ==
  /\ objects \in SUBSET Names
  /\ uploads \in SUBSET Names
  /\ call = Idle
  /\ always = {}
  /\ ever = {}
  /\ changes = 0

(* What a call of that kind is about.                                      *)
Holding(op) == IF op = "uploads" THEN uploads ELSE objects

Watch ==
  LET held == IF call.op = "uploads" THEN uploads' ELSE objects' IN
  /\ always' = always \cap held
  /\ ever' = ever \cup held

-----------------------------------------------------------------------------
Begin(op, given) ==
  /\ call.at = "idle"
  /\ call' = [Idle EXCEPT !.op = op, !.at = "ask", !.todo = given, !.given = given]
  /\ always' = Holding(op)
  /\ ever' = Holding(op)
  /\ changes' = 0
  /\ UNCHANGED bucket

Continue(next) == call' = next /\ UNCHANGED changes

Return(c) == Continue([call EXCEPT !.at = "done", !.code = c])

-----------------------------------------------------------------------------
(***************************************************************************)
(* Listings.  A page is what the bucket holds beyond the continuation, up  *)
(* to some name; it says whether there is more.                            *)
(***************************************************************************)
(* ListingIsExact: the upload id marker is not sent, and the rest of the   *)
(* uploads of the last key are passed over.                                *)
BeyondSlip(op) ==
  {n \in Holding(op) : IF op = "uploads" /\ call.after # 0
                         THEN KeyOf(n) > KeyOf(call.after) ELSE n > call.after}

Beyond(op) == {n \in Holding(op) : n > call.after}

Page(op, last) == {n \in Beyond(op) : n <= last}

(* CallsReturn: the continuation of the page is not taken over.            *)
TruncatedPageSlip(op) ==
  /\ call.op = op
  /\ call.at = "ask"
  /\ \E last \in Beyond(op) :
       /\ Page(op, last) # Beyond(op)
       /\ Cardinality(Page(op, last)) <= PageSize
       /\ Continue([call EXCEPT !.got = @ \cup Page(op, last)])
  /\ UNCHANGED <<bucket, watched>>

TruncatedPage(op) ==
  /\ call.op = op
  /\ call.at = "ask"
  /\ \E last \in Beyond(op) :
       /\ Page(op, last) # Beyond(op)
       /\ Cardinality(Page(op, last)) <= PageSize
       /\ Continue([call EXCEPT !.after = last, !.got = @ \cup Page(op, last)])
  /\ UNCHANGED <<bucket, watched>>

LastPage(op) ==
  /\ call.op = op
  /\ call.at = "ask"
  /\ Cardinality(Beyond(op)) <= PageSize
  /\ Continue([call EXCEPT !.at = "done", !.code = "ok", !.got = @ \cup Beyond(op)])
  /\ UNCHANGED <<bucket, watched>>

-----------------------------------------------------------------------------
(***************************************************************************)
(* Bulk delete: one request per chunk, in the order of the keys given.     *)
(***************************************************************************)
Chunk ==
  {n \in call.todo : Cardinality({k \in call.todo : k <= n}) <= ChunkSize}

(* SuccessMeansDeleted: errors in the answer are not looked at.            *)
DeleteChunkSlip ==
  /\ call.op = "delete"
  /\ call.at = "ask"
  /\ call.todo # {}
  /\ \E gone \in SUBSET Chunk : objects' = objects \ gone
  /\ Continue([call EXCEPT !.todo = @ \ Chunk])
  /\ UNCHANGED uploads
  /\ Watch

(* The chunk is gone and the answer says so.                               *)
DeleteChunk ==
  /\ call.op = "delete"
  /\ call.at = "ask"
  /\ call.todo # {}
  /\ objects' = objects \ Chunk
  /\ Continue([call EXCEPT !.todo = @ \ Chunk])
  /\ UNCHANGED uploads
  /\ Watch

(* Some keys of the chunk stay, and the answer names them; or the answer   *)
(* is lost: the call ends, and the later chunks are not tried.             *)
DeleteFails ==
  /\ call.op = "delete"
  /\ call.at = "ask"
  /\ call.todo # {}
  /\ \E gone \in SUBSET Chunk : objects' = objects \ gone
  /\ Return("error")
  /\ UNCHANGED uploads
  /\ Watch

(* Some keys stay, but the answer that names them is cut short: a body     *)
(* that cannot be parsed is taken for one without errors.                  *)
DeleteUnread ==
  /\ call.op = "delete"
  /\ call.at = "ask"
  /\ call.todo # {}
  /\ \E gone \in SUBSET Chunk : objects' = objects \ gone
  /\ Continue([call EXCEPT !.todo = @ \ Chunk, !.unread = TRUE])
  /\ UNCHANGED uploads
  /\ Watch

Deleted ==
  /\ call.op = "delete"
  /\ call.at = "ask"
  /\ call.todo = {}
  /\ Return("ok")
  /\ UNCHANGED <<bucket, watched>>

-----------------------------------------------------------------------------
(***************************************************************************)
(* Put, and the head that verifies it.                                     *)
(***************************************************************************)
(* SuccessMeansStored: the status of the answer is not looked at.          *)
PutSlip ==
  /\ call.op = "put"
  /\ call.at = "ask"
  /\ \E stored \in {call.todo, {}} :
       /\ objects' = objects \cup stored
       /\ Continue([call EXCEPT !.at = "head", !.stored = stored])
  /\ UNCHANGED uploads
  /\ Watch

Put ==
  /\ call.op = "put"
  /\ call.at = "ask"
  /\ objects' = objects \cup call.todo
  /\ Continue([call EXCEPT !.at = "head", !.stored = call.todo])
  /\ UNCHANGED uploads
  /\ Watch

(* The object is stored, and the caller is told that it failed.            *)
PutAnswerLost ==
  /\ call.op = "put"
  /\ call.at = "ask"
  /\ objects' = objects \cup call.todo
  /\ Return("error")
  /\ UNCHANGED uploads
  /\ Watch

Verify ==
  /\ call.op = "put"
  /\ call.at = "head"
  /\ Return(IF call.todo \subseteq objects THEN "ok" ELSE "error")
  /\ UNCHANGED <<bucket, watched>>

-----------------------------------------------------------------------------
(* A request is not answered, or with a status of 400 and above, or with a *)
(* page that cannot be read.                                               *)
RequestFails ==
  /\ call.at \in {"ask", "head"}
  /\ Return("error")
  /\ UNCHANGED <<bucket, watched>>

Leave ==
  /\ call.at = "done"
  /\ call' = Idle
  /\ always' = {}
  /\ ever' = {}
  /\ changes' = 0
  /\ UNCHANGED bucket

(* Other processes, the caller's own next steps between two pages included. *)
Interfere ==
  /\ call.at \in {"ask", "head"}
  /\ changes < MaxChanges
  /\ changes' = changes + 1
  /\ \E n \in Names :
       \/ /\ objects' \in {objects \cup {n}, objects \ {n}}
          /\ UNCHANGED uploads
       \/ /\ uploads' \in {uploads \cup {n}, uploads \ {n}}
          /\ UNCHANGED objects
  /\ Watch
  /\ UNCHANGED call

-----------------------------------------------------------------------------
List == TruncatedPage("list") \/ LastPage("list")

ListMultipart == TruncatedPage("uploads") \/ LastPage("uploads")

Delete == DeleteChunk \/ DeleteFails \/ DeleteUnread \/ Deleted

PutObject == Put \/ PutAnswerLost \/ Verify

Answered == List \/ ListMultipart \/ Delete \/ PutObject

Proceed == Answered \/ RequestFails

Start ==
  \/ \E op \in {"list", "uploads"} : Begin(op, {})
  \/ \E given \in SUBSET Names : Begin("delete", given)
  \/ \E n \in Names : Begin("put", {n})

Next == Start \/ Proceed \/ Leave \/ Interfere

Spec == Init /\ [][Next]_vars

(* The bucket answers; that requests fail must not be what ends a call.    *)
FairSpec == Spec /\ WF_vars(Answered)
-----------------------------------------------------------------------------
(***************************************************************************)
(* Properties                                                              *)
(***************************************************************************)
Succeeded(op) == call.op = op /\ call.code = "ok"

(* A listing that succeeds is right about everything that did not change   *)
(* under it: what the bucket held all the while is listed, whatever was    *)
(* stored or deleted between the pages, and nothing is listed that it did  *)
(* not hold at some time of the call.  Cleanup, reconcile and mirror rely  *)
(* on the first, deletes and aborts on the second.                         *)
ListingIsExact ==
  \A op \in {"list", "uploads"} :
    Succeeded(op) => always \subseteq call.got /\ call.got \subseteq ever

(* A delete that reports success removed every key it was given, in every  *)
(* chunk, unless an answer of the bucket could not be read; another        *)
(* process may have stored the key again since.                            *)
SuccessMeansDeleted ==
  Succeeded("delete") /\ ~call.unread => call.given \cap always = {}

(* A put that reports success has stored its object, and found the key     *)
(* taken afterwards though others may delete it in between.  The head finds *)
(* any object of the key, one that was there before too: it cannot stand   *)
(* in for the answer of the put, nor the answer for it.                    *)
SuccessMeansStored ==
  Succeeded("put") => call.given \subseteq call.stored \cap objects

(* Every call returns: pages follow one another while others keep storing, *)
(* but the continuation only moves forward.                                *)
CallsReturn == call.at \in {"ask", "head"} ~> call.at = "done"
-----------------------------------------------------------------------------
(***************************************************************************)
(* The inductive invariant behind these.                                   *)
(***************************************************************************)

(* What has been read is right up to the continuation.                     *)
ListedSoFar ==
  call.op \in {"list", "uploads"} =>
    /\ call.got \subseteq ever
    /\ \A n \in always : n <= call.after => n \in call.got
    /\ call.at = "ask" \/ call.code = "error" \/ always \subseteq call.got

(* What the chunks so far were to remove was missing at some time.         *)
DeletedSoFar ==
  call.op = "delete" =>
    /\ call.todo \subseteq call.given
    /\ ~call.unread => (call.given \ call.todo) \cap always = {}
    /\ call.code = "ok" => call.todo = {}

(* Only a put that was answered is verified.                               *)
PutSoFar ==
  call.op = "put" =>
    /\ call.todo = call.given
    /\ call.at = "head" => call.given \subseteq call.stored
    /\ call.code = "ok" => call.given \subseteq call.stored \cap objects

WatchedHolds ==
  call.op # "none" => always \subseteq Holding(call.op) /\ Holding(call.op) \subseteq ever

StoreInv ==
  /\ TypeOK
  /\ WatchedHolds
  /\ ListedSoFar
  /\ DeletedSoFar
  /\ PutSoFar
  /\ call.code # "none" => call.at = "done"
  /\ call.at \in {"ask", "head", "done"} <=> call.op # "none"
  /\ call.at = "head" => call.op = "put"
=============================================================================
