--------------------------- MODULE S3Store_proofs ---------------------------
(***************************************************************************)
(* Proofs about S3Store, for buckets, pages and chunks of any size and any *)
(* interference: what a call has read or deleted so far is right about all *)
(* that did not change since it began.                                     *)
(***************************************************************************)
EXTENDS S3Store, TLAPS

LEMMA CallFields ==
  ASSUME NEW c \in Calls
  PROVE  /\ c.op \in Operations \cup {"none"}
         /\ c.at \in {"idle", "ask", "head", "done"}
         /\ c.after \in Names \cup {0}
         /\ c.got \subseteq Names /\ c.todo \subseteq Names /\ c.given \subseteq Names
         /\ c.stored \subseteq Names
         /\ c.unread \in BOOLEAN /\ c.code \in {"none", "ok", "error"}
  BY DEF Calls

LEMMA IdleIsCall == Idle \in Calls
  BY DEF Idle, Calls

LEMMA InitHolds == Init => StoreInv
  BY IdleIsCall, StoreAssumption
  DEF Init, StoreAssumption, StoreInv, TypeOK, Idle, WatchedHolds, ListedSoFar, DeletedSoFar, PutSoFar

-----------------------------------------------------------------------------
(* While the bucket changes under a call, what is watched follows.         *)
LEMMA WatchFollows ==
  ASSUME StoreInv, call'.op = call.op, call.op # "none", Watch,
         objects' \in SUBSET Names, uploads' \in SUBSET Names
  PROVE  /\ WatchedHolds'
         /\ always' \in SUBSET Names /\ ever' \in SUBSET Names
         /\ always' \subseteq always /\ ever \subseteq ever'
         /\ call.op # "uploads" => always' \subseteq objects'
<1>1. TypeOK /\ WatchedHolds BY DEF StoreInv
<1> QED BY <1>1 DEF Watch, WatchedHolds, Holding, TypeOK

LEMMA BeginHolds ==
  ASSUME StoreInv, NEW op \in Operations, NEW given \in SUBSET Names, Begin(op, given)
  PROVE  StoreInv'
<1>1. /\ call' = [Idle EXCEPT !.op = op, !.at = "ask", !.todo = given, !.given = given]
      /\ always' = Holding(op) /\ ever' = Holding(op) /\ changes' = 0
      /\ objects' = objects /\ uploads' = uploads
  BY DEF Begin, bucket
<1>2. call' \in Calls BY <1>1 DEF Idle, Calls
<1>3. /\ call'.op = op /\ call'.at = "ask" /\ call'.code = "none" /\ call'.got = {}
      /\ call'.after = 0 /\ call'.todo = given /\ call'.given = given
  BY <1>1 DEF Idle
<1>4. op # "none" BY DEF Operations
<1>5. TypeOK'
  BY <1>1, <1>2, StoreAssumption DEF StoreInv, TypeOK, Holding, StoreAssumption
<1>6. WatchedHolds' BY <1>1, <1>3 DEF WatchedHolds, Holding
<1>7. ListedSoFar'
  <2>1. \A n \in always' : ~(n <= 0)
    BY <1>1 DEF StoreInv, TypeOK, Holding, Names
  <2> QED BY <1>3, <2>1 DEF ListedSoFar
<1>8. DeletedSoFar' BY <1>3 DEF DeletedSoFar
<1>9. PutSoFar' BY <1>3 DEF PutSoFar
<1> QED BY <1>3, <1>4, <1>5, <1>6, <1>7, <1>8, <1>9 DEF StoreInv

(* A call that ends with an error, whatever its request did.               *)
LEMMA ErrorHolds ==
  ASSUME StoreInv, call.at \in {"ask", "head"}, Return("error"),
         objects' \in SUBSET Names, uploads' = uploads,
         UNCHANGED <<bucket, watched>> \/ Watch
  PROVE  StoreInv'
<1>1. /\ call' = [call EXCEPT !.at = "done", !.code = "error"] /\ changes' = changes
      /\ call \in Calls /\ call.op # "none"
  BY DEF Return, Continue, StoreInv, TypeOK
<1>2. /\ call' \in Calls /\ call'.at = "done" /\ call'.code = "error"
      /\ call'.op = call.op /\ call'.got = call.got /\ call'.after = call.after
      /\ call'.todo = call.todo /\ call'.given = call.given /\ call'.unread = call.unread
      /\ call'.stored = call.stored
  BY <1>1 DEF Calls
<1>3. /\ WatchedHolds'
      /\ always' \in SUBSET Names /\ ever' \in SUBSET Names
      /\ always' \subseteq always /\ ever \subseteq ever'
  <2>1. CASE UNCHANGED <<bucket, watched>>
    BY <2>1, <1>2 DEF bucket, watched, StoreInv, TypeOK, WatchedHolds, Holding
  <2>2. CASE Watch
    <3>1. uploads' \in SUBSET Names BY DEF StoreInv, TypeOK
    <3> QED BY <2>2, <3>1, <1>1, <1>2, WatchFollows
  <2> QED BY <2>1, <2>2
<1>4. TypeOK' BY <1>1, <1>2, <1>3 DEF StoreInv, TypeOK
<1>5. ListedSoFar' BY <1>2, <1>3 DEF StoreInv, ListedSoFar
<1>6. DeletedSoFar' BY <1>2, <1>3 DEF StoreInv, DeletedSoFar
<1>7. PutSoFar' BY <1>2 DEF StoreInv, PutSoFar
<1> QED BY <1>1, <1>2, <1>3, <1>4, <1>5, <1>6, <1>7 DEF StoreInv

-----------------------------------------------------------------------------
LEMMA TruncatedPageHolds ==
  ASSUME StoreInv, NEW op \in {"list", "uploads"}, TruncatedPage(op)
  PROVE  StoreInv'
<1>1. PICK last \in Beyond(op) :
        call' = [call EXCEPT !.after = last, !.got = @ \cup Page(op, last)]
  BY DEF TruncatedPage, Continue
<1>2. /\ call.op = op /\ call.at = "ask" /\ call \in Calls
      /\ changes' = changes /\ objects' = objects /\ uploads' = uploads
      /\ always' = always /\ ever' = ever
  BY DEF TruncatedPage, Continue, bucket, watched, StoreInv, TypeOK
<1>3. /\ Holding(op) \subseteq Names /\ last \in Names /\ Page(op, last) \subseteq Holding(op)
      /\ always \subseteq Holding(op) /\ Holding(op) \subseteq ever
      /\ always \subseteq Names
  BY <1>1, <1>2 DEF StoreInv, TypeOK, WatchedHolds, Holding, Beyond, Page
<1>4. /\ call' \in Calls /\ call'.at = "ask" /\ call'.code = call.code /\ call'.op = op
      /\ call'.got = call.got \cup Page(op, last) /\ call'.after = last
  BY <1>1, <1>2, <1>3 DEF Calls
<1>5. TypeOK' BY <1>2, <1>4 DEF StoreInv, TypeOK
<1>6. WatchedHolds' BY <1>2, <1>4 DEF StoreInv, WatchedHolds, Holding
<1>7. ListedSoFar'
  <2>1. call'.got \subseteq ever BY <1>2, <1>3, <1>4 DEF StoreInv, ListedSoFar
  <2>2. ASSUME NEW n \in always, n <= last PROVE n \in call'.got
    <3>1. CASE n <= call.after BY <3>1, <1>2, <1>4 DEF StoreInv, ListedSoFar
    <3>2. CASE ~(n <= call.after)
      <4>1. n \in Nat /\ call.after \in Nat BY <1>2, <1>3, CallFields DEF Names
      <4>2. n > call.after BY <3>2, <4>1
      <4> QED BY <4>2, <2>2, <1>3, <1>4 DEF Beyond, Page
    <3> QED BY <3>1, <3>2
  <2> QED BY <2>1, <2>2, <1>2, <1>4 DEF ListedSoFar
<1>8. DeletedSoFar' BY <1>4 DEF DeletedSoFar
<1>9. PutSoFar' BY <1>4 DEF PutSoFar
<1> QED BY <1>2, <1>4, <1>5, <1>6, <1>7, <1>8, <1>9 DEF StoreInv

LEMMA LastPageHolds ==
  ASSUME StoreInv, NEW op \in {"list", "uploads"}, LastPage(op)
  PROVE  StoreInv'
<1>1. /\ call' = [call EXCEPT !.at = "done", !.code = "ok", !.got = @ \cup Beyond(op)]
      /\ call.op = op /\ call.at = "ask" /\ call \in Calls
      /\ changes' = changes /\ objects' = objects /\ uploads' = uploads
      /\ always' = always /\ ever' = ever
  BY DEF LastPage, Continue, bucket, watched, StoreInv, TypeOK
<1>2. /\ Holding(op) \subseteq Names /\ Beyond(op) \subseteq Holding(op)
      /\ always \subseteq Holding(op) /\ Holding(op) \subseteq ever
      /\ always \subseteq Names
  BY <1>1 DEF StoreInv, TypeOK, WatchedHolds, Holding, Beyond
<1>3. /\ call' \in Calls /\ call'.at = "done" /\ call'.code = "ok" /\ call'.op = op
      /\ call'.got = call.got \cup Beyond(op) /\ call'.after = call.after
  BY <1>1, <1>2 DEF Calls
<1>4. TypeOK' BY <1>1, <1>3 DEF StoreInv, TypeOK
<1>5. WatchedHolds' BY <1>1, <1>3 DEF StoreInv, WatchedHolds, Holding
<1>6. ListedSoFar'
  <2>1. call'.got \subseteq ever BY <1>1, <1>2, <1>3 DEF StoreInv, ListedSoFar
  <2>2. ASSUME NEW n \in always PROVE n \in call'.got
    <3>1. CASE n <= call.after BY <3>1, <1>1, <1>3 DEF StoreInv, ListedSoFar
    <3>2. CASE ~(n <= call.after)
      <4>1. n \in Nat /\ call.after \in Nat BY <1>1, <1>2, CallFields DEF Names
      <4>2. n > call.after BY <3>2, <4>1
      <4> QED BY <4>2, <1>2, <1>3 DEF Beyond
    <3> QED BY <3>1, <3>2
  <2> QED BY <2>1, <2>2, <1>1, <1>3 DEF ListedSoFar
<1>7. DeletedSoFar' BY <1>3 DEF DeletedSoFar
<1>8. PutSoFar' BY <1>3 DEF PutSoFar
<1> QED BY <1>3, <1>4, <1>5, <1>6, <1>7, <1>8 DEF StoreInv

-----------------------------------------------------------------------------
(* A chunk that was answered: gone, or of an answer that was not read.     *)
LEMMA ChunkHolds ==
  ASSUME StoreInv, DeleteChunk \/ DeleteUnread
  PROVE  StoreInv'
<1>1. /\ call.op = "delete" /\ call.at = "ask" /\ Watch /\ call \in Calls
      /\ uploads' = uploads /\ changes' = changes
      /\ objects' \in SUBSET Names /\ uploads' \in SUBSET Names
  BY DEF DeleteChunk, DeleteUnread, Continue, StoreInv, TypeOK
<1>2. Chunk \subseteq call.todo BY DEF Chunk
<1>3. /\ call' \in Calls /\ call'.op = "delete" /\ call'.at = "ask"
      /\ call'.code = call.code /\ call'.given = call.given
      /\ call'.todo = call.todo \ Chunk
      /\ \/ call'.unread
         \/ call'.unread = call.unread /\ objects' = objects \ Chunk
  BY <1>1 DEF DeleteChunk, DeleteUnread, Continue, Calls
<1>4. /\ WatchedHolds'
      /\ always' \in SUBSET Names /\ ever' \in SUBSET Names
      /\ always' \subseteq always /\ always' \subseteq objects'
  BY <1>1, <1>3, WatchFollows
<1>5. TypeOK' BY <1>1, <1>3, <1>4 DEF StoreInv, TypeOK
<1>6. ListedSoFar' BY <1>3 DEF ListedSoFar
<1>7. DeletedSoFar'
  <2>1. /\ call.todo \subseteq call.given /\ call.code = "none"
        /\ ~call.unread => (call.given \ call.todo) \cap always = {}
    BY <1>1, CallFields DEF StoreInv, DeletedSoFar
  <2>2. ASSUME ~call'.unread
        PROVE  (call'.given \ call'.todo) \cap always' = {}
    BY <1>2, <1>3, <1>4, <2>1, <2>2
  <2> QED BY <1>3, <2>1, <2>2 DEF DeletedSoFar
<1>8. PutSoFar' BY <1>3 DEF PutSoFar
<1> QED BY <1>1, <1>3, <1>4, <1>5, <1>6, <1>7, <1>8 DEF StoreInv

LEMMA DeletedHolds ==
  ASSUME StoreInv, Deleted
  PROVE  StoreInv'
<1>1. /\ call' = [call EXCEPT !.at = "done", !.code = "ok"]
      /\ call.op = "delete" /\ call.at = "ask" /\ call.todo = {} /\ call \in Calls
      /\ changes' = changes /\ objects' = objects /\ uploads' = uploads
      /\ always' = always /\ ever' = ever
  BY DEF Deleted, Return, Continue, bucket, watched, StoreInv, TypeOK
<1>2. /\ call' \in Calls /\ call'.at = "done" /\ call'.code = "ok" /\ call'.op = "delete"
      /\ call'.todo = {} /\ call'.given = call.given /\ call'.unread = call.unread
  BY <1>1 DEF Calls
<1>3. TypeOK' BY <1>1, <1>2 DEF StoreInv, TypeOK
<1>4. WatchedHolds' BY <1>1, <1>2 DEF StoreInv, WatchedHolds, Holding
<1>5. ListedSoFar' BY <1>2 DEF ListedSoFar
<1>6. DeletedSoFar' BY <1>1, <1>2 DEF StoreInv, DeletedSoFar
<1>7. PutSoFar' BY <1>2 DEF PutSoFar
<1> QED BY <1>2, <1>3, <1>4, <1>5, <1>6, <1>7 DEF StoreInv

-----------------------------------------------------------------------------
LEMMA PutHolds ==
  ASSUME StoreInv, Put
  PROVE  StoreInv'
<1>1. /\ call' = [call EXCEPT !.at = "head", !.stored = call.todo]
      /\ call.op = "put" /\ call.at = "ask" /\ call \in Calls /\ Watch
      /\ changes' = changes /\ objects' = objects \cup call.todo /\ uploads' = uploads
  BY DEF Put, Continue, StoreInv, TypeOK
<1>2. /\ call' \in Calls /\ call'.at = "head" /\ call'.code = call.code /\ call'.op = "put"
      /\ call'.todo = call.todo /\ call'.given = call.given /\ call'.stored = call.todo
  BY <1>1 DEF Calls
<1>3. objects' \in SUBSET Names /\ uploads' \in SUBSET Names
  BY <1>1, CallFields DEF StoreInv, TypeOK
<1>4. WatchedHolds' /\ always' \in SUBSET Names /\ ever' \in SUBSET Names
  BY <1>1, <1>2, <1>3, WatchFollows
<1>5. TypeOK' BY <1>1, <1>2, <1>3, <1>4 DEF StoreInv, TypeOK
<1>6. ListedSoFar' /\ DeletedSoFar' BY <1>2 DEF ListedSoFar, DeletedSoFar
<1>7. PutSoFar' BY <1>1, <1>2 DEF StoreInv, PutSoFar
<1> QED BY <1>1, <1>2, <1>4, <1>5, <1>6, <1>7 DEF StoreInv

LEMMA VerifyHolds ==
  ASSUME StoreInv, Verify
  PROVE  StoreInv'
<1>1. PICK code \in {"ok", "error"} :
        /\ call' = [call EXCEPT !.at = "done", !.code = code]
        /\ code = "ok" => call.todo \subseteq objects
  BY DEF Verify, Return, Continue
<1>2. /\ call.op = "put" /\ call.at = "head" /\ call \in Calls
      /\ changes' = changes /\ objects' = objects /\ uploads' = uploads
      /\ always' = always /\ ever' = ever
  BY DEF Verify, Return, Continue, bucket, watched, StoreInv, TypeOK
<1>3. /\ call' \in Calls /\ call'.at = "done" /\ call'.code = code /\ call'.op = "put"
      /\ call'.todo = call.todo /\ call'.given = call.given /\ call'.stored = call.stored
  BY <1>1, <1>2 DEF Calls
<1>4. TypeOK' BY <1>2, <1>3 DEF StoreInv, TypeOK
<1>5. WatchedHolds' BY <1>2, <1>3 DEF StoreInv, WatchedHolds, Holding
<1>6. ListedSoFar' /\ DeletedSoFar' BY <1>3 DEF ListedSoFar, DeletedSoFar
<1>7. PutSoFar' BY <1>1, <1>2, <1>3 DEF StoreInv, PutSoFar
<1> QED BY <1>3, <1>4, <1>5, <1>6, <1>7 DEF StoreInv

LEMMA InterfereHolds ==
  ASSUME StoreInv, Interfere
  PROVE  StoreInv'
<1>1. /\ call' = call /\ call.op # "none" /\ Watch
      /\ changes < MaxChanges /\ changes' = changes + 1
      /\ objects' \in SUBSET Names /\ uploads' \in SUBSET Names
  BY DEF Interfere, StoreInv, TypeOK
<1>2. /\ WatchedHolds'
      /\ always' \in SUBSET Names /\ ever' \in SUBSET Names
      /\ always' \subseteq always /\ ever \subseteq ever'
  BY <1>1, WatchFollows
<1>3. changes' \in 0..MaxChanges
  BY <1>1, StoreAssumption DEF StoreInv, TypeOK, StoreAssumption
<1>4. TypeOK' BY <1>1, <1>2, <1>3 DEF StoreInv, TypeOK
<1>5. ListedSoFar' BY <1>1, <1>2 DEF StoreInv, ListedSoFar
<1>6. DeletedSoFar' BY <1>1, <1>2 DEF StoreInv, DeletedSoFar
<1>7. PutSoFar' BY <1>1 DEF StoreInv, PutSoFar, Interfere
<1> QED BY <1>1, <1>2, <1>4, <1>5, <1>6, <1>7 DEF StoreInv

LEMMA LeaveHolds == ASSUME StoreInv, Leave PROVE StoreInv'
<1>1. call' = Idle /\ always' = {} /\ ever' = {} /\ changes' = 0
      /\ objects' = objects /\ uploads' = uploads
  BY DEF Leave, bucket
<1> QED BY <1>1, IdleIsCall, StoreAssumption
        DEF StoreAssumption, StoreInv, TypeOK, Idle, WatchedHolds, ListedSoFar, DeletedSoFar, PutSoFar

LEMMA StepHolds == StoreInv /\ [Next]_vars => StoreInv'
<1> SUFFICES ASSUME StoreInv, [Next]_vars PROVE StoreInv' OBVIOUS
<1>1. CASE Start
  <2>1. {"list", "uploads", "delete", "put"} = Operations BY DEF Operations
  <2> QED BY <1>1, <2>1, BeginHolds DEF Start
<1>2. CASE List \/ ListMultipart
  BY <1>2, TruncatedPageHolds, LastPageHolds DEF List, ListMultipart
<1>3. CASE DeleteFails
  <2>1. objects' \in SUBSET Names BY <1>3 DEF DeleteFails, StoreInv, TypeOK
  <2> QED BY <1>3, <2>1, ErrorHolds DEF DeleteFails
<1>4. CASE PutAnswerLost
  <2>1. objects' \in SUBSET Names
    BY <1>4, CallFields DEF PutAnswerLost, StoreInv, TypeOK
  <2> QED BY <1>4, <2>1, ErrorHolds DEF PutAnswerLost
<1>5. CASE RequestFails
  <2>1. objects' \in SUBSET Names /\ uploads' = uploads
    BY <1>5 DEF RequestFails, bucket, StoreInv, TypeOK
  <2> QED BY <1>5, <2>1, ErrorHolds DEF RequestFails
<1>6. CASE UNCHANGED vars
  BY <1>6 DEF vars, bucket, watched, StoreInv, TypeOK, WatchedHolds, Holding,
              ListedSoFar, DeletedSoFar, PutSoFar
<1> QED
  BY <1>1, <1>2, <1>3, <1>4, <1>5, <1>6, ChunkHolds, DeletedHolds, PutHolds, VerifyHolds,
     InterfereHolds, LeaveHolds DEF Next, Proceed, Answered, Delete, PutObject

-----------------------------------------------------------------------------
(* The invariant of a call of the bucket adapter.                          *)
THEOREM StoreHolds == Spec => []StoreInv
  BY InitHolds, StepHolds, PTL DEF Spec

(* A listing that succeeds is right about all that did not change.         *)
THEOREM ListingsAreExact == Spec => []ListingIsExact
<1>1. StoreInv => ListingIsExact
  BY DEF StoreInv, ListedSoFar, ListingIsExact, Succeeded
<1> QED BY <1>1, StoreHolds, PTL

(* A delete that succeeds deleted every key.                               *)
THEOREM DeletesAreDone == Spec => []SuccessMeansDeleted
<1>1. StoreInv => SuccessMeansDeleted
  BY DEF StoreInv, DeletedSoFar, SuccessMeansDeleted, Succeeded
<1> QED BY <1>1, StoreHolds, PTL

(* A put that succeeds stored its object, and found it there.              *)
THEOREM PutsAreStored == Spec => []SuccessMeansStored
<1>1. StoreInv => SuccessMeansStored
  BY DEF StoreInv, PutSoFar, SuccessMeansStored, Succeeded
<1> QED BY <1>1, StoreHolds, PTL
=============================================================================
