------------------------ MODULE UploadClient_proofs ------------------------
(***************************************************************************)
(* Theorems about UploadClient: whatever the number of files, parts,       *)
(* workers, calls and sessions, progress is never counted too high, a file *)
(* is finalized with all of its parts and a reported file is stored; and   *)
(* whatever calls leave behind, the client implements ClientContract.      *)
(***************************************************************************)
EXTENDS UploadClient, TLAPS, FiniteSetTheorems, WellFoundedInduction

(* The sets TypeOK draws the variables from.                               *)
Stages == {"idle", "read", "decide", "prepare", "upload", "finalize", "failed", "done"}
Holders == [Files -> Sessions \cup {NoSession}]
CallStates ==
  [at : Stages, entries : Holders, kept : [Files -> SUBSET Parts], file : Files,
   list : SUBSET Parts, pending : SUBSET Parts, busy : SUBSET Parts, sent : SUBSET Parts]
StoreStates ==
  [Files -> [session : Sessions \cup {NoSession}, parts : SUBSET Parts, age : 0..MaxAge]]
SessionStates ==
  [Sessions -> [upload : {"open", "stored", "damaged", "closed"},
                received : SUBSET Parts, age : 0..MaxAge]]

(* The invariant, as far as it is about one call in the state k, beside    *)
(* the server's sessions se.                                               *)
Held(k) == k.at \in {"upload", "finalize", "failed", "done"} =>
             \A f \in Files : k.entries[f] # NoSession
Right(se, s, parts) ==
  s # NoSession /\ se[s].upload = "open" => parts \subseteq se[s].received
Believes(k, se) ==
  /\ \A f \in Files : Right(se, k.entries[f], k.kept[f])
  /\ Right(se, k.entries[k.file], k.list \cup k.sent)
Accounts(k) ==
  /\ k.sent \subseteq k.busy
  /\ k.at \notin {"upload", "failed"} => k.busy = {} /\ k.pending = {}
  /\ k.at \in {"idle", "read", "decide", "prepare"} => k.list = {}
  /\ k.at \in {"upload", "failed"} /\ k.busy \cup k.pending # {} => k.file \in Large
  /\ k.at \in {"upload", "finalize"} /\ k.file \in Large =>
       Parts = k.list \cup k.pending \cup k.busy
Earlier(k, se) ==
  /\ k.at \in {"upload", "finalize"} =>
       \A f \in 1..(k.file - 1) : se[k.entries[f]].upload = "stored"
  /\ k.at = "done" => \A f \in Files : se[k.entries[f]].upload = "stored"
CallOk(k, se) == Held(k) /\ Believes(k, se) /\ Accounts(k) /\ Earlier(k, se)

StoreOk(st, se) == \A f \in Files : Right(se, st[f].session, st[f].parts)

(* ClientInv, call by call.                                                *)
LEMMA ByCall ==
  ClientInv <=> /\ TypeOK /\ OneFilePerSession /\ StoreOk(store, session)
                /\ \A c \in Calls : CallOk(call[c], session)
BY DEF ClientInv, HasSessions, BeliefsAreRight, PartsAccounted, EarlierStored, StoredWhileOpen,
       Current, StoreOk, CallOk, Held, Right, Believes, Accounts, Earlier

LEMMA ByCallNext ==
  ClientInv' <=> /\ TypeOK' /\ OneFilePerSession' /\ StoreOk(store', session')
                 /\ \A c \in Calls : CallOk(call'[c], session')
BY DEF ClientInv, HasSessions, BeliefsAreRight, PartsAccounted, EarlierStored, StoredWhileOpen,
       Current, StoreOk, CallOk, Held, Right, Believes, Accounts, Earlier

LEMMA TypeFacts ==
  TypeOK <=> /\ store \in StoreStates /\ call \in [Calls -> CallStates]
             /\ session \in SessionStates /\ faults \in 0..MaxFaults
BY DEF TypeOK, StoreStates, CallStates, SessionStates, Stages, Holders

LEMMA TypeFactsNext ==
  TypeOK' <=> /\ store' \in StoreStates /\ call' \in [Calls -> CallStates]
              /\ session' \in SessionStates /\ faults' \in 0..MaxFaults
BY DEF TypeOK, StoreStates, CallStates, SessionStates, Stages, Holders

(* A step does nothing to a session that spoils a belief about it.         *)
Calm(s) ==
  /\ session'[s].upload = "open" =>
       session[s].upload = "open" /\ session[s].received \subseteq session'[s].received
  /\ session[s].upload = "stored" => session'[s].upload = "stored"

LEMMA CallKept ==
  ASSUME NEW k \in CallStates, CallOk(k, session),
         \A f \in Files : k.entries[f] # NoSession => Calm(k.entries[f])
  PROVE  CallOk(k, session')
<1>1. k.file \in Files /\ 1..(k.file - 1) \subseteq Files
  BY ClientAssumption DEF CallStates, Files
<1>2. Believes(k, session')
  BY <1>1 DEF CallOk, Believes, Right, Calm
<1>3. Earlier(k, session')
  <2>1. ASSUME k.at \in {"upload", "finalize"}, NEW f \in 1..(k.file - 1)
        PROVE  session'[k.entries[f]].upload = "stored"
    BY <1>1, <2>1 DEF CallOk, Held, Earlier, Calm
  <2>2. ASSUME k.at = "done", NEW f \in Files
        PROVE  session'[k.entries[f]].upload = "stored"
    BY <2>2 DEF CallOk, Held, Earlier, Calm
  <2> QED BY <2>1, <2>2 DEF Earlier
<1> QED BY <1>2, <1>3 DEF CallOk

(* A step of one call, which leaves it in the state k.                     *)
LEMMA CallSteps ==
  ASSUME ClientInv, NEW c \in Calls, NEW k \in CallStates,
         call' = [call EXCEPT ![c] = k],
         store' \in StoreStates, session' \in SessionStates, faults' \in 0..MaxFaults,
         \A s \in Sessions : Remembered(s) => Calm(s),
         CallOk(k, session'), StoreOk(store', session'), OneFilePerSession'
  PROVE  ClientInv'
<1>1. call \in [Calls -> CallStates] /\ \A d \in Calls : CallOk(call[d], session)
  BY ByCall, TypeFacts
<1>2. call' \in [Calls -> CallStates] /\ \A d \in Calls : call'[d] = IF d = c THEN k ELSE call[d]
  BY <1>1
<1>3. TypeOK'
  BY <1>2, TypeFactsNext
<1>4. ASSUME NEW d \in Calls PROVE CallOk(call'[d], session')
  <2>1. CASE d = c
    BY <1>2, <2>1
  <2>2. CASE d # c
    <3>1. call[d] \in CallStates /\ call'[d] = call[d] /\ CallOk(call[d], session)
      BY <1>1, <1>2, <2>2
    <3>2. ASSUME NEW f \in Files, call[d].entries[f] # NoSession
          PROVE  Calm(call[d].entries[f])
      <4>1. call[d].entries[f] \in Sessions
        BY <3>1, <3>2 DEF CallStates, Holders
      <4>2. Remembered(call[d].entries[f])
        BY DEF Remembered
      <4> QED BY <4>1, <4>2
    <3> QED BY <3>1, <3>2, CallKept
  <2> QED BY <2>1, <2>2
<1> QED BY <1>3, <1>4, ByCallNext

(* Sessions that keep to the files they were remembered for.               *)
LEMMA OneFileKept ==
  ASSUME OneFilePerSession,
         \A f \in Files : store'[f].session \in RememberedFor(f) \cup {NoSession},
         \A f \in Files, d \in Calls :
            call'[d].entries[f] \in RememberedFor(f) \cup {NoSession}
  PROVE  OneFilePerSession'
<1>1. \A f \in Files : RememberedFor(f)' \subseteq RememberedFor(f) \cup {NoSession}
  BY DEF RememberedFor
<1> QED BY <1>1 DEF OneFilePerSession

(* A step of one call that remembers no session it did not.                *)
LEMMA QuietSteps ==
  ASSUME ClientInv, NEW c \in Calls, NEW k \in CallStates,
         call' = [call EXCEPT ![c] = k],
         store' \in StoreStates, session' \in SessionStates, faults' \in 0..MaxFaults,
         \A s \in Sessions : Calm(s),
         CallOk(k, session'), StoreOk(store', session'),
         \A f \in Files : store'[f].session \in RememberedFor(f) \cup {NoSession},
         \A f \in Files : k.entries[f] \in RememberedFor(f) \cup {NoSession}
  PROVE  ClientInv'
<1>1. \A d \in Calls : call'[d] = IF d = c THEN k ELSE call[d]
  BY TypeFacts, ByCall
<1>2. \A f \in Files, d \in Calls : call'[d].entries[f] \in RememberedFor(f) \cup {NoSession}
  BY <1>1 DEF RememberedFor
<1>3. OneFilePerSession'
  BY <1>2, OneFileKept DEF ClientInv
<1> QED BY <1>3, CallSteps
-----------------------------------------------------------------------------
(* A set of part numbers has a least one.                                  *)
LEMMA LeastPart ==
  ASSUME NEW S \in SUBSET Parts, S # {}
  PROVE  \E q \in S : \A r \in S : q <= r
<1>1. IsWellFoundedOn({p \in Nat \X Nat : p[1] < p[2]}, Nat)
  BY NatLessThanWellFounded DEF OpToRel
<1>2. S \subseteq Nat
  BY ClientAssumption
<1>3. PICK q \in S : \A r \in S : ~ (<<r, q>> \in {p \in Nat \X Nat : p[1] < p[2]})
  BY <1>1, <1>2, WFMin
<1>4. ASSUME NEW r \in S PROVE q <= r
  <2>1. q \in Nat /\ r \in Nat /\ <<r, q>> \in Nat \X Nat
    BY <1>2
  <2>2. ~ (r < q)
    BY <1>3, <2>1
  <2> QED BY <2>1, <2>2
<1> QED BY <1>4

(* What is known of a call.                                                *)
LEMMA CallFacts ==
  ASSUME ClientInv, NEW c \in Calls
  PROVE  /\ call[c] \in CallStates /\ CallOk(call[c], session)
         /\ store \in StoreStates /\ session \in SessionStates /\ faults \in 0..MaxFaults
         /\ StoreOk(store, session)
  BY ByCall, TypeFacts

LEMMA CalmSame ==
  ASSUME UNCHANGED session
  PROVE  \A s \in Sessions : Calm(s)
  BY DEF Calm

LEMMA FaultCounts ==
  ASSUME ClientInv, Fault \/ UNCHANGED faults
  PROVE  faults' \in 0..MaxFaults
  BY ClientAssumption DEF Fault, ClientInv, TypeOK

LEMMA StoreKept ==
  ASSUME ClientInv, \A s \in Sessions : Calm(s)
  PROVE  StoreOk(store, session')
  BY ByCall, TypeFacts DEF StoreOk, StoreStates, Right, Calm

(* A call that has ended is in order.                                      *)
LEMMA IdleFacts ==
  /\ Idle \in CallStates
  /\ \A f \in Files : Idle.entries[f] = NoSession
  /\ \A se : CallOk(Idle, se)
<1>1. 1 \in Files
  BY ClientAssumption DEF Files
<1> QED
  BY <1>1 DEF Idle, CallStates, Stages, Holders, CallOk, Held, Believes, Right, Accounts, Earlier

(* A call turns to a file when those before it are stored.                 *)
LEMMA AtFileFacts ==
  ASSUME NEW k \in CallStates, NEW f \in Files, NEW se,
         \A g \in Files : k.entries[g] # NoSession,
         \A g \in Files : Right(se, k.entries[g], k.kept[g]),
         \A g \in 1..(f - 1) : se[k.entries[g]].upload = "stored"
  PROVE  /\ AtFile(k, f) \in CallStates
         /\ AtFile(k, f).entries = k.entries
         /\ CallOk(AtFile(k, f), se)
<1> DEFINE done == IF f \in Large THEN k.kept[f] ELSE {}
           todo == IF f \in Large THEN Parts \ done ELSE {}
           a == AtFile(k, f)
<1>1. done \in SUBSET Parts /\ todo \in SUBSET Parts /\ FirstOf(todo) \subseteq todo
  BY DEF CallStates, FirstOf
<1>2. /\ a = [k EXCEPT !.at = IF f \in Large /\ todo = {} THEN "finalize" ELSE "upload",
               !.file = f, !.list = done, !.pending = todo \ FirstOf(todo),
               !.busy = FirstOf(todo), !.sent = {}]
  BY DEF AtFile
<1>3. /\ a.at = IF f \in Large /\ todo = {} THEN "finalize" ELSE "upload"
      /\ a.entries = k.entries /\ a.kept = k.kept /\ a.file = f /\ a.list = done
      /\ a.pending = todo \ FirstOf(todo) /\ a.busy = FirstOf(todo) /\ a.sent = {}
      /\ a \in CallStates
  <2>1. todo \ FirstOf(todo) \in SUBSET Parts /\ FirstOf(todo) \in SUBSET Parts
    BY <1>1
  <2> HIDE DEF todo, done, a
  <2>2. /\ a.at = IF f \in Large /\ todo = {} THEN "finalize" ELSE "upload"
        /\ a.entries = k.entries /\ a.kept = k.kept /\ a.file = f /\ a.list = done
        /\ a.pending = todo \ FirstOf(todo) /\ a.busy = FirstOf(todo) /\ a.sent = {}
    BY <1>2 DEF CallStates
  <2>3. a \in CallStates
    BY <1>1, <1>2, <2>1 DEF CallStates, Stages
  <2> QED BY <2>2, <2>3
<1>4. Held(a)
  BY <1>3 DEF Held
<1>5. Believes(a, se)
  BY <1>3 DEF Believes, Right
<1>6. Accounts(a)
  <2>1. todo # {} => f \in Large
    OBVIOUS
  <2>2. f \in Large => Parts = done \cup todo
    BY <1>1
  <2> HIDE DEF done, todo, a
  <2> QED BY <1>1, <1>3, <2>1, <2>2 DEF Accounts
<1>7. Earlier(a, se)
  BY <1>3 DEF Earlier
<1> QED BY <1>3, <1>4, <1>5, <1>6, <1>7 DEF CallOk

-----------------------------------------------------------------------------
(* Initially nothing is remembered.                                        *)
LEMMA InitHolds == Init => ClientInv
<1> SUFFICES ASSUME Init PROVE ClientInv
  OBVIOUS
<1>1. 0 \in 0..MaxAge /\ 0 \in 0..MaxFaults
  BY ClientAssumption DEF MaxAge
<1>2. TypeOK
  BY <1>1, IdleFacts, TypeFacts DEF Init, Unsaved, StoreStates, SessionStates
<1>3. \A f \in Files : store[f].session = NoSession
  BY DEF Init, Unsaved
<1>4. OneFilePerSession
  BY <1>3, IdleFacts DEF Init, OneFilePerSession, RememberedFor
<1>5. StoreOk(store, session)
  BY <1>3 DEF StoreOk, Right
<1> QED BY <1>2, <1>4, <1>5, IdleFacts, ByCall DEF Init

(* A call ends: it fails, is paused, or cannot go on.                      *)
LEMMA EndHolds ==
  ASSUME ClientInv, NEW c \in Calls, call' = [call EXCEPT ![c] = Idle],
         UNCHANGED <<store, session>>, Fault \/ UNCHANGED faults
  PROVE  ClientInv'
<1>1. \A f \in Files : store'[f].session \in RememberedFor(f) \cup {NoSession}
  BY DEF RememberedFor
<1> QED
  BY <1>1, CallFacts, IdleFacts, CalmSame, FaultCounts, QuietSteps

LEMMA BeginHolds ==
  ASSUME ClientInv, NEW c \in Calls, Begin(c)
  PROVE  ClientInv'
<1> DEFINE k == [call[c] EXCEPT !.at = "read"]
<1>1. call[c] \in CallStates /\ CallOk(call[c], session) /\ call[c].at = "idle"
  BY CallFacts DEF Begin
<1>2. /\ k \in CallStates /\ k.at = "read" /\ k.entries = call[c].entries
      /\ k.kept = call[c].kept /\ k.file = call[c].file /\ k.list = call[c].list
      /\ k.sent = call[c].sent /\ k.busy = call[c].busy /\ k.pending = call[c].pending
  BY <1>1 DEF CallStates, Stages
<1>3. call' = [call EXCEPT ![c] = k] /\ UNCHANGED <<store, session, faults>>
  BY DEF Begin
<1> HIDE DEF k
<1>4. CallOk(k, session)
  BY <1>1, <1>2 DEF CallOk, Held, Believes, Accounts, Earlier
<1>5. \A f \in Files : k.entries[f] \in RememberedFor(f) /\ store[f].session \in RememberedFor(f)
  BY <1>2 DEF RememberedFor
<1> QED
  BY <1>2, <1>3, <1>4, <1>5, CallFacts, CalmSame, QuietSteps

(* An entry of the store is read.                                          *)
LEMMA ReadSavedHolds ==
  ASSUME ClientInv, NEW c \in Calls, ReadSaved(c)
  PROVE  ClientInv'
<1> DEFINE f == call[c].file
           held == IF Saved(f) THEN store[f].session ELSE NoSession
           parts == IF Saved(f) THEN store[f].parts ELSE {}
           k == call'[c]
<1>1. /\ call[c] \in CallStates /\ CallOk(call[c], session) /\ call[c].at = "read"
      /\ store \in StoreStates /\ StoreOk(store, session)
  BY CallFacts DEF ReadSaved
<1>2. f \in Files /\ held \in Sessions \cup {NoSession} /\ parts \in SUBSET Parts
  BY <1>1 DEF CallStates, StoreStates
<1>3. k.at \in {"read", "decide"} /\ k.file \in Files
  <2>1. f # FileCount => f + 1 \in Files
    BY <1>2, ClientAssumption DEF Files
  <2>2. 1 \in Files
    BY ClientAssumption DEF Files
  <2>3. call \in [Calls -> CallStates]
    BY ByCall, TypeFacts
  <2>4. k = [call[c] EXCEPT !.entries[f] = held, !.kept[f] = parts,
              !.at = IF f = FileCount THEN "decide" ELSE "read",
              !.file = IF f = FileCount THEN 1 ELSE f + 1]
    BY <2>3 DEF ReadSaved
  <2> QED BY <1>1, <2>1, <2>2, <2>4 DEF CallStates
<1>4. /\ k.entries = [call[c].entries EXCEPT ![f] = held]
      /\ k.kept = [call[c].kept EXCEPT ![f] = parts]
      /\ k.list = call[c].list /\ k.pending = call[c].pending
      /\ k.busy = call[c].busy /\ k.sent = call[c].sent
      /\ k \in [at : {k.at}, entries : {k.entries}, kept : {k.kept}, file : {k.file},
                list : {k.list}, pending : {k.pending}, busy : {k.busy}, sent : {k.sent}]
      /\ call' = [call EXCEPT ![c] = k]
  <2>3. call \in [Calls -> CallStates]
    BY ByCall, TypeFacts
  <2>4. k = [call[c] EXCEPT !.entries[f] = held, !.kept[f] = parts,
              !.at = IF f = FileCount THEN "decide" ELSE "read",
              !.file = IF f = FileCount THEN 1 ELSE f + 1]
    BY <2>3 DEF ReadSaved
  <2>5. call' = [call EXCEPT ![c] = k]
    BY <2>3, <2>4 DEF ReadSaved
  <2> QED BY <1>1, <2>4, <2>5 DEF CallStates
<1>5. UNCHANGED <<store, session, faults>>
  BY DEF ReadSaved
<1>6. Right(session, held, parts)
  BY <1>1, <1>2 DEF StoreOk, Right, Saved
<1>7. /\ call[c].list = {} /\ call[c].sent = {}
      /\ call[c].busy = {} /\ call[c].pending = {}
  BY <1>1 DEF CallOk, Accounts
<1>8. /\ call[c].entries \in Holders /\ call[c].kept \in [Files -> SUBSET Parts]
      /\ \A g \in Files : Right(session, call[c].entries[g], call[c].kept[g])
  BY <1>1 DEF CallStates, CallOk, Believes
<1>9. held \in RememberedFor(f) \cup {NoSession}
  BY DEF RememberedFor
<1>10. \A g \in Files : call[c].entries[g] \in RememberedFor(g) /\ store[g].session \in RememberedFor(g)
  BY DEF RememberedFor
<1> HIDE DEF held, parts, f, k
<1>11. k \in CallStates
  <2>1. k.entries \in Holders /\ k.kept \in [Files -> SUBSET Parts]
    BY <1>2, <1>4, <1>8 DEF Holders
  <2> QED BY <1>3, <1>4, <1>7, <2>1 DEF CallStates, Stages
<1>12. CallOk(k, session)
  <2>1. \A g \in Files : k.entries[g] = (IF g = f THEN held ELSE call[c].entries[g])
                      /\ k.kept[g] = (IF g = f THEN parts ELSE call[c].kept[g])
    BY <1>4, <1>8 DEF Holders
  <2>2. \A g \in Files : Right(session, k.entries[g], k.kept[g])
    BY <1>6, <1>8, <2>1
  <2>3. Right(session, k.entries[k.file], k.list \cup k.sent)
    BY <1>4, <1>7 DEF Right
  <2> QED BY <1>3, <1>4, <1>7, <2>2, <2>3 DEF CallOk, Held, Believes, Accounts, Earlier
<1>13. \A g \in Files : k.entries[g] \in RememberedFor(g) \cup {NoSession}
  BY <1>4, <1>8, <1>9, <1>10 DEF Holders
<1> QED
  BY <1>1, <1>4, <1>5, <1>10, <1>11, <1>12, <1>13, CallFacts, CalmSame, QuietSteps

LEMMA ResumeHolds ==
  ASSUME ClientInv, NEW c \in Calls, Resume(c)
  PROVE  ClientInv'
<1>1. /\ call[c] \in CallStates /\ CallOk(call[c], session)
      /\ \A f \in Files : call[c].entries[f] # NoSession
  BY CallFacts DEF Resume
<1>2. 1 \in Files /\ 1..(1 - 1) = {}
  BY ClientAssumption DEF Files
<1>3. PICK k : k = AtFile(call[c], 1)
  OBVIOUS
<1>4. k \in CallStates /\ k.entries = call[c].entries /\ CallOk(k, session)
  BY <1>1, <1>2, <1>3, AtFileFacts DEF CallOk, Believes
<1>5. call' = [call EXCEPT ![c] = k] /\ UNCHANGED <<store, session, faults>>
  BY <1>3 DEF Resume
<1>6. \A f \in Files : k.entries[f] \in RememberedFor(f) /\ store[f].session \in RememberedFor(f)
  BY <1>4 DEF RememberedFor
<1> QED
  BY <1>4, <1>5, <1>6, CallFacts, CalmSame, QuietSteps

LEMMA AskPrepareHolds ==
  ASSUME ClientInv, NEW c \in Calls, AskPrepare(c)
  PROVE  ClientInv'
<1> DEFINE k == [call[c] EXCEPT !.at = "prepare", !.entries = Idle.entries]
<1>1. call[c] \in CallStates /\ CallOk(call[c], session) /\ call[c].at = "decide"
  BY CallFacts DEF AskPrepare
<1>2. Idle.entries \in Holders /\ \A f \in Files : Idle.entries[f] = NoSession
  BY DEF Idle, Holders
<1>3. /\ k \in CallStates /\ k.at = "prepare" /\ k.entries = Idle.entries
      /\ k.kept = call[c].kept /\ k.file = call[c].file /\ k.list = call[c].list
      /\ k.sent = call[c].sent /\ k.busy = call[c].busy /\ k.pending = call[c].pending
      /\ k.file \in Files
  BY <1>1, <1>2 DEF CallStates, Stages
<1>4. call' = [call EXCEPT ![c] = k] /\ UNCHANGED <<session, faults>>
  BY DEF AskPrepare
<1> HIDE DEF k
<1>5. CallOk(k, session)
  BY <1>1, <1>2, <1>3 DEF CallOk, Held, Believes, Right, Accounts, Earlier
<1>6. \A f \in Files : store'[f] = store[f] \/ store'[f] = Unsaved
  BY DEF AskPrepare
<1>7. Unsaved \in [session : Sessions \cup {NoSession}, parts : SUBSET Parts, age : 0..MaxAge]
  BY ClientAssumption DEF Unsaved, MaxAge
<1>8. store' \in StoreStates
  BY <1>6, <1>7, CallFacts DEF AskPrepare, StoreStates
<1>9. StoreOk(store', session)
  BY <1>6, CallFacts DEF StoreOk, Right, Unsaved
<1>10. \A f \in Files : k.entries[f] = NoSession
                     /\ store'[f].session \in RememberedFor(f) \cup {NoSession}
  BY <1>2, <1>3, <1>6 DEF RememberedFor, Unsaved
<1> QED
  BY <1>3, <1>4, <1>5, <1>8, <1>9, <1>10, CallFacts, CalmSame, QuietSteps

-----------------------------------------------------------------------------
(* There are enough new sessions to give each file one of its own.         *)
LEMMA FreshFacts ==
  ASSUME Cardinality(NewSessions) >= FileCount
  PROVE  /\ FreshSessions \in [Files -> NewSessions]
         /\ \A f, g \in Files : FreshSessions[f] = FreshSessions[g] => f = g
<1> DEFINE n == Cardinality(NewSessions)
<1>1. IsFiniteSet(NewSessions)
  BY ClientAssumption, FS_Subset DEF NewSessions
<1>2. n \in Nat /\ ExistsBijection(1..n, NewSessions)
  BY <1>1, FS_CardinalityType
<1>3. PICK b \in [1..n -> NewSessions] : \A i, j \in 1..n : b[i] = b[j] => i = j
  <2>1. PICK b \in Bijection(1..n, NewSessions) : TRUE
    BY <1>2 DEF ExistsBijection
  <2>2. b \in [1..n -> NewSessions] /\ \A i, j \in 1..n : b[i] = b[j] => i = j
    BY DEF Bijection, Injection, IsInjective
  <2> QED BY <2>2
<1>4. Files \subseteq 1..n
  BY <1>2, ClientAssumption DEF Files
<1> DEFINE given == [f \in Files |-> b[f]]
<1>5. given \in [Files -> NewSessions] /\ \A f, g \in Files : given[f] = given[g] => f = g
  BY <1>3, <1>4
<1> HIDE DEF given
<1>6. \E x \in [Files -> NewSessions] : \A f, g \in Files : x[f] = x[g] => f = g
  BY <1>5
<1> QED BY <1>6 DEF FreshSessions

LEMMA PreparedHolds ==
  ASSUME ClientInv, NEW c \in Calls, Prepared(c)
  PROVE  ClientInv'
<1>1. PICK given : given = FreshSessions
  OBVIOUS
<1>2. /\ given \in [Files -> NewSessions]
      /\ \A f, g \in Files : given[f] = given[g] => f = g
  BY <1>1, FreshFacts DEF Prepared
<1>3. /\ session' = Opened(given) /\ UNCHANGED faults
      /\ store' = [f \in Files |-> [Unsaved EXCEPT !.session = given[f]]]
      /\ call' = [call EXCEPT ![c] = AtFile([Idle EXCEPT !.entries = given], 1)]
  BY <1>1 DEF Prepared
<1>4. \A f \in Files : given[f] \in Sessions /\ given[f] # NoSession /\ ~Remembered(given[f])
  BY <1>2, ClientAssumption DEF NewSessions
<1>5. session \in SessionStates /\ 0 \in 0..MaxAge
  BY CallFacts, ClientAssumption DEF MaxAge
<1>6. /\ session' \in SessionStates
      /\ \A f \in Files : session'[given[f]].upload = "open"
      /\ \A s \in Sessions : Remembered(s) => session'[s] = session[s]
  <2>1. \A s \in Sessions : Remembered(s) => \A f \in Files : given[f] # s
    BY <1>4
  <2>2. \A f \in Files : \E g \in Files : given[g] = given[f]
    OBVIOUS
  <2> QED BY <1>3, <1>4, <1>5, <2>1, <2>2 DEF Opened, SessionStates
<1>7. \A s \in Sessions : Remembered(s) => Calm(s)
  BY <1>5, <1>6 DEF Calm, SessionStates
<1>8. /\ store' \in StoreStates
      /\ \A f \in Files : store'[f].session = given[f] /\ store'[f].parts = {}
  BY <1>3, <1>4, <1>5 DEF Unsaved, StoreStates
<1>9. StoreOk(store', session')
  BY <1>6, <1>8 DEF StoreOk, Right
<1>10. PICK k0 : k0 = [Idle EXCEPT !.entries = given]
  OBVIOUS
<1>11. /\ k0 \in CallStates /\ k0.entries = given
       /\ \A f \in Files : k0.kept[f] = {}
  <2>1. given \in Holders
    BY <1>2, <1>4 DEF Holders
  <2>2. \A f \in Files : Idle.kept[f] = {}
    BY DEF Idle
  <2>3. k0.entries = given /\ k0.kept = Idle.kept
    BY <1>10, IdleFacts DEF CallStates
  <2>4. k0 \in CallStates
    BY <1>10, <2>1, IdleFacts DEF CallStates
  <2> QED BY <2>2, <2>3, <2>4
<1>12. 1 \in Files /\ 1..(1 - 1) = {}
  BY ClientAssumption DEF Files
<1>13. \A f \in Files : k0.entries[f] # NoSession /\ Right(session', k0.entries[f], k0.kept[f])
  BY <1>4, <1>11 DEF Right
<1>14. PICK k : k = AtFile(k0, 1)
  OBVIOUS
<1>15. k \in CallStates /\ k.entries = given /\ CallOk(k, session')
  BY <1>11, <1>12, <1>13, <1>14, AtFileFacts
<1>16. call' = [call EXCEPT ![c] = k]
  BY <1>3, <1>10, <1>14
<1>17. OneFilePerSession'
  <2>1. \A d \in Calls : call'[d] = IF d = c THEN k ELSE call[d]
    BY <1>16, ByCall, TypeFacts
  <2>2. \A f \in Files : RememberedFor(f)' \subseteq RememberedFor(f) \cup {given[f]}
    BY <1>8, <1>15, <2>1 DEF RememberedFor
  <2>3. \A f, g \in Files : given[f] \notin RememberedFor(g)
    BY <1>4 DEF Remembered, RememberedFor
  <2>4. OneFilePerSession
    BY DEF ClientInv
  <2> QED BY <1>2, <2>2, <2>3, <2>4 DEF OneFilePerSession
<1> QED
  BY <1>3, <1>6, <1>7, <1>8, <1>9, <1>15, <1>16, <1>17, CallFacts, CallSteps

-----------------------------------------------------------------------------
(* The session a call is at.                                               *)
LEMMA CurrentFacts ==
  ASSUME ClientInv, NEW c \in Calls, call[c].at \in {"upload", "finalize", "failed"}
  PROVE  /\ Current(c) \in Sessions /\ Current(c) # NoSession
         /\ Current(c) = call[c].entries[call[c].file]
         /\ call[c].file \in Files
<1>1. call[c] \in CallStates /\ Held(call[c])
  BY CallFacts DEF CallOk
<1> QED BY <1>1 DEF CallStates, Holders, Held, Current

(* What is left of a session when a request has changed its state.         *)
LEMMA UploadChanges ==
  ASSUME ClientInv, NEW s \in Sessions, NEW u \in {"stored", "damaged", "closed"},
         session' = [session EXCEPT ![s].upload = u],
         session[s].upload = "stored" => u = "stored"
  PROVE  /\ session' \in SessionStates /\ \A r \in Sessions : Calm(r)
         /\ session'[s].upload = u
<1>1. session \in SessionStates
  BY ByCall, TypeFacts
<1>2. session'[s].upload = u /\ session' \in SessionStates
  BY <1>1 DEF SessionStates
<1>3. \A r \in Sessions : r # s => session'[r] = session[r]
  BY <1>1 DEF SessionStates
<1>4. \A r \in Sessions : Calm(r)
  BY <1>2, <1>3 DEF Calm
<1> QED BY <1>2, <1>4

LEMMA PutFileHolds ==
  ASSUME ClientInv, NEW c \in Calls, PutFile(c)
  PROVE  ClientInv'
<1>1. /\ call[c].at = "upload" /\ call[c].file \notin Large
      /\ call[c] \in CallStates /\ CallOk(call[c], session)
  BY CallFacts DEF PutFile
<1>2. Current(c) \in Sessions
  BY <1>1, CurrentFacts
<1>3. session' \in SessionStates /\ \A r \in Sessions : Calm(r)
  BY <1>2, UploadChanges DEF PutFile
<1>4. CallOk(call[c], session')
  BY <1>1, <1>3, CallKept DEF CallStates, Holders
<1> DEFINE k == [call[c] EXCEPT !.at = "finalize"]
<1>5. /\ k \in CallStates /\ k.at = "finalize" /\ k.entries = call[c].entries
      /\ k.kept = call[c].kept /\ k.file = call[c].file /\ k.list = call[c].list
      /\ k.sent = call[c].sent /\ k.busy = call[c].busy /\ k.pending = call[c].pending
  BY <1>1 DEF CallStates, Stages
<1>6. call' = [call EXCEPT ![c] = k] /\ UNCHANGED <<store, faults>>
  BY DEF PutFile
<1> HIDE DEF k
<1>7. k.busy = {} /\ k.pending = {}
  BY <1>1, <1>5 DEF CallOk, Accounts
<1>8. CallOk(k, session')
  BY <1>1, <1>4, <1>5, <1>7 DEF CallOk, Held, Believes, Accounts, Earlier
<1>9. \A f \in Files : k.entries[f] \in RememberedFor(f) /\ store[f].session \in RememberedFor(f)
  BY <1>5 DEF RememberedFor
<1> QED
  BY <1>3, <1>5, <1>6, <1>8, <1>9, CallFacts, StoreKept, QuietSteps

LEMMA SendPartHolds ==
  ASSUME ClientInv, NEW c \in Calls, NEW p \in Parts, SendPart(c, p)
  PROVE  ClientInv'
<1>1. call[c] \in CallStates /\ CallOk(call[c], session) /\ p \in call[c].busy
  BY CallFacts DEF SendPart
<1>2. call[c].at \in {"upload", "failed"}
  BY <1>1 DEF CallOk, Accounts
<1>3. PICK s \in Sessions : s = Current(c) /\ s = call[c].entries[call[c].file] /\ s # NoSession
  BY <1>2, CurrentFacts
<1>4. /\ session' = [session EXCEPT ![s].received = @ \cup {p}]
      /\ session[s].upload = "open" /\ UNCHANGED <<store, faults>>
  BY <1>3 DEF SendPart
<1>5. /\ session' \in SessionStates /\ \A r \in Sessions : Calm(r)
      /\ session'[s].received = session[s].received \cup {p}
  BY <1>4, CallFacts DEF SessionStates, Calm
<1>6. CallOk(call[c], session')
  BY <1>1, <1>5, CallKept DEF CallStates, Holders
<1> DEFINE k == [call[c] EXCEPT !.sent = @ \cup {p}]
<1>7. /\ k \in CallStates /\ k.at = call[c].at /\ k.entries = call[c].entries
      /\ k.kept = call[c].kept /\ k.file = call[c].file /\ k.list = call[c].list
      /\ k.sent = call[c].sent \cup {p} /\ k.busy = call[c].busy
      /\ k.pending = call[c].pending
  BY <1>1 DEF CallStates
<1>8. call' = [call EXCEPT ![c] = k]
  BY DEF SendPart
<1> HIDE DEF k
<1>9. Right(session', k.entries[k.file], k.list \cup k.sent)
  BY <1>3, <1>5, <1>6, <1>7 DEF CallOk, Believes, Right
<1>10. CallOk(k, session')
  BY <1>1, <1>2, <1>6, <1>7, <1>9 DEF CallOk, Held, Believes, Accounts, Earlier
<1>11. \A f \in Files : k.entries[f] \in RememberedFor(f) /\ store[f].session \in RememberedFor(f)
  BY <1>7 DEF RememberedFor
<1> QED
  BY <1>4, <1>5, <1>7, <1>8, <1>10, <1>11, CallFacts, StoreKept, QuietSteps

(* A worker, perhaps of a call that has failed, saves its part.            *)
LEMMA PartDoneHolds ==
  ASSUME ClientInv, NEW c \in Calls, NEW p \in Parts, PartDone(c, p)
  PROVE  ClientInv'
<1>1. call[c] \in CallStates /\ CallOk(call[c], session) /\ p \in call[c].sent
  BY CallFacts DEF PartDone
<1>2. call[c].at \in {"upload", "failed"} /\ p \in call[c].busy /\ call[c].file \in Large
  BY <1>1 DEF CallOk, Accounts
<1>3. PICK s \in Sessions : s = Current(c) /\ s = call[c].entries[call[c].file] /\ s # NoSession
  BY <1>2, CurrentFacts
<1>4. PICK file \in Files : file = call[c].file
  BY <1>1 DEF CallStates
<1>5. PICK next : next = {q \in call[c].pending : \A r \in call[c].pending : q <= r}
  OBVIOUS
<1>6. next \subseteq call[c].pending /\ (next = {} => call[c].pending = {})
  BY <1>1, <1>5, LeastPart DEF CallStates
<1>7. PICK busy : busy = (call[c].busy \ {p}) \cup next
  OBVIOUS
<1>8. PICK list : list = call[c].list \cup {p}
  OBVIOUS
<1>9. busy \in SUBSET Parts /\ list \in SUBSET Parts /\ list \subseteq call[c].list \cup call[c].sent
  BY <1>1, <1>6, <1>7, <1>8 DEF CallStates
<1>10. /\ store' = [store EXCEPT ![file] = [session |-> s, parts |-> list, age |-> 0]]
       /\ call' = [call EXCEPT ![c] =
            IF call[c].at = "failed" /\ busy = {} THEN Idle
            ELSE [call[c] EXCEPT
                    !.at = IF call[c].at = "upload" /\ busy = {} THEN "finalize" ELSE call[c].at,
                    !.list = list, !.pending = call[c].pending \ next,
                    !.busy = busy, !.sent = call[c].sent \ {p}]]
       /\ UNCHANGED <<session, faults>>
  BY <1>3, <1>4, <1>5, <1>7, <1>8 DEF PartDone
<1>11. store' \in StoreStates
  BY <1>9, <1>10, CallFacts, ClientAssumption DEF StoreStates, MaxAge
<1>12. /\ \A f \in Files : store'[f] = IF f = file THEN [session |-> s, parts |-> list, age |-> 0]
                                       ELSE store[f]
       /\ s \in RememberedFor(file)
  BY <1>3, <1>4, <1>10, CallFacts DEF StoreStates, RememberedFor
<1>13. Right(session, s, list) /\ Right(session, s, call[c].list \cup call[c].sent)
  BY <1>1, <1>3, <1>9 DEF CallOk, Believes, Right
<1>14. StoreOk(store', session) /\ \A f \in Files : store'[f].session \in RememberedFor(f)
  BY <1>12, <1>13, CallFacts DEF StoreOk, RememberedFor
<1>15. CASE call[c].at = "failed" /\ busy = {}
  <2>1. call' = [call EXCEPT ![c] = Idle]
    BY <1>10, <1>15
  <2> QED
    BY <1>10, <1>11, <1>14, <2>1, CallFacts, IdleFacts, CalmSame, QuietSteps
<1>16. CASE ~ (call[c].at = "failed" /\ busy = {})
  <2> DEFINE k == [call[c] EXCEPT
                     !.at = IF call[c].at = "upload" /\ busy = {} THEN "finalize" ELSE call[c].at,
                     !.list = list, !.pending = call[c].pending \ next,
                     !.busy = busy, !.sent = call[c].sent \ {p}]
  <2>1. /\ k.at = IF call[c].at = "upload" /\ busy = {} THEN "finalize" ELSE call[c].at
        /\ k.entries = call[c].entries /\ k.kept = call[c].kept /\ k.file = call[c].file
        /\ k.list = list /\ k.pending = call[c].pending \ next
        /\ k.busy = busy /\ k.sent = call[c].sent \ {p}
    BY <1>1 DEF CallStates
  <2>2. k \in CallStates
    BY <1>1, <1>2, <1>9 DEF CallStates, Stages
  <2>3. call' = [call EXCEPT ![c] = k]
    BY <1>10, <1>16
  <2> HIDE DEF k
  <2>4. Held(k) /\ Earlier(k, session)
    BY <1>1, <1>2, <2>1 DEF CallOk, Held, Earlier
  <2>5. Believes(k, session)
    BY <1>1, <1>3, <1>8, <1>13, <2>1 DEF CallOk, Believes, Right
  <2>6. Accounts(k)
    <3>1. Accounts(call[c])
      BY <1>1 DEF CallOk
    <3>2. k.sent \subseteq k.busy
      BY <1>7, <2>1, <3>1 DEF Accounts
    <3>3. busy = {} => call[c].pending = {}
      BY <1>6, <1>7
    <3>4. call[c].at = "upload" => Parts = list \cup (call[c].pending \ next) \cup busy
      BY <1>2, <1>6, <1>7, <1>8, <3>1 DEF Accounts
    <3>5. k.at = "finalize" => busy = {} /\ call[c].at = "upload"
      BY <1>2, <2>1
    <3>6. k.at \in {"upload", "failed", "finalize"}
      BY <1>2, <2>1
    <3>7. k.at = "upload" => call[c].at = "upload"
      BY <2>1
    <3> QED BY <1>2, <2>1, <3>2, <3>3, <3>4, <3>5, <3>6, <3>7 DEF Accounts
  <2>7. CallOk(k, session)
    BY <2>4, <2>5, <2>6 DEF CallOk
  <2>8. \A f \in Files : k.entries[f] \in RememberedFor(f)
    BY <2>1 DEF RememberedFor
  <2> QED
    BY <1>10, <1>11, <1>14, <2>2, <2>3, <2>7, <2>8, CallFacts, CalmSame, QuietSteps
<1> QED BY <1>15, <1>16

(* A worker ends; the others may go on without the call.                   *)
LEMMA PartLostHolds ==
  ASSUME ClientInv, NEW c \in Calls, NEW p \in Parts, PartLost(c, p),
         Fault \/ UNCHANGED faults
  PROVE  ClientInv'
<1> DEFINE rest == [call[c] EXCEPT !.busy = call[c].busy \ {p}, !.sent = call[c].sent \ {p}]
           k == [rest EXCEPT !.at = "failed"]
<1>1. call[c] \in CallStates /\ CallOk(call[c], session) /\ p \in call[c].busy
  BY CallFacts DEF PartLost
<1>2. call[c].at \in {"upload", "failed"} /\ call[c].file \in Large
  BY <1>1 DEF CallOk, Accounts
<1>3. /\ k.at = "failed" /\ k.entries = call[c].entries
      /\ k.kept = call[c].kept /\ k.file = call[c].file /\ k.list = call[c].list
      /\ k.sent = call[c].sent \ {p} /\ k.busy = call[c].busy \ {p}
      /\ k.pending = call[c].pending
      /\ k \in CallStates /\ rest.busy = call[c].busy \ {p}
  BY <1>1 DEF CallStates, Stages
<1>4. call' = [call EXCEPT ![c] = Settled(rest)] /\ UNCHANGED <<store, session>>
  BY DEF PartLost
<1>5. Settled(rest) = Idle \/ Settled(rest) = k
  BY DEF Settled
<1> HIDE DEF k, rest
<1>6. CallOk(k, session)
  BY <1>1, <1>2, <1>3 DEF CallOk, Held, Believes, Right, Accounts, Earlier
<1>7. \A f \in Files : k.entries[f] \in RememberedFor(f) /\ store[f].session \in RememberedFor(f)
  BY <1>3 DEF RememberedFor
<1>8. faults' \in 0..MaxFaults
  BY FaultCounts
<1>9. CASE Settled(rest) = k
  <2>1. call' = [call EXCEPT ![c] = k]
    BY <1>4, <1>9
  <2> QED
    BY <1>3, <1>4, <1>6, <1>7, <1>8, <2>1, CallFacts, CalmSame, QuietSteps
<1>10. CASE Settled(rest) = Idle
  <2>1. call' = [call EXCEPT ![c] = Idle]
    BY <1>4, <1>10
  <2> QED
    BY <1>4, <2>1, EndHolds
<1> QED BY <1>5, <1>9, <1>10

LEMMA AssembleHolds ==
  ASSUME ClientInv, NEW c \in Calls, Assemble(c)
  PROVE  ClientInv'
<1>1. call[c] \in CallStates /\ CallOk(call[c], session) /\ call[c].at = "finalize"
  BY CallFacts DEF Assemble
<1>2. Current(c) \in Sessions
  BY <1>1, CurrentFacts
<1>3. PICK u \in {"stored", "damaged"} : session' = [session EXCEPT ![Current(c)].upload = u]
  BY DEF Assemble
<1>4. session[Current(c)].upload = "open" /\ UNCHANGED <<store, call, faults>>
  BY DEF Assemble, Assemblable
<1>5. session' \in SessionStates /\ \A r \in Sessions : Calm(r)
  BY <1>2, <1>3, <1>4, UploadChanges
<1>6. CallOk(call[c], session')
  BY <1>1, <1>5, CallKept DEF CallStates, Holders
<1>7. call' = [call EXCEPT ![c] = call[c]]
  BY <1>4, ByCall, TypeFacts
<1>8. \A f \in Files : call[c].entries[f] \in RememberedFor(f) /\ store[f].session \in RememberedFor(f)
  BY DEF RememberedFor
<1> QED
  BY <1>1, <1>4, <1>5, <1>6, <1>7, <1>8, CallFacts, StoreKept, QuietSteps

(* The store forgets a file.                                               *)
LEMMA Forgets ==
  ASSUME ClientInv, NEW f \in Files, store' = [store EXCEPT ![f] = Unsaved],
         \A s \in Sessions : Calm(s)
  PROVE  /\ store' \in StoreStates /\ StoreOk(store', session')
         /\ \A g \in Files : store'[g].session \in RememberedFor(g) \cup {NoSession}
<1>1. store \in StoreStates
  BY ByCall, TypeFacts
<1>2. Unsaved \in [session : Sessions \cup {NoSession}, parts : SUBSET Parts, age : 0..MaxAge]
  BY ClientAssumption DEF Unsaved, MaxAge
<1>3. store' \in StoreStates /\ \A g \in Files : store'[g] = IF g = f THEN Unsaved ELSE store[g]
  BY <1>1, <1>2 DEF StoreStates
<1>4. StoreOk(store', session')
  BY <1>3, StoreKept DEF StoreOk, Right, Unsaved
<1> QED BY <1>3, <1>4 DEF Unsaved, RememberedFor

LEMMA FinalizedHolds ==
  ASSUME ClientInv, NEW c \in Calls, Finalized(c)
  PROVE  ClientInv'
<1>1. /\ call[c] \in CallStates /\ CallOk(call[c], session) /\ call[c].at = "finalize"
      /\ session[Current(c)].upload = "stored"
  BY CallFacts DEF Finalized
<1>2. PICK file \in Files : file = call[c].file
  BY <1>1 DEF CallStates
<1>3. /\ store' = [store EXCEPT ![file] = Unsaved] /\ UNCHANGED <<session, faults>>
      /\ call' = [call EXCEPT ![c] = NextFile(call[c])]
  BY <1>2 DEF Finalized
<1>4. \A s \in Sessions : Calm(s)
  BY <1>3, CalmSame
<1>5. /\ \A g \in Files : call[c].entries[g] # NoSession
      /\ \A g \in Files : Right(session, call[c].entries[g], call[c].kept[g])
  BY <1>1 DEF CallOk, Held, Believes
<1>6. \A g \in 1..file : session[call[c].entries[g]].upload = "stored"
  <2>1. \A g \in 1..file : g \in 1..(file - 1) \/ g = file
    BY <1>2, ClientAssumption DEF Files
  <2> QED BY <1>1, <1>2, <2>1 DEF CallOk, Earlier, Current
<1>7. /\ NextFile(call[c]) \in CallStates /\ NextFile(call[c]).entries = call[c].entries
      /\ CallOk(NextFile(call[c]), session)
  <2>1. CASE file = FileCount
    <3> DEFINE k == [Idle EXCEPT !.at = "done", !.entries = call[c].entries]
    <3>1. NextFile(call[c]) = k
      BY <1>2, <2>1 DEF NextFile
    <3>2. /\ k \in CallStates /\ k.at = "done" /\ k.entries = call[c].entries
          /\ k.kept = Idle.kept /\ k.list = {} /\ k.sent = {} /\ k.busy = {} /\ k.pending = {}
          /\ k.file \in Files
      BY <1>1, IdleFacts DEF Idle, CallStates, Stages
    <3>3. \A g \in Files : k.kept[g] = {}
      BY <3>2 DEF Idle
    <3>4. \A g \in Files : session[call[c].entries[g]].upload = "stored"
      BY <1>6, <2>1 DEF Files
    <3> HIDE DEF k
    <3>5. CallOk(k, session)
      BY <1>5, <3>2, <3>3, <3>4 DEF CallOk, Held, Believes, Right, Accounts, Earlier
    <3> QED BY <3>1, <3>2, <3>5
  <2>2. CASE file # FileCount
    <3>1. file + 1 \in Files /\ (file + 1) - 1 = file
      BY <1>2, <2>2, ClientAssumption DEF Files
    <3>2. NextFile(call[c]) = AtFile(call[c], file + 1)
      BY <1>2, <2>2 DEF NextFile
    <3> QED BY <1>1, <1>5, <1>6, <3>1, <3>2, AtFileFacts
  <2> QED BY <2>1, <2>2
<1>8. PICK k : k = NextFile(call[c])
  OBVIOUS
<1>9. \A f \in Files : k.entries[f] \in RememberedFor(f)
  BY <1>7, <1>8 DEF RememberedFor
<1>10. /\ k \in CallStates /\ CallOk(k, session') /\ call' = [call EXCEPT ![c] = k]
  BY <1>3, <1>7, <1>8
<1>11. /\ store' \in StoreStates /\ StoreOk(store', session')
       /\ \A g \in Files : store'[g].session \in RememberedFor(g) \cup {NoSession}
  BY <1>3, <1>4, Forgets
<1>12. session' \in SessionStates /\ faults' \in 0..MaxFaults
  BY <1>3, CallFacts
<1> QED
  BY <1>4, <1>9, <1>10, <1>11, <1>12, QuietSteps

LEMMA CancelUploadHolds ==
  ASSUME ClientInv, NEW c \in Calls, CancelUpload(c)
  PROVE  ClientInv'
<1>1. PICK file \in Files : file = call[c].file
  BY CallFacts DEF CallStates
<1>2. /\ store' = [store EXCEPT ![file] = Unsaved] /\ Fault
      /\ call' = [call EXCEPT ![c] = Idle]
  BY <1>1 DEF CancelUpload
<1>3. PICK s \in Sessions : s = Current(c)
  BY CurrentFacts DEF CancelUpload
<1>4. session' \in SessionStates /\ \A r \in Sessions : Calm(r)
  <2>1. CASE UNCHANGED session
    BY <2>1, CalmSame, CallFacts
  <2>2. CASE /\ session[s].upload = "open"
             /\ session' = [session EXCEPT ![s].upload = "closed", ![s].received = {}]
    <3>1. session \in SessionStates
      BY CallFacts
    <3>2. /\ session' \in SessionStates /\ session'[s].upload = "closed"
          /\ \A r \in Sessions : r # s => session'[r] = session[r]
      BY <2>2, <3>1 DEF SessionStates
    <3> QED BY <2>2, <3>2 DEF Calm
  <2> QED BY <1>3, <2>1, <2>2 DEF CancelUpload
<1>5. faults' \in 0..MaxFaults
  BY <1>2, FaultCounts
<1>6. /\ store' \in StoreStates /\ StoreOk(store', session')
      /\ \A g \in Files : store'[g].session \in RememberedFor(g) \cup {NoSession}
  BY <1>2, <1>4, Forgets
<1> QED
  BY <1>2, <1>4, <1>5, <1>6, IdleFacts, QuietSteps

-----------------------------------------------------------------------------
(* Steps of no call.                                                       *)
LEMMA ReloadHolds ==
  ASSUME ClientInv, Reload
  PROVE  ClientInv'
<1>1. call' = [c \in Calls |-> Idle] /\ UNCHANGED <<store, session>> /\ Fault
  BY DEF Reload
<1>2. /\ store' \in StoreStates /\ call' \in [Calls -> CallStates]
      /\ session' \in SessionStates /\ faults' \in 0..MaxFaults
  BY <1>1, IdleFacts, FaultCounts, ByCall, TypeFacts
<1>3. OneFilePerSession'
  <2>1. \A f \in Files : store'[f].session \in RememberedFor(f)
    BY <1>1 DEF RememberedFor
  <2>2. \A f \in Files, d \in Calls : call'[d].entries[f] = NoSession
    BY <1>1, IdleFacts
  <2> QED BY <2>1, <2>2, OneFileKept DEF ClientInv
<1> QED
  BY <1>1, <1>2, <1>3, IdleFacts, ByCall, ByCallNext, TypeFactsNext

LEMMA AgedHolds ==
  ASSUME ClientInv, Aged, Fault \/ UNCHANGED faults
  PROVE  ClientInv'
<1>1. MaxAge \in Nat
  BY ClientAssumption DEF MaxAge
<1>2. \A age \in 0..MaxAge : Older(age) \in 0..MaxAge
  BY <1>1 DEF Older
<1>3. store \in StoreStates /\ session \in SessionStates /\ call \in [Calls -> CallStates]
  BY ByCall, TypeFacts
<1>4. /\ store' \in StoreStates
      /\ \A f \in Files : store'[f].session = store[f].session /\ store'[f].parts = store[f].parts
  BY <1>1, <1>2, <1>3 DEF Aged, StoreStates
<1>5. /\ session' \in SessionStates
      /\ \A s \in Sessions : session'[s].upload = session[s].upload
                          /\ session'[s].received = session[s].received
  BY <1>2, <1>3 DEF Aged, SessionStates
<1>6. call' = call /\ faults' \in 0..MaxFaults /\ \A s \in Sessions : Calm(s)
  BY <1>5, FaultCounts DEF Aged, Calm
<1>7. StoreOk(store', session')
  BY <1>4, <1>6, StoreKept DEF StoreOk
<1>8. \A c \in Calls : CallOk(call'[c], session')
  <2>1. ASSUME NEW c \in Calls PROVE CallOk(call[c], session')
    <3>1. call[c] \in CallStates /\ CallOk(call[c], session)
      BY CallFacts
    <3> QED BY <1>6, <3>1, CallKept DEF CallStates, Holders
  <2> QED BY <1>6, <2>1
<1>9. OneFilePerSession'
  <2>1. /\ \A f \in Files : store'[f].session \in RememberedFor(f)
        /\ \A f \in Files, d \in Calls : call'[d].entries[f] \in RememberedFor(f)
    BY <1>4, <1>6 DEF RememberedFor
  <2> QED BY <2>1, OneFileKept DEF ClientInv
<1> QED
  BY <1>3, <1>4, <1>5, <1>6, <1>7, <1>8, <1>9, ByCallNext, TypeFactsNext

LEMMA StepHolds == ClientInv /\ [Next]_vars => ClientInv'
<1> SUFFICES ASSUME ClientInv, [Next]_vars PROVE ClientInv'
  OBVIOUS
<1>1. ASSUME NEW c \in Calls, Advance(c) PROVE ClientInv'
  BY <1>1, ReadSavedHolds, ResumeHolds, AskPrepareHolds, PreparedHolds, PutFileHolds,
     AssembleHolds, FinalizedHolds, SendPartHolds, PartDoneHolds DEF Advance
<1>2. ASSUME NEW c \in Calls, Fail(c) PROVE ClientInv'
  <2>1. CASE PrepareFails(c) \/ PutFails(c) \/ FinalizeFails(c)
    BY <2>1, EndHolds DEF PrepareFails, PutFails, FinalizeFails
  <2>2. CASE \E p \in Parts : PartFails(c, p) \/ PartRefused(c, p)
    BY <2>2, PartLostHolds DEF PartFails, PartRefused
  <2> QED BY <1>2, <2>1, <2>2 DEF Fail
<1>3. ASSUME NEW c \in Calls, Pause(c) PROVE ClientInv'
  BY <1>3, EndHolds DEF Pause
<1>4. CASE Wait \/ Lag
  BY <1>4, AgedHolds DEF Wait, Lag
<1>5. CASE UNCHANGED vars
  <2>1. /\ StoreOk(store', session') /\ \A c \in Calls : CallOk(call'[c], session')
        /\ store' \in StoreStates /\ call' \in [Calls -> CallStates]
        /\ session' \in SessionStates /\ faults' \in 0..MaxFaults
    BY <1>5, ByCall, TypeFacts DEF vars
  <2>2. OneFilePerSession'
    BY <1>5 DEF vars, ClientInv, OneFilePerSession, RememberedFor
  <2> QED BY <2>1, <2>2, ByCallNext, TypeFactsNext
<1> QED
  BY <1>1, <1>2, <1>3, <1>4, <1>5, BeginHolds, CancelUploadHolds, ReloadHolds DEF Next

-----------------------------------------------------------------------------
(* The inductive invariant of the client, whose calls and the workers they *)
(* leave behind share the resume store.                                    *)
THEOREM ClientInvariance == Spec => []ClientInv
  BY InitHolds, StepHolds, PTL DEF Spec

(* Progress is never counted too high.                                     *)
THEOREM CountedIsStored == Spec => []CountedPartsAreStored
<1>1. ClientInv => CountedPartsAreStored
  <2> SUFFICES ASSUME ClientInv PROVE CountedPartsAreStored
    OBVIOUS
  <2>1. \A c \in Calls : call[c].at = "upload" => Current(c) # NoSession
    BY CurrentFacts
  <2> QED
    BY <2>1 DEF ClientInv, BeliefsAreRight, StoredWhileOpen, CountedPartsAreStored
<1> QED BY <1>1, ClientInvariance, PTL

(* A large file is finalized with all of its parts.                        *)
THEOREM FinalizesWholeFiles == Spec => []FinalizeIsComplete
<1>1. ClientInv => FinalizeIsComplete
  BY DEF ClientInv, PartsAccounted, FinalizeIsComplete
<1> QED BY <1>1, ClientInvariance, PTL

(* A call that reports success has stored every file in its own session.   *)
THEOREM ReportedFilesAreStored == Spec => []ReportedIsStored
<1>1. ClientInv => ReportedIsStored
  <2> SUFFICES ASSUME ClientInv, NEW c \in Calls, call[c].at = "done",
                      NEW f \in Files, NEW g \in Files
               PROVE  /\ session[call[c].entries[f]].upload = "stored"
                      /\ call[c].entries[f] = call[c].entries[g] => f = g
    BY DEF ReportedIsStored
  <2>1. session[call[c].entries[f]].upload = "stored" /\ call[c].entries[f] # NoSession
    BY DEF ClientInv, EarlierStored, HasSessions
  <2>2. call[c].entries[f] = call[c].entries[g] => f = g
    BY <2>1 DEF ClientInv, OneFilePerSession, RememberedFor
  <2> QED BY <2>1, <2>2
<1> QED BY <1>1, ClientInvariance, PTL


-----------------------------------------------------------------------------
(***************************************************************************)
(* What the application sees of a step.  o and k are a call before and     *)
(* after it, st and st2 the sessions whose file is stored.                 *)
(***************************************************************************)
AtFiles == {"upload", "finalize"}
Engaged(k) == k.at \in {"read", "decide", "prepare"} \cup AtWork

Quiet(o, k, st, st2) == o.at \notin AtWork /\ k.at \notin AtWork /\ st2 = st

Starts(o, k, st, st2) ==
  /\ o.at \notin AtWork /\ k.at \in AtFiles
  /\ k.file = 1
  /\ k.entries \in [Files -> Sessions]
  /\ \A f, g \in Files : k.entries[f] = k.entries[g] => f = g
  /\ st2 \subseteq st /\ st \ st2 \subseteq {k.entries[f] : f \in Files}

CurrentOnly(o, st, st2) == st2 \in {st, st \cup {o.entries[o.file]}}

WorksOn(o, k, st, st2) ==
  /\ o.at \in AtFiles /\ k.at \in AtFiles
  /\ k.file = o.file /\ k.entries = o.entries
  /\ CurrentOnly(o, st, st2)

CountsFile(o, k, st, st2) ==
  /\ o.at \in AtFiles
  /\ k.entries = o.entries
  /\ o.entries[o.file] \in st2 /\ st2 = st
  /\ \/ o.file # FileCount /\ k.at \in AtFiles /\ k.file = o.file + 1
     \/ o.file = FileCount /\ k.at = "done"

GivesUp(o, k, st, st2) ==
  o.at \in AtFiles /\ k.at \notin AtWork /\ CurrentOnly(o, st, st2)

Moves(o, k, st, st2) ==
  \/ Quiet(o, k, st, st2) \/ Starts(o, k, st, st2) \/ WorksOn(o, k, st, st2)
  \/ CountsFile(o, k, st, st2) \/ GivesUp(o, k, st, st2)

(* Every step of a call but its beginning; a call that is engaged was.     *)
CallMoves(c) ==
  /\ call' = [call EXCEPT ![c] = call'[c]]
  /\ Moves(call[c], call'[c], StoredSessions, StoredSessions')
  /\ Engaged(call'[c]) => Engaged(call[c])

LEMMA StoredSame ==
  ASSUME UNCHANGED session
  PROVE  StoredSessions' = StoredSessions
  BY DEF StoredSessions

LEMMA IdleEnds == Idle.at = "idle" /\ Idle.file = 1 /\ Idle.entries = [f \in Files |-> NoSession]
  BY DEF Idle

LEMMA EndMoves ==
  ASSUME ClientInv, NEW c \in Calls, call' = [call EXCEPT ![c] = Idle], UNCHANGED session,
         call[c].at # "done"
  PROVE  CallMoves(c)
<1>1. call \in [Calls -> CallStates] /\ call[c].at \in Stages
  BY ByCall, TypeFacts DEF CallStates
<1>2. call'[c] = Idle
  BY <1>1
<1>3. call'[c].at \notin AtWork /\ ~Engaged(call'[c])
  BY <1>2, IdleEnds DEF AtWork, Engaged
<1>4. call[c].at \notin AtWork \/ call[c].at \in AtFiles
  BY DEF AtWork, AtFiles
<1> QED
  BY <1>2, <1>3, <1>4, StoredSame DEF CallMoves, Moves, Quiet, GivesUp, CurrentOnly

(* The sessions of a call past its start are one per file.                 *)
LEMMA OwnSessions ==
  ASSUME ClientInv, NEW c \in Calls, \A f \in Files : call[c].entries[f] # NoSession
  PROVE  /\ call[c].entries \in [Files -> Sessions]
         /\ \A f, g \in Files : call[c].entries[f] = call[c].entries[g] => f = g
<1>1. call[c].entries \in Holders
  BY CallFacts DEF CallStates
<1>2. call[c].entries \in [Files -> Sessions]
  BY <1>1 DEF Holders
<1>3. \A f \in Files : call[c].entries[f] \in RememberedFor(f)
  BY DEF RememberedFor
<1> QED
  BY <1>2, <1>3 DEF ClientInv, OneFilePerSession

LEMMA AtFileStarts ==
  ASSUME NEW k \in CallStates, NEW f \in Files
  PROVE  /\ AtFile(k, f).at \in AtFiles /\ AtFile(k, f).file = f
         /\ AtFile(k, f).entries = k.entries
<1> DEFINE done == IF f \in Large THEN k.kept[f] ELSE {}
           todo == IF f \in Large THEN Parts \ done ELSE {}
           a == AtFile(k, f)
<1>1. /\ a = [k EXCEPT !.at = IF f \in Large /\ todo = {} THEN "finalize" ELSE "upload",
               !.file = f, !.list = done, !.pending = todo \ FirstOf(todo),
               !.busy = FirstOf(todo), !.sent = {}]
  BY DEF AtFile
<1> HIDE DEF todo, done, a
<1>2. /\ a.at = IF f \in Large /\ todo = {} THEN "finalize" ELSE "upload"
      /\ a.entries = k.entries /\ a.file = f
  BY <1>1 DEF CallStates
<1>3. a = AtFile(k, f)
  BY DEF a
<1> QED
  BY <1>2, <1>3 DEF AtFiles

LEMMA AwayMoves ==
  ASSUME ClientInv, NEW c \in Calls, ReadSaved(c) \/ AskPrepare(c)
  PROVE  CallMoves(c)
<1>1. call \in [Calls -> CallStates] /\ call[c] \in CallStates
  BY ByCall, TypeFacts
<1>2. CASE ReadSaved(c)
  <2> DEFINE f == call[c].file
             o == call[c]
             k == [o EXCEPT !.entries = [o.entries EXCEPT
                              ![f] = IF Saved(f) THEN store[f].session ELSE NoSession],
                            !.kept = [o.kept EXCEPT ![f] = IF Saved(f) THEN store[f].parts ELSE {}],
                            !.at = IF f = FileCount THEN "decide" ELSE "read",
                            !.file = IF f = FileCount THEN 1 ELSE f + 1]
  <2>1. call' = [call EXCEPT ![c] = k] /\ o.at = "read" /\ UNCHANGED session
    BY <1>1, <1>2 DEF ReadSaved
  <2>2. k.at = IF f = FileCount THEN "decide" ELSE "read"
    BY <1>1 DEF CallStates
  <2> HIDE DEF k
  <2>3. call'[c] = k
    BY <1>1, <2>1
  <2> QED
    BY <2>1, <2>2, <2>3, StoredSame DEF CallMoves, Moves, Quiet, AtWork, Engaged
<1>3. CASE AskPrepare(c)
  <2> DEFINE k == [call[c] EXCEPT !.at = "prepare", !.entries = Idle.entries]
  <2>1. call' = [call EXCEPT ![c] = k] /\ call[c].at = "decide" /\ UNCHANGED session
    BY <1>3 DEF AskPrepare
  <2>2. k.at = "prepare"
    BY <1>1 DEF CallStates
  <2> HIDE DEF k
  <2>3. call'[c] = k
    BY <1>1, <2>1
  <2> QED
    BY <2>1, <2>2, <2>3, StoredSame DEF CallMoves, Moves, Quiet, AtWork, Engaged
<1> QED
  BY <1>2, <1>3

LEMMA ResumeMoves ==
  ASSUME ClientInv, NEW c \in Calls, Resume(c)
  PROVE  CallMoves(c)
<1>1. /\ call \in [Calls -> CallStates] /\ call[c] \in CallStates /\ 1 \in Files
      /\ call[c].at = "decide" /\ \A f \in Files : call[c].entries[f] # NoSession
  BY ByCall, TypeFacts, ClientAssumption DEF Resume, Files
<1>2. PICK k : k = AtFile(call[c], 1)
  OBVIOUS
<1>3. k.at \in AtFiles /\ k.file = 1 /\ k.entries = call[c].entries
  BY <1>1, <1>2, AtFileStarts
<1>4. call' = [call EXCEPT ![c] = k] /\ UNCHANGED session
  BY <1>2 DEF Resume
<1>5. call'[c] = k
  BY <1>1, <1>4
<1> QED
  BY <1>1, <1>3, <1>4, <1>5, OwnSessions, StoredSame
     DEF CallMoves, Moves, Starts, AtWork, Engaged

LEMMA PreparedMoves ==
  ASSUME ClientInv, NEW c \in Calls, Prepared(c)
  PROVE  CallMoves(c)
<1>1. PICK given : given = FreshSessions
  OBVIOUS
<1>2. /\ given \in [Files -> Sessions]
      /\ \A f, g \in Files : given[f] = given[g] => f = g
  BY <1>1, FreshFacts DEF Prepared, NewSessions
<1>3. /\ session' = Opened(given) /\ call[c].at = "prepare"
      /\ call' = [call EXCEPT ![c] = AtFile([Idle EXCEPT !.entries = given], 1)]
  BY <1>1 DEF Prepared
<1>4. PICK k0 : k0 = [Idle EXCEPT !.entries = given]
  OBVIOUS
<1>5. k0 \in CallStates /\ k0.entries = given
  BY <1>2, <1>4, IdleFacts DEF CallStates, Holders
<1>6. PICK k : k = AtFile(k0, 1)
  OBVIOUS
<1>7. k.at \in AtFiles /\ k.file = 1 /\ k.entries = given
  BY <1>5, <1>6, AtFileStarts, ClientAssumption DEF Files
<1>8. call' = [call EXCEPT ![c] = k] /\ call'[c] = k
  BY <1>3, <1>4, <1>6, ByCall, TypeFacts
<1>9. \A s \in Sessions :
        session'[s].upload = IF \E f \in Files : given[f] = s THEN "open" ELSE session[s].upload
  BY <1>3 DEF Opened
<1>10. /\ StoredSessions' \subseteq StoredSessions
       /\ StoredSessions \ StoredSessions' \subseteq {k.entries[f] : f \in Files}
  BY <1>7, <1>9 DEF StoredSessions
<1>11. call[c].at \notin AtWork /\ Engaged(call[c])
  BY <1>3 DEF AtWork, Engaged
<1>12. Starts(call[c], k, StoredSessions, StoredSessions')
  BY <1>2, <1>7, <1>10, <1>11 DEF Starts
<1> QED
  BY <1>8, <1>11, <1>12 DEF CallMoves, Moves


(* A request to the current session stores its file, or no other.          *)
LEMMA PutFileMoves ==
  ASSUME ClientInv, NEW c \in Calls, PutFile(c)
  PROVE  CallMoves(c)
<1> DEFINE k == [call[c] EXCEPT !.at = "finalize"]
<1>1. /\ call \in [Calls -> CallStates] /\ call[c] \in CallStates
      /\ session \in SessionStates /\ call[c].at = "upload"
  BY ByCall, TypeFacts DEF PutFile
<1>2. k.at = "finalize" /\ k.file = call[c].file /\ k.entries = call[c].entries
  BY <1>1 DEF CallStates
<1>3. /\ call' = [call EXCEPT ![c] = k]
      /\ session' = [session EXCEPT ![Current(c)].upload = "stored"]
  BY <1>1 DEF PutFile
<1>4. Current(c) \in Sessions /\ Current(c) = call[c].entries[call[c].file]
  BY <1>1, CurrentFacts
<1>5. \A s \in Sessions : session'[s].upload = IF s = Current(c) THEN "stored" ELSE session[s].upload
  BY <1>1, <1>3, <1>4 DEF SessionStates
<1>6. StoredSessions' = StoredSessions \cup {call[c].entries[call[c].file]}
  BY <1>4, <1>5 DEF StoredSessions
<1> HIDE DEF k
<1>7. call'[c] = k
  BY <1>1, <1>3
<1> QED
  BY <1>1, <1>2, <1>3, <1>6, <1>7
     DEF CallMoves, Moves, WorksOn, CurrentOnly, AtFiles, AtWork, Engaged

LEMMA SendPartMoves ==
  ASSUME ClientInv, NEW c \in Calls, NEW p \in Parts, SendPart(c, p)
  PROVE  CallMoves(c)
<1> DEFINE k == [call[c] EXCEPT !.sent = @ \cup {p}]
<1>1. /\ call \in [Calls -> CallStates] /\ call[c] \in CallStates
      /\ session \in SessionStates /\ p \in call[c].busy
  BY ByCall, TypeFacts DEF SendPart
<1>2. k.at = call[c].at /\ k.file = call[c].file /\ k.entries = call[c].entries
  BY <1>1 DEF CallStates
<1>3. /\ call' = [call EXCEPT ![c] = k]
      /\ session' = [session EXCEPT ![Current(c)].received = @ \cup {p}]
  BY <1>1 DEF SendPart
<1>4. call[c].at \in {"upload", "failed"}
  BY <1>1, CallFacts DEF CallOk, Accounts
<1>5. \A s \in Sessions : session'[s].upload = session[s].upload
  BY <1>1, <1>3 DEF SessionStates
<1>6. StoredSessions' = StoredSessions
  BY <1>5 DEF StoredSessions
<1> HIDE DEF k
<1>7. call'[c] = k
  BY <1>1, <1>3
<1> QED
  BY <1>2, <1>3, <1>4, <1>6, <1>7
     DEF CallMoves, Moves, Quiet, WorksOn, CurrentOnly, AtFiles, AtWork, Engaged

LEMMA PartDoneMoves ==
  ASSUME ClientInv, NEW c \in Calls, NEW p \in Parts, PartDone(c, p)
  PROVE  CallMoves(c)
<1>1. call[c] \in CallStates /\ CallOk(call[c], session) /\ p \in call[c].sent
  BY CallFacts DEF PartDone
<1>2. call[c].at \in {"upload", "failed"}
  BY <1>1 DEF CallOk, Accounts
<1>3. PICK next : next = {q \in call[c].pending : \A r \in call[c].pending : q <= r}
  OBVIOUS
<1>4. PICK busy : busy = (call[c].busy \ {p}) \cup next
  OBVIOUS
<1> DEFINE k == [call[c] EXCEPT
                   !.at = IF call[c].at = "upload" /\ busy = {} THEN "finalize" ELSE call[c].at,
                   !.list = call[c].list \cup {p}, !.pending = call[c].pending \ next,
                   !.busy = busy, !.sent = call[c].sent \ {p}]
<1>5. /\ call' = [call EXCEPT ![c] = IF call[c].at = "failed" /\ busy = {} THEN Idle ELSE k]
      /\ UNCHANGED session
  BY <1>3, <1>4 DEF PartDone
<1>6. /\ k.at = IF call[c].at = "upload" /\ busy = {} THEN "finalize" ELSE call[c].at
      /\ k.entries = call[c].entries /\ k.file = call[c].file
  BY <1>1 DEF CallStates
<1> HIDE DEF k
<1>7. CASE call[c].at = "failed" /\ busy = {}
  <2>1. call' = [call EXCEPT ![c] = Idle]
    BY <1>5, <1>7
  <2> QED
    BY <1>5, <1>7, <2>1, EndMoves
<1>8. CASE ~(call[c].at = "failed" /\ busy = {})
  <2>1. call' = [call EXCEPT ![c] = k]
    BY <1>5, <1>8
  <2>2. call'[c] = k
    BY <2>1, ByCall, TypeFacts
  <2> QED
    BY <1>2, <1>5, <1>6, <2>1, <2>2, StoredSame
       DEF CallMoves, Moves, Quiet, WorksOn, CurrentOnly, AtFiles, AtWork, Engaged
<1> QED
  BY <1>7, <1>8

LEMMA PartLostMoves ==
  ASSUME ClientInv, NEW c \in Calls, NEW p \in Parts, PartLost(c, p)
  PROVE  CallMoves(c)
<1> DEFINE rest == [call[c] EXCEPT !.busy = call[c].busy \ {p}, !.sent = call[c].sent \ {p}]
           k == [rest EXCEPT !.at = "failed"]
<1>1. call[c] \in CallStates /\ CallOk(call[c], session) /\ p \in call[c].busy
  BY CallFacts DEF PartLost
<1>2. call[c].at \in {"upload", "failed"}
  BY <1>1 DEF CallOk, Accounts
<1>3. k.at = "failed"
  BY <1>1 DEF CallStates
<1>4. call' = [call EXCEPT ![c] = Settled(rest)] /\ UNCHANGED session
  BY DEF PartLost
<1>5. Settled(rest) = Idle \/ Settled(rest) = k
  BY DEF Settled
<1> HIDE DEF k, rest
<1>6. CASE Settled(rest) = Idle
  <2>1. call' = [call EXCEPT ![c] = Idle]
    BY <1>4, <1>6
  <2> QED
    BY <1>2, <1>4, <2>1, EndMoves
<1>7. CASE Settled(rest) = k
  <2>1. call' = [call EXCEPT ![c] = k]
    BY <1>4, <1>7
  <2>2. call'[c] = k
    BY <2>1, ByCall, TypeFacts
  <2> QED
    BY <1>2, <1>3, <1>4, <2>1, <2>2, StoredSame
       DEF CallMoves, Moves, Quiet, GivesUp, CurrentOnly, AtFiles, AtWork, Engaged
<1> QED
  BY <1>5, <1>6, <1>7

(* The list of a call that finalizes is complete, so what the server       *)
(* assembles is the file.                                                  *)
LEMMA AssembleMoves ==
  ASSUME ClientInv, NEW c \in Calls, Assemble(c)
  PROVE  CallMoves(c)
<1>1. /\ call \in [Calls -> CallStates] /\ session \in SessionStates
      /\ call[c].at = "finalize" /\ session[Current(c)].upload = "open" /\ call' = call
  BY ByCall, TypeFacts DEF Assemble, Assemblable
<1>2. PICK u \in {"stored", "damaged"} : session' = [session EXCEPT ![Current(c)].upload = u]
  BY DEF Assemble
<1>3. Current(c) \in Sessions /\ Current(c) = call[c].entries[call[c].file]
  BY <1>1, CurrentFacts
<1>4. \A s \in Sessions : session'[s].upload = IF s = Current(c) THEN u ELSE session[s].upload
  BY <1>1, <1>2, <1>3 DEF SessionStates
<1>5. StoredSessions' \in {StoredSessions, StoredSessions \cup {Current(c)}}
  BY <1>1, <1>3, <1>4 DEF StoredSessions
<1>6. call' = [call EXCEPT ![c] = call'[c]] /\ call'[c] = call[c]
  BY <1>1
<1> QED
  BY <1>1, <1>3, <1>5, <1>6 DEF CallMoves, Moves, WorksOn, CurrentOnly, AtFiles

LEMMA FinalizedMoves ==
  ASSUME ClientInv, NEW c \in Calls, Finalized(c)
  PROVE  CallMoves(c)
<1>1. /\ call \in [Calls -> CallStates] /\ call[c] \in CallStates /\ call[c].at = "finalize"
      /\ session[Current(c)].upload = "stored" /\ UNCHANGED session
      /\ call' = [call EXCEPT ![c] = NextFile(call[c])]
  BY ByCall, TypeFacts DEF Finalized
<1>2. /\ Current(c) \in Sessions /\ Current(c) = call[c].entries[call[c].file]
      /\ call[c].file \in Files
  BY <1>1, CurrentFacts
<1>3. call[c].entries[call[c].file] \in StoredSessions
  BY <1>1, <1>2 DEF StoredSessions
<1>4. PICK k : k = NextFile(call[c])
  OBVIOUS
<1>5. call' = [call EXCEPT ![c] = k] /\ call'[c] = k
  BY <1>1, <1>4
<1>6. CASE call[c].file = FileCount
  <2>1. k = [Idle EXCEPT !.at = "done", !.entries = call[c].entries]
    BY <1>4, <1>6 DEF NextFile
  <2>2. k.at = "done" /\ k.entries = call[c].entries
    BY <2>1 DEF Idle
  <2> QED
    BY <1>1, <1>3, <1>5, <1>6, <2>2, StoredSame
       DEF CallMoves, Moves, CountsFile, AtFiles, AtWork, Engaged
<1>7. CASE call[c].file # FileCount
  <2>1. call[c].file + 1 \in Files
    BY <1>2, <1>7, ClientAssumption DEF Files
  <2>2. k = AtFile(call[c], call[c].file + 1)
    BY <1>4, <1>7 DEF NextFile
  <2>3. k.at \in AtFiles /\ k.file = call[c].file + 1 /\ k.entries = call[c].entries
    BY <1>1, <2>1, <2>2, AtFileStarts
  <2> QED
    BY <1>1, <1>3, <1>5, <1>7, <2>3, StoredSame
       DEF CallMoves, Moves, CountsFile, AtFiles, AtWork, Engaged
<1> QED
  BY <1>6, <1>7

LEMMA CancelUploadMoves ==
  ASSUME ClientInv, NEW c \in Calls, CancelUpload(c)
  PROVE  CallMoves(c)
<1>1. /\ call \in [Calls -> CallStates] /\ session \in SessionStates
      /\ call[c].at \in AtFiles /\ call' = [call EXCEPT ![c] = Idle]
  BY ByCall, TypeFacts DEF CancelUpload, AtFiles
<1>2. Current(c) \in Sessions
  BY <1>1, CurrentFacts DEF AtFiles
<1>3. StoredSessions' = StoredSessions
  <2>1. CASE UNCHANGED session
    BY <2>1, StoredSame
  <2>2. CASE /\ session[Current(c)].upload = "open"
             /\ session' = [session EXCEPT ![Current(c)].upload = "closed",
                                           ![Current(c)].received = {}]
    <3>1. /\ session'[Current(c)].upload = "closed"
          /\ \A s \in Sessions : s # Current(c) => session'[s] = session[s]
      BY <1>1, <1>2, <2>2 DEF SessionStates
    <3> QED
      BY <1>2, <2>2, <3>1 DEF StoredSessions
  <2> QED
    BY <2>1, <2>2 DEF CancelUpload
<1>4. call'[c] = Idle
  BY <1>1
<1> QED
  BY <1>1, <1>3, <1>4, IdleEnds DEF CallMoves, Moves, GivesUp, CurrentOnly, AtWork, Engaged

LEMMA EndedMoves ==
  ASSUME ClientInv, NEW c \in Calls,
         PrepareFails(c) \/ PutFails(c) \/ FinalizeFails(c) \/ Pause(c)
  PROVE  CallMoves(c)
<1>1. /\ call' = [call EXCEPT ![c] = Idle] /\ UNCHANGED session
      /\ call[c].at # "done"
  BY DEF PrepareFails, PutFails, FinalizeFails, Pause, Active
<1> QED
  BY <1>1, EndMoves

LEMMA StepMoves ==
  ASSUME ClientInv, NEW c \in Calls, Advance(c) \/ Fail(c) \/ Pause(c) \/ CancelUpload(c)
  PROVE  CallMoves(c)
<1>1. CASE Advance(c)
  BY <1>1, AwayMoves, ResumeMoves, PreparedMoves, PutFileMoves, AssembleMoves, FinalizedMoves,
     SendPartMoves, PartDoneMoves DEF Advance
<1>2. CASE Fail(c)
  BY <1>2, EndedMoves, PartLostMoves DEF Fail, PartFails, PartRefused
<1> QED
  BY <1>1, <1>2, EndedMoves, CancelUploadMoves


(* At most one call is engaged: one begins only when no other is.          *)
AloneIn(cs) == \A c, d \in Calls : Engaged(cs[c]) /\ Engaged(cs[d]) => c = d

LEMMA OneIsAlone == OneAtATime <=> AloneIn(call)
  BY DEF OneAtATime, AloneIn, Active, Engaged, AtWork

LEMMA OneIsAloneNext == OneAtATime' <=> AloneIn(call')
  BY DEF OneAtATime, AloneIn, Active, Engaged, AtWork

LEMMA OneInit == Init => OneAtATime
  BY DEF Init, OneAtATime, Active, Idle

LEMMA OneStep ==
  ASSUME ClientInv, OneAtATime, [Next]_vars
  PROVE  OneAtATime'
<1>1. call \in [Calls -> CallStates] /\ AloneIn(call)
  BY ByCall, TypeFacts, OneIsAlone
<1>2. CASE \E c \in Calls : CallMoves(c)
  <2>1. PICK c \in Calls : CallMoves(c)
    BY <1>2
  <2>2. \A d \in Calls : Engaged(call'[d]) => Engaged(call[d])
    BY <1>1, <2>1 DEF CallMoves
  <2> QED
    BY <1>1, <2>2, OneIsAloneNext DEF AloneIn
<1>3. CASE \E c \in Calls : Begin(c)
  <2>1. PICK c \in Calls : Begin(c)
    BY <1>3
  <2>2. \A d \in Calls : ~Engaged(call[d])
    BY <2>1 DEF Begin, Active, Engaged, AtWork
  <2>3. \A d \in Calls : d # c => call'[d] = call[d]
    BY <1>1, <2>1 DEF Begin
  <2> QED
    BY <2>2, <2>3, OneIsAloneNext DEF AloneIn
<1>4. CASE Reload
  BY <1>4, IdleEnds, OneIsAloneNext DEF Reload, AloneIn, Engaged, AtWork
<1>5. CASE Wait \/ Lag \/ UNCHANGED vars
  <2>1. call' = call
    BY <1>5 DEF Wait, Lag, Aged, vars
  <2> QED
    BY <1>1, <2>1, OneIsAloneNext
<1> QED
  BY <1>2, <1>3, <1>4, <1>5, StepMoves DEF Next

(* So there is one call that the application sees.                         *)
NowOf(cs) ==
  IF \E c \in Calls : cs[c].at \in AtWork
    THEN cs[CHOOSE c \in Calls : cs[c].at \in AtWork] ELSE Idle

View(k) == IF k.at \in AtWork THEN k ELSE Idle

LEMMA NowIs ==
  ASSUME NEW cs, AloneIn(cs)
  PROVE  /\ \A c \in Calls : cs[c].at \in AtWork => NowOf(cs) = cs[c]
         /\ (\A c \in Calls : cs[c].at \notin AtWork) => NowOf(cs) = Idle
<1>1. ASSUME NEW c \in Calls, cs[c].at \in AtWork PROVE NowOf(cs) = cs[c]
  <2>1. PICK d \in Calls : d = CHOOSE e \in Calls : cs[e].at \in AtWork
    BY <1>1
  <2>2. cs[d].at \in AtWork
    BY <1>1, <2>1
  <2>3. d = c
    BY <1>1, <2>2 DEF AloneIn, Engaged
  <2> QED
    BY <1>1, <2>1, <2>3 DEF NowOf
<1> QED
  BY <1>1 DEF NowOf

LEMMA NowSteps ==
  ASSUME NEW cs \in [Calls -> CallStates], NEW c \in Calls, NEW k \in CallStates,
         NEW ds, ds = [cs EXCEPT ![c] = k], AloneIn(cs), AloneIn(ds)
  PROVE  \/ cs[c].at \notin AtWork /\ k.at \notin AtWork /\ NowOf(ds) = NowOf(cs)
         \/ NowOf(cs) = View(cs[c]) /\ NowOf(ds) = View(k)
<1>1. ds[c] = k /\ \A d \in Calls : d # c => ds[d] = cs[d]
  OBVIOUS
<1>2. \A d \in Calls : /\ cs[d].at \in AtWork => Engaged(cs[d])
                       /\ ds[d].at \in AtWork => Engaged(ds[d])
  BY DEF Engaged
<1>3. CASE cs[c].at \notin AtWork /\ k.at \notin AtWork
  <2>1. CASE \E d \in Calls : cs[d].at \in AtWork
    BY <1>1, <1>3, <2>1, NowIs
  <2>2. CASE \A d \in Calls : cs[d].at \notin AtWork
    BY <1>1, <1>3, <2>2, NowIs
  <2> QED
    BY <1>3, <2>1, <2>2
<1>4. CASE cs[c].at \in AtWork
  <2>1. \A d \in Calls : d # c => ds[d].at \notin AtWork
    BY <1>1, <1>2, <1>4 DEF AloneIn
  <2>2. NowOf(cs) = View(cs[c])
    BY <1>4, NowIs DEF View
  <2>3. NowOf(ds) = View(k)
    BY <1>1, <2>1, NowIs DEF View
  <2> QED
    BY <2>2, <2>3
<1>5. CASE cs[c].at \notin AtWork /\ k.at \in AtWork
  <2>1. \A d \in Calls : d # c => cs[d].at \notin AtWork
    BY <1>1, <1>2, <1>5 DEF AloneIn
  <2>2. NowOf(cs) = View(cs[c])
    BY <1>5, <2>1, NowIs DEF View
  <2>3. NowOf(ds) = View(k)
    BY <1>1, <1>5, NowIs DEF View
  <2> QED
    BY <2>2, <2>3
<1> QED
  BY <1>3, <1>4, <1>5


-----------------------------------------------------------------------------
(* Each of these moves is one that the contract allows.                    *)
LEMMA NowCall == Now = NowOf(call) /\ Now' = NowOf(call')
  BY DEF Now, NowOf

LEMMA ContractInit == Init => Contract!Init
<1> SUFFICES ASSUME Init PROVE Contract!Init
  OBVIOUS
<1>1. \A c \in Calls : call[c] = Idle
  BY DEF Init
<1>2. Now = Idle
  BY <1>1 DEF Now
<1>3. /\ StageOf(Now) = "idle" /\ Now.at = "idle" /\ Now.file = 1
      /\ Now.entries = [f \in Files |-> NoSession]
  BY <1>2, IdleEnds DEF StageOf, AtWork
<1>4. StoredSessions = {}
  BY DEF Init, StoredSessions
<1> QED
  BY <1>3, <1>4 DEF Contract!Init, Contract!NoEntries, Contract!Files, Files

LEMMA MovesAreAllowed ==
  ASSUME NEW o \in CallStates, NEW k \in CallStates,
         Moves(o, k, StoredSessions, StoredSessions'),
         Now = View(o), Now' = View(k)
  PROVE  [Contract!Next]_(Contract!clientVars)
<1> DEFINE confirmed == IF Now.at = "done" THEN FileCount ELSE Now.file - 1
           st == StoredSessions
           st2 == StoredSessions'
<1>1. ASSUME o.at \notin AtWork
      PROVE  /\ StageOf(Now) = "idle" /\ confirmed = 0
             /\ Now.entries = [f \in Files |-> NoSession]
  BY <1>1, IdleEnds DEF View, StageOf, AtWork
<1>2. ASSUME k.at \notin AtWork
      PROVE  /\ StageOf(Now)' = "idle" /\ confirmed' = 0
             /\ Now'.entries = [f \in Files |-> NoSession]
  BY <1>2, IdleEnds DEF View, StageOf, AtWork
<1>3. ASSUME o.at \in AtFiles
      PROVE  /\ StageOf(Now) = "working" /\ confirmed = o.file - 1
             /\ Now.entries = o.entries /\ confirmed + 1 = o.file
  <2>1. o.file \in Int
    BY DEF CallStates, Files
  <2> QED
    BY <1>3, <2>1 DEF View, StageOf, AtWork, AtFiles
<1>4. ASSUME k.at \in AtFiles
      PROVE  /\ StageOf(Now)' = "working" /\ confirmed' = k.file - 1
             /\ Now'.entries = k.entries
  BY <1>4 DEF View, StageOf, AtWork, AtFiles
<1>5. ASSUME k.at = "done"
      PROVE  /\ StageOf(Now)' = "done" /\ confirmed' = FileCount
             /\ Now'.entries = k.entries
  BY <1>5 DEF View, StageOf, AtWork
<1>6. o.file \in Files /\ k.file \in Files /\ FileCount \in Nat
  BY ClientAssumption DEF CallStates
<1>7. CASE Quiet(o, k, StoredSessions, StoredSessions')
  <2>1. /\ UNCHANGED <<StageOf(Now), confirmed, StoredSessions>>
        /\ Now'.entries = Now.entries
    BY <1>1, <1>2, <1>7 DEF Quiet
  <2> QED
    BY <2>1 DEF Contract!clientVars
<1>8. CASE Starts(o, k, StoredSessions, StoredSessions')
  <2>1. Contract!Start
    BY <1>1, <1>4, <1>8 DEF Starts, Contract!Start, Contract!Files, Files
  <2> QED
    BY <2>1 DEF Contract!Next
<1>9. ASSUME o.at \in AtFiles, CurrentOnly(o, StoredSessions, StoredSessions')
      PROVE  Contract!OnlyCurrentStored
  <2>1. Now.entries[confirmed + 1] = o.entries[o.file]
    BY <1>3, <1>9
  <2> QED
    BY <1>9, <2>1 DEF CurrentOnly, Contract!OnlyCurrentStored
<1>10. CASE WorksOn(o, k, StoredSessions, StoredSessions')
  <2>1. Contract!OnlyCurrentStored
    BY <1>9, <1>10 DEF WorksOn
  <2>2. /\ UNCHANGED <<StageOf(Now), confirmed>>
        /\ Now'.entries = Now.entries /\ StageOf(Now) = "working"
    BY <1>3, <1>4, <1>10 DEF WorksOn
  <2>3. Contract!Store
    BY <2>1, <2>2 DEF Contract!Store
  <2> QED
    BY <2>3 DEF Contract!Next
<1>11. CASE CountsFile(o, k, StoredSessions, StoredSessions')
  <2>1. Contract!OnlyCurrentStored
    BY <1>9, <1>11 DEF CountsFile, CurrentOnly
  <2>2. Now.entries[confirmed + 1] \in StoredSessions' /\ StageOf(Now) = "working"
    BY <1>3, <1>11 DEF CountsFile
  <2>3. /\ Now'.entries = Now.entries /\ confirmed' = confirmed + 1
        /\ StageOf(Now)' = IF confirmed' = FileCount THEN "done" ELSE "working"
    <3>1. CASE o.file # FileCount /\ k.at \in AtFiles /\ k.file = o.file + 1
      <4>1. confirmed' = o.file
        BY <1>4, <1>6, <3>1 DEF Files
      <4> QED
        BY <1>3, <1>4, <1>11, <3>1, <4>1 DEF CountsFile
    <3>2. CASE o.file = FileCount /\ k.at = "done"
      BY <1>3, <1>5, <1>11, <3>2 DEF CountsFile
    <3> QED
      BY <1>11, <3>1, <3>2 DEF CountsFile
  <2>4. Contract!Confirm
    BY <2>1, <2>2, <2>3 DEF Contract!Confirm
  <2> QED
    BY <2>4 DEF Contract!Next
<1>12. CASE GivesUp(o, k, StoredSessions, StoredSessions')
  <2>1. Contract!OnlyCurrentStored
    BY <1>9, <1>12 DEF GivesUp
  <2>2. Contract!GiveUp
    BY <1>2, <1>3, <1>12, <2>1
       DEF GivesUp, Contract!GiveUp, Contract!NoEntries, Contract!Files, Files
  <2> QED
    BY <2>2 DEF Contract!Next
<1> QED
  BY <1>7, <1>8, <1>10, <1>11, <1>12 DEF Moves

LEMMA NothingMoves ==
  ASSUME Now' = Now, StoredSessions' = StoredSessions
  PROVE  [Contract!Next]_(Contract!clientVars)
  BY DEF Contract!clientVars

LEMMA ContractStep ==
  ASSUME ClientInv, OneAtATime, ClientInv', OneAtATime', [Next]_vars
  PROVE  [Contract!Next]_(Contract!clientVars)
<1>1. /\ call \in [Calls -> CallStates] /\ session \in SessionStates
      /\ call' \in [Calls -> CallStates] /\ AloneIn(call) /\ AloneIn(call')
  BY ByCall, ByCallNext, TypeFacts, TypeFactsNext, OneIsAlone, OneIsAloneNext
<1>2. CASE \E c \in Calls : CallMoves(c)
  <2>1. PICK c \in Calls : CallMoves(c)
    BY <1>2
  <2>2. /\ call' = [call EXCEPT ![c] = call'[c]]
        /\ Moves(call[c], call'[c], StoredSessions, StoredSessions')
        /\ call[c] \in CallStates /\ call'[c] \in CallStates
    BY <1>1, <2>1 DEF CallMoves
  <2>3. CASE /\ call[c].at \notin AtWork /\ call'[c].at \notin AtWork
             /\ NowOf(call') = NowOf(call)
    <3>1. StoredSessions' = StoredSessions
      BY <2>2, <2>3
         DEF Moves, Quiet, Starts, WorksOn, CountsFile, GivesUp, AtWork, AtFiles
    <3> QED
      BY <2>3, <3>1, NowCall, NothingMoves
  <2>4. CASE NowOf(call) = View(call[c]) /\ NowOf(call') = View(call'[c])
    BY <2>2, <2>4, NowCall, MovesAreAllowed
  <2> QED
    BY <1>1, <2>2, <2>3, <2>4, NowSteps
<1>3. CASE \E c \in Calls : Begin(c)
  <2>1. PICK c \in Calls : Begin(c)
    BY <1>3
  <2>2. \A d \in Calls : call[d].at \notin AtWork
    BY <2>1 DEF Begin, Active, AtWork
  <2>3. /\ call' = [call EXCEPT ![c].at = "read"] /\ UNCHANGED session
    BY <2>1 DEF Begin
  <2>4. \A d \in Calls : call'[d].at = IF d = c THEN "read" ELSE call[d].at
    BY <1>1, <2>3 DEF CallStates
  <2>5. \A d \in Calls : call'[d].at \notin AtWork
    BY <2>2, <2>4 DEF AtWork
  <2> QED
    BY <1>1, <2>2, <2>3, <2>5, NowIs, NowCall, NothingMoves, StoredSame
<1>4. CASE Reload
  <2>1. /\ \A d \in Calls : call'[d] = Idle /\ call[d].at # "done"
        /\ UNCHANGED session
    BY <1>4 DEF Reload
  <2>2. NowOf(call') = Idle /\ View(Idle) = Idle
    BY <1>1, <2>1, IdleEnds, NowIs DEF AtWork, View
  <2>3. CASE \E c \in Calls : call[c].at \in AtWork
    <3>1. PICK c \in Calls : call[c].at \in AtWork
      BY <2>3
    <3>2. NowOf(call) = View(call[c]) /\ call[c].at \in AtFiles
      BY <1>1, <2>1, <3>1, NowIs DEF View, AtWork, AtFiles
    <3>3. Moves(call[c], Idle, StoredSessions, StoredSessions')
      BY <2>1, <3>2, StoredSame, IdleEnds DEF Moves, GivesUp, CurrentOnly, AtWork
    <3> QED
      BY <1>1, <2>2, <3>2, <3>3, NowCall, IdleFacts, MovesAreAllowed
  <2>4. CASE \A c \in Calls : call[c].at \notin AtWork
    BY <1>1, <2>1, <2>2, <2>4, NowIs, NowCall, NothingMoves, StoredSame
  <2> QED
    BY <2>3, <2>4
<1>5. CASE Wait \/ Lag \/ UNCHANGED vars
  <2>1. call' = call /\ \A s \in Sessions : session'[s].upload = session[s].upload
    BY <1>1, <1>5 DEF Wait, Lag, Aged, vars, SessionStates
  <2>2. StoredSessions' = StoredSessions
    BY <2>1 DEF StoredSessions
  <2> QED
    BY <2>1, <2>2, NowCall, NothingMoves
<1> QED
  BY <1>2, <1>3, <1>4, <1>5, StepMoves DEF Next

(* At most one call is engaged: an application begins a call when its last *)
(* one has returned (Begin).                                               *)
LEMMA CallsAreAlone == Spec => []OneAtATime
  BY OneInit, OneStep, ClientInvariance, PTL DEF Spec

(* The client, with everything that goes on beside and after a call, is    *)
(* one that works through its files one by one.                            *)
THEOREM ClientContractKept == Spec => KeepsClientContract
<1>1. ClientInv /\ OneAtATime /\ ClientInv' /\ OneAtATime' /\ [Next]_vars =>
        [Contract!Next]_(Contract!clientVars)
  BY ContractStep
<1> QED
  BY <1>1, ContractInit, ClientInvariance, CallsAreAlone, PTL
     DEF Spec, KeepsClientContract, Contract!Spec
=============================================================================
