--------------------------- MODULE GoClient_proofs ---------------------------
(***************************************************************************)
(* Theorems about GoClient: whatever the number of files, parts,           *)
(* goroutines and attempts, a finalize is only sent for a complete file,   *)
(* no goroutine outlives its file, and success means that all is stored;   *)
(* and the call, with all that, is a refinement of ClientContract.         *)
(***************************************************************************)
EXTENDS GoClient, TLAPS, FiniteSetTheorems

(* The places a goroutine can be at.                                       *)
WorkerSteps == {"take", "try", "wait", "fail", "append", "count", "report", "gone"}

(* A subset of 1..n has at most n elements, and 1..n itself has n.         *)
LEMMA PartsCounted ==
  ASSUME NEW n \in Nat, NEW S \in SUBSET (1..n)
  PROVE  /\ Cardinality(S) \in 0..n
         /\ Cardinality(1..n) = n
<1>1. IsFiniteSet(1..n) /\ Cardinality(1..n) = n
  BY FS_Interval
<1>2. Cardinality(S) <= Cardinality(1..n) /\ IsFiniteSet(S)
  BY <1>1, FS_Subset
<1>3. Cardinality(S) \in Nat
  BY <1>2, FS_CardinalityType
<1> QED
  BY <1>1, <1>2, <1>3

(* What Turn does, in the terms of TypeOK.                                 *)
LEMMA TurnFacts ==
  ASSUME NEW next, Turn(next)
  PROVE  at' = next /\ tries' \in 1..Attempts /\ asked' \in BOOLEAN
<1>1. 1 \in 1..Attempts
  BY GoClientAssumption
<1>2. at' = next /\ tries' = 1 /\ asked' = FALSE
  BY DEF Turn
<1>3. asked' \in BOOLEAN
  BY <1>2
<1>4. tries' \in 1..Attempts
  BY <1>1, <1>2
<1> QED
  BY <1>2, <1>3, <1>4

(* What one goroutine does to its own step leaves the others alone.        *)
LEMMA GoesFacts ==
  ASSUME TypeOK, NEW w \in Workers, NEW st \in WorkerSteps, Goes(w, st)
  PROVE  /\ worker' \in [Workers -> WorkerStates]
         /\ worker'[w].step = st
         /\ \A v \in Workers : v # w => worker'[v] = worker[v]
         /\ \A v \in Workers : /\ worker'[v].part = worker[v].part
                               /\ worker'[v].count = worker[v].count
BY DEF TypeOK, Goes, WorkerStates, WorkerSteps

(* A call that fails or tries again does nothing but that.                 *)
LEMMA AgainFacts ==
  ASSUME TypeOK, NEW b \in BOOLEAN, Again(b)
  PROVE  /\ at' \in {at, "failed"} /\ tries' \in 1..Attempts /\ asked' \in BOOLEAN
         /\ UNCHANGED <<file, prepared>>
         /\ UNCHANGED <<worker, cursor, failure, parts, reported>>
<1>1. CASE Fail
  BY <1>1 DEF TypeOK, Fail, poolVars
<1>2. CASE /\ tries # Attempts /\ tries' = tries + 1 /\ asked' = FALSE
           /\ UNCHANGED <<at, file, prepared, poolVars>>
  <2>1. tries + 1 \in 1..Attempts
    BY <1>2, GoClientAssumption DEF TypeOK
  <2> QED
    BY <1>2, <2>1 DEF poolVars
<1> QED
  BY <1>1, <1>2 DEF Again

(* The call at the start of a file.                                        *)
LEMMA AtFileFacts ==
  ASSUME TypeOK, NEW f \in Files, AtFile(f)
  PROVE  /\ file' = f /\ cursor' = 0 /\ failure' = FALSE /\ parts' = {} /\ reported' = {}
         /\ cursor' \in 0..PartCount /\ failure' \in BOOLEAN
         /\ tries' \in 1..Attempts /\ asked' \in BOOLEAN
         /\ at' \in {"put", "upload"} /\ worker' \in [Workers -> WorkerStates]
         /\ f \in Large => /\ at' = "upload"
                           /\ \A w \in Workers : worker'[w].step = IF w <= PartCount THEN "take" ELSE "gone"
         /\ f \notin Large => at' = "put" /\ worker' = worker
<1>1. Gone \in WorkerStates /\ Starting \in WorkerStates
  BY GoClientAssumption DEF Gone, Starting, WorkerStates
<1>2. Gone.step = "gone" /\ Starting.step = "take"
  BY DEF Gone, Starting
<1>3. 0 \in 0..PartCount
  BY GoClientAssumption
<1>4. /\ file' = f /\ cursor' = 0 /\ failure' = FALSE /\ parts' = {} /\ reported' = {}
      /\ cursor' \in 0..PartCount /\ failure' \in BOOLEAN
  BY <1>3 DEF AtFile
<1>5. CASE f \in Large
  <2>1. Turn("upload")
    BY <1>5 DEF AtFile
  <2>2. worker' = [w \in Workers |-> IF w <= PartCount THEN Starting ELSE Gone]
    BY <1>5 DEF AtFile
  <2>3. worker' \in [Workers -> WorkerStates]
    BY <1>1, <2>2
  <2>4. \A w \in Workers : worker'[w].step = IF w <= PartCount THEN "take" ELSE "gone"
    BY <1>2, <2>2
  <2> QED
    BY <1>4, <1>5, <2>1, <2>3, <2>4, TurnFacts
<1>6. CASE f \notin Large
  <2>1. Turn("put") /\ worker' = worker
    BY <1>6 DEF AtFile
  <2> QED
    BY <1>4, <1>6, <2>1, TurnFacts DEF TypeOK
<1> QED
  BY <1>5, <1>6

-----------------------------------------------------------------------------
(***************************************************************************)
(* Type correctness                                                        *)
(***************************************************************************)
LEMMA TypeInit == Init => TypeOK
<1> SUFFICES ASSUME Init PROVE TypeOK
  OBVIOUS
<1>1. Gone \in WorkerStates
  BY GoClientAssumption DEF Gone, WorkerStates
<1>2. worker \in [Workers -> WorkerStates]
  BY <1>1 DEF Init
<1>3. received \in [Sessions -> SUBSET (1..PartCount)]
  BY DEF Init
<1>4. status \in [Sessions -> {"none", "open", "stored", "damaged"}]
  BY DEF Init
<1>5. file \in Files /\ tries \in 1..Attempts /\ prepared \in 0..Attempts /\ cursor \in 0..PartCount
  BY GoClientAssumption DEF Init, Files
<1> QED
  BY <1>2, <1>3, <1>4, <1>5 DEF Init, TypeOK

LEMMA CallKeepsType ==
  ASSUME TypeOK, Call
  PROVE  TypeOK'
<1>1. CASE Ask
  BY <1>1 DEF Ask, Fail, TypeOK, poolVars, serverVars
<1>2. CASE PrepareAnswer
  <2> PICK n \in 0..FileCount :
        /\ status' = [s \in Sessions |->
                        IF s[1] = tries /\ s[2] <= n THEN "open" ELSE status[s]]
        /\ \/ n = FileCount /\ prepared' = tries /\ AtFile(1)
           \/ \E retryable \in BOOLEAN : Again(retryable)
    BY <1>2 DEF PrepareAnswer
  <2>1. status' \in [Sessions -> {"none", "open", "stored", "damaged"}]
    BY DEF TypeOK
  <2>2. cancelled' = cancelled /\ received' = received
    BY <1>2 DEF PrepareAnswer
  <2>3. CASE prepared' = tries /\ AtFile(1)
    <3>1. 1 \in Files
      BY GoClientAssumption DEF Files
    <3>2. prepared' \in 0..Attempts /\ file' \in Files
      <4>1. file' = 1
        BY <2>3, <3>1, AtFileFacts
      <4>2. tries \in 0..Attempts
        BY GoClientAssumption DEF TypeOK
      <4> QED
        BY <2>3, <3>1, <4>1, <4>2
    <3>3. /\ cursor' \in 0..PartCount /\ failure' \in BOOLEAN
          /\ tries' \in 1..Attempts /\ asked' \in BOOLEAN
          /\ at' \in {"put", "upload"} /\ worker' \in [Workers -> WorkerStates]
          /\ parts' = {} /\ reported' = {}
      BY <2>3, <3>1, AtFileFacts
    <3> QED
      BY <2>1, <2>2, <3>2, <3>3 DEF TypeOK
  <2>4. CASE \E retryable \in BOOLEAN : Again(retryable)
    BY <2>1, <2>2, <2>4, AgainFacts DEF TypeOK
  <2> QED
    BY <2>3, <2>4
<1>3. CASE PutAnswer
  <2>1. cancelled' = cancelled /\ status' = status
    BY <1>3 DEF PutAnswer
  <2>2. received' \in [Sessions -> SUBSET (1..PartCount)]
    <3>1. 1 \in 1..PartCount
      BY GoClientAssumption
    <3>2. \/ received' = received
          \/ received' = [received EXCEPT ![Current] = @ \cup {1}]
      BY <1>3 DEF PutAnswer
    <3> QED
      BY <3>1, <3>2 DEF TypeOK
  <2>3. CASE /\ Turn("finalize") /\ reported' = {1}
             /\ UNCHANGED <<file, prepared, worker, cursor, failure, parts>>
    <3>1. at' = "finalize" /\ tries' \in 1..Attempts /\ asked' \in BOOLEAN
      BY <2>3, TurnFacts
    <3>2. reported' \subseteq 0..PartCount
      BY <2>3, GoClientAssumption
    <3> QED
      BY <2>1, <2>2, <2>3, <3>1, <3>2 DEF TypeOK
  <2>4. CASE Again(TRUE)
    BY <2>1, <2>2, <2>4, AgainFacts DEF TypeOK
  <2> QED
    BY <1>3, <2>3, <2>4 DEF PutAnswer
<1>4. CASE FinalizeAnswer
  <2>1. cancelled' = cancelled /\ received' = received
    BY <1>4 DEF FinalizeAnswer
  <2>2. status' \in [Sessions -> {"none", "open", "stored", "damaged"}]
    BY <1>4 DEF FinalizeAnswer, TypeOK, Finalized
  <2>3. CASE file < FileCount /\ AtFile(file + 1) /\ UNCHANGED prepared
    <3>1. file + 1 \in Files
      BY <2>3, GoClientAssumption DEF Files, TypeOK
    <3> QED
      BY <2>1, <2>2, <2>3, <3>1, AtFileFacts, GoClientAssumption
         DEF TypeOK, WorkerStates, WorkerSteps
  <2>4. CASE Turn("done") /\ UNCHANGED <<file, prepared, poolVars>>
    <3>1. at' = "done" /\ tries' \in 1..Attempts /\ asked' \in BOOLEAN
      BY <2>4, TurnFacts
    <3> QED
      BY <2>1, <2>2, <2>4, <3>1 DEF TypeOK, poolVars
  <2>5. CASE \E retryable \in BOOLEAN : Again(retryable)
    BY <2>1, <2>2, <2>5, AgainFacts DEF TypeOK
  <2> QED
    BY <1>4, <2>3, <2>4, <2>5 DEF FinalizeAnswer
<1>5. CASE Join
  <2>1. /\ at' \in {"failed", "finalize"} /\ tries' \in 1..Attempts /\ asked' \in BOOLEAN
        /\ UNCHANGED <<file, prepared, poolVars, cancelled, serverVars>>
    <3>1. CASE Fail
      BY <1>5, <3>1 DEF Join, Fail, TypeOK
    <3>2. CASE Turn("finalize") /\ UNCHANGED <<file, prepared, poolVars>>
      BY <1>5, <3>2, TurnFacts DEF Join
    <3> QED
      BY <1>5, <3>1, <3>2 DEF Join
  <2> QED
    BY <2>1 DEF TypeOK, poolVars, serverVars
<1> QED
  BY <1>1, <1>2, <1>3, <1>4, <1>5 DEF Call

(* What every step of a goroutine leaves alone, and the type of the rest.  *)
LEMMA WorkKeepsType ==
  ASSUME TypeOK, NEW w \in Workers, Work(w)
  PROVE  TypeOK'
<1>1. CASE TakePart(w)
  <2>1. CASE failure \/ cursor = PartCount
    BY <1>1, <2>1, GoesFacts
       DEF TakePart, TypeOK, WorkerSteps, callVars, serverVars
  <2>2. CASE ~(failure \/ cursor = PartCount)
    <3>1. cursor + 1 \in 1..PartCount
      BY <2>2, GoClientAssumption DEF TypeOK
    <3>2. worker' \in [Workers -> WorkerStates] /\ cursor' = cursor + 1
      BY <1>1, <2>2, <3>1, GoClientAssumption DEF TakePart, TypeOK, WorkerStates, WorkerSteps
    <3> QED
      BY <1>1, <3>1, <3>2 DEF TakePart, TypeOK, WorkerSteps, callVars, serverVars
  <2> QED
    BY <2>1, <2>2
<1>2. CASE TryPart(w)
  <2>1. worker' \in [Workers -> WorkerStates]
    BY <1>2, GoesFacts DEF TryPart, WorkerSteps
  <2> QED
    BY <1>2, <2>1 DEF TryPart, TypeOK, WorkerSteps, callVars, serverVars
<1>3. CASE PartAnswer(w)
  <2>1. received' \in [Sessions -> SUBSET (1..PartCount)]
    <3>1. received \in [Sessions -> SUBSET (1..PartCount)]
      BY DEF TypeOK
    <3>2. \/ received' = received
          \/ received' = [received EXCEPT ![Current] = @ \cup {worker[w].part}]
      BY <1>3 DEF PartAnswer
    <3>3. worker[w].part \in 1..PartCount
      BY DEF TypeOK, WorkerStates
    <3> QED
      BY <3>1, <3>2, <3>3
  <2>2. worker' \in [Workers -> WorkerStates]
    <3>1. CASE Goes(w, "append") \/ Goes(w, "fail")
      BY <3>1, GoesFacts DEF WorkerSteps
    <3>2. CASE /\ worker[w].tries < Attempts
               /\ worker' = [worker EXCEPT ![w].step = "try", ![w].tries = @ + 1]
      BY <3>2, GoClientAssumption DEF TypeOK, WorkerStates, WorkerSteps
    <3> QED
      BY <1>3, <3>1, <3>2 DEF PartAnswer
  <2> QED
    BY <1>3, <2>1, <2>2 DEF PartAnswer, TypeOK, callVars
<1>4. CASE RecordFailure(w)
  BY <1>4, GoesFacts
     DEF RecordFailure, TypeOK, WorkerSteps, callVars, serverVars
<1>5. CASE AppendPart(w)
  <2>1. worker[w].part \in 1..PartCount
    BY DEF TypeOK, WorkerStates
  <2>2. worker' \in [Workers -> WorkerStates]
    BY <1>5, GoesFacts DEF AppendPart, WorkerSteps
  <2> QED
    BY <1>5, <2>1, <2>2 DEF AppendPart, TypeOK, callVars, serverVars
<1>6. CASE CountParts(w)
  <2>1. Cardinality(parts) \in 0..PartCount
    BY PartsCounted, GoClientAssumption DEF TypeOK
  <2>2. worker' \in [Workers -> WorkerStates]
    BY <1>6, <2>1 DEF CountParts, TypeOK, WorkerStates, WorkerSteps
  <2> QED
    BY <1>6, <2>2 DEF CountParts, TypeOK, WorkerSteps, callVars, serverVars
<1>7. CASE Report(w)
  <2>1. worker[w].count \in 0..PartCount
    BY DEF TypeOK, WorkerStates
  <2>2. worker' \in [Workers -> WorkerStates]
    BY <1>7, GoesFacts DEF Report, WorkerSteps
  <2> QED
    BY <1>7, <2>1, <2>2 DEF Report, TypeOK, callVars, serverVars
<1> QED
  BY <1>1, <1>2, <1>3, <1>4, <1>5, <1>6, <1>7 DEF Work

LEMMA TypeStep ==
  ASSUME TypeOK, [Next]_vars
  PROVE  TypeOK'
<1>1. CASE Cancel
  BY <1>1 DEF Cancel, TypeOK, callVars, poolVars, serverVars
<1>2. CASE UNCHANGED vars
  BY <1>2 DEF TypeOK, vars, callVars, poolVars, serverVars
<1> QED
  BY <1>1, <1>2, CallKeepsType, WorkKeepsType DEF Next

-----------------------------------------------------------------------------
(***************************************************************************)
(* The goroutines keep the invariant                                       *)
(***************************************************************************)

(* A step of a goroutine is taken while its file is sent, and touches only *)
(* the pool and that file's session.                                       *)
LEMMA WorkFrame ==
  ASSUME IInv, NEW w \in Workers, Work(w)
  PROVE  /\ at = "upload" /\ file \in Large /\ Current \in Sessions
         /\ UNCHANGED <<callVars, cancelled, status>>
         /\ Current' = Current
<1>1. worker[w].step # "gone"
  BY DEF Work, TakePart, TryPart, PartAnswer, RecordFailure, AppendPart, CountParts, Report
<1>2. at = "upload" /\ file \in Large /\ prepared \in 1..Attempts
  BY <1>1 DEF IInv, NothingLeftBehind, HasSessions
<1>3. UNCHANGED <<callVars, cancelled, status>>
  BY DEF Work, TakePart, TryPart, PartAnswer, RecordFailure, AppendPart, CountParts,
         Report, serverVars
<1> QED
  BY <1>2, <1>3 DEF IInv, TypeOK, Current, Sessions, callVars

(* What is left to show of a step of a goroutine.                          *)
LEMMA WorkReduces ==
  ASSUME IInv, NEW w \in Workers, Work(w), SmallIsOnePart', HeldIsTaken', NoPartLost', LastOneCounts'
  PROVE  IInv'
<1>1. TypeOK'
  BY WorkKeepsType DEF IInv
<1>2. at = "upload" /\ UNCHANGED <<callVars, status>>
  BY WorkFrame
<1>3. HasSessions' /\ StoredSoFar' /\ ResultsAreStored'
  BY <1>2 DEF IInv, HasSessions, StoredSoFar, ResultsAreStored, callVars
<1>4. NothingLeftBehind' /\ FinalizeIsComplete' /\ FullProgress'
  BY <1>2 DEF NothingLeftBehind, FinalizeIsComplete, FullProgress, callVars
<1> QED
  BY <1>1, <1>3, <1>4 DEF IInv

LEMMA TakePartKeeps ==
  ASSUME IInv, NEW w \in Workers, TakePart(w)
  PROVE  IInv'
<1> USE DEF IInv
<1>1. Work(w)
  BY DEF Work
<1>2. /\ at = "upload" /\ at' = "upload" /\ Current' = Current
      /\ UNCHANGED <<received, parts, failure, reported>>
  BY <1>1, WorkFrame DEF TakePart, serverVars, callVars
<1>3. SmallIsOnePart'
  BY <1>2 DEF SmallIsOnePart
<1>4. cursor \in 0..PartCount /\ PartCount \in Nat
  BY GoClientAssumption DEF TypeOK
<1>5. CASE failure \/ cursor = PartCount
  <2>1. /\ cursor' = cursor /\ worker[w].step = "take" /\ worker'[w].step = "gone"
        /\ \A v \in Workers : v # w => worker'[v] = worker[v]
        /\ \A v \in Workers : worker'[v].part = worker[v].part
    BY <1>5, GoesFacts DEF TakePart, WorkerSteps
  <2>2. \A v \in Workers : Holds(v)' = Holds(v)
    BY <2>1 DEF Holds
  <2>3. HeldIsTaken'
    BY <1>2, <2>1, <2>2 DEF HeldIsTaken
  <2>4. NoPartLost'
    BY <1>2, <1>5, <2>1, <2>2 DEF NoPartLost
  <2>5. LastOneCounts'
    BY <1>2, <2>1 DEF LastOneCounts
  <2> QED
    BY <1>1, <1>3, <2>3, <2>4, <2>5, WorkReduces
<1>6. CASE ~(failure \/ cursor = PartCount)
  <2>1. /\ cursor' = cursor + 1 /\ worker[w].step = "take"
        /\ worker'[w].step = "try" /\ worker'[w].part = cursor + 1
        /\ \A v \in Workers : v # w => worker'[v] = worker[v]
    BY <1>6 DEF TakePart, TypeOK, WorkerStates
  <2>2. \A v \in Workers : Holds(v)' = (v = w \/ Holds(v))
    BY <2>1 DEF Holds
  <2>3. HeldIsTaken'
    <3> SUFFICES ASSUME NEW v \in Workers
                 PROVE  /\ Holds(v)' => worker'[v].part \in 1..cursor'
                        /\ worker'[v].step = "append" => worker'[v].part \in received[Current]'
      BY DEF HeldIsTaken
    <3>1. 1..cursor \subseteq 1..cursor' /\ cursor + 1 \in 1..cursor'
      BY <1>4, <2>1
    <3>2. CASE v = w
      BY <2>1, <3>1, <3>2
    <3>3. CASE v # w
      BY <1>2, <2>1, <2>2, <3>1, <3>3 DEF HeldIsTaken, Current
    <3> QED
      BY <3>2, <3>3
  <2>4. NoPartLost'
    <3>1. \A p \in 1..cursor : p \in parts \/ \E v \in Workers : Holds(v)' /\ worker'[v].part = p
      <4> SUFFICES ASSUME NEW p \in 1..cursor, p \notin parts
                   PROVE  \E v \in Workers : Holds(v)' /\ worker'[v].part = p
        OBVIOUS
      <4>1. PICK v \in Workers : Holds(v) /\ worker[v].part = p
        BY <1>2, <1>6 DEF NoPartLost
      <4>2. v # w
        BY <2>1, <4>1 DEF Holds
      <4> QED
        BY <2>1, <2>2, <4>1, <4>2
    <3>2. \A p \in 1..cursor' : p \in parts' \/ \E v \in Workers : Holds(v)' /\ worker'[v].part = p
      <4> SUFFICES ASSUME NEW p \in 1..cursor', p \notin parts'
                   PROVE  \E v \in Workers : Holds(v)' /\ worker'[v].part = p
        OBVIOUS
      <4>1. CASE p = cursor + 1
        BY <2>1, <2>2, <4>1
      <4>2. CASE p # cursor + 1
        <5>1. p \in 1..cursor /\ p \notin parts
          BY <1>2, <1>4, <2>1, <4>2
        <5> QED
          BY <3>1, <5>1
      <4> QED
        BY <4>1, <4>2
    <3>3. \A v \in Workers : ~(v <= PartCount /\ worker'[v].step = "gone")
      BY <1>2, <1>6, <2>1 DEF NoPartLost
    <3> QED
      BY <1>2, <3>2, <3>3 DEF NoPartLost
  <2>5. LastOneCounts'
    BY <1>2, <2>1 DEF LastOneCounts
  <2> QED
    BY <1>1, <1>3, <2>3, <2>4, <2>5, WorkReduces
<1> QED
  BY <1>5, <1>6

(* A goroutine that goes on with the part it has.                          *)
LEMMA HolderKeeps ==
  ASSUME IInv, NEW w \in Workers, Work(w), Holds(w), Holds(w)',
         worker'[w].part = worker[w].part,
         worker'[w].step = "append" => worker[w].part \in received[Current]',
         \A v \in Workers : v # w => worker'[v] = worker[v],
         \A s \in Sessions : received[s] \subseteq received[s]',
         UNCHANGED <<cursor, failure, parts, reported>>,
         SmallIsOnePart'
  PROVE  IInv'
<1>1. at = "upload" /\ at' = "upload" /\ Current' = Current /\ Current \in Sessions
  BY WorkFrame DEF callVars
<1>2. \A v \in Workers : Holds(v)' = Holds(v) /\ worker'[v].part = worker[v].part
  BY DEF Holds
<1>3. HeldIsTaken'
  BY <1>1, <1>2 DEF IInv, HeldIsTaken, Current
<1>4. NoPartLost'
  BY <1>1, <1>2 DEF IInv, NoPartLost, Holds, Current
<1>5. LastOneCounts'
  BY <1>1 DEF IInv, LastOneCounts, Holds
<1> QED
  BY <1>3, <1>4, <1>5, WorkReduces

LEMMA TryPartKeeps ==
  ASSUME IInv, NEW w \in Workers, TryPart(w)
  PROVE  IInv'
<1>1. Work(w)
  BY DEF Work
<1>2. PICK st \in {"fail", "wait"} : Goes(w, st)
  BY DEF TryPart
<1>3. /\ worker[w].step = "try" /\ worker'[w].step = st
      /\ \A v \in Workers : v # w => worker'[v] = worker[v]
      /\ worker'[w].part = worker[w].part
  BY <1>2, GoesFacts DEF TryPart, WorkerSteps, IInv
<1>4. UNCHANGED <<cursor, failure, parts, reported, received>>
  BY DEF TryPart, serverVars
<1>5. SmallIsOnePart'
  BY <1>4 DEF IInv, SmallIsOnePart
<1> QED
  BY <1>1, <1>3, <1>4, <1>5, HolderKeeps DEF Holds

LEMMA PartAnswerKeeps ==
  ASSUME IInv, NEW w \in Workers, PartAnswer(w)
  PROVE  IInv'
<1>1. Work(w)
  BY DEF Work
<1>2. at = "upload" /\ file \in Large /\ Current \in Sessions /\ Current' = Current
  BY <1>1, WorkFrame
<1>3. received \in [Sessions -> SUBSET (1..PartCount)]
  BY DEF IInv, TypeOK
<1>4. UNCHANGED <<cursor, failure, parts, reported>> /\ worker[w].step = "wait"
  BY DEF PartAnswer
<1>5. PICK reached \in BOOLEAN :
        /\ received' = IF reached THEN [received EXCEPT ![Current] = @ \cup {worker[w].part}]
                       ELSE received
        /\ \/ reached /\ Goes(w, "append")
           \/ (cancelled \/ worker[w].tries = Attempts) /\ Goes(w, "fail")
           \/ /\ ~cancelled /\ worker[w].tries < Attempts
              /\ worker' = [worker EXCEPT ![w].step = "try", ![w].tries = @ + 1]
  BY DEF PartAnswer
<1>6. \A s \in Sessions : received[s] \subseteq received'[s]
  BY <1>3, <1>5
<1>7. SmallIsOnePart'
  <2>1. \A s \in Sessions : s[2] \notin Large => received'[s] = received[s]
    BY <1>2, <1>3, <1>5 DEF Current
  <2> QED
    BY <2>1 DEF IInv, SmallIsOnePart
<1>8. /\ worker'[w].part = worker[w].part
      /\ \A v \in Workers : v # w => worker'[v] = worker[v]
      /\ worker'[w].step \in {"append", "fail", "try"}
      /\ worker'[w].step = "append" => reached
  <2>1. CASE reached /\ Goes(w, "append")
    BY <2>1, GoesFacts DEF WorkerSteps, IInv
  <2>2. CASE Goes(w, "fail")
    BY <2>2, GoesFacts DEF WorkerSteps, IInv
  <2>3. CASE worker' = [worker EXCEPT ![w].step = "try", ![w].tries = @ + 1]
    BY <2>3 DEF IInv, TypeOK, WorkerStates
  <2> QED
    BY <1>5, <2>1, <2>2, <2>3
<1>9. worker'[w].step = "append" => worker[w].part \in received'[Current']
  BY <1>2, <1>3, <1>5, <1>8
<1> QED
  BY <1>1, <1>4, <1>6, <1>7, <1>8, <1>9, HolderKeeps DEF Holds

LEMMA RecordFailureKeeps ==
  ASSUME IInv, NEW w \in Workers, RecordFailure(w)
  PROVE  IInv'
<1>1. Work(w)
  BY DEF Work
<1>2. at = "upload" /\ at' = "upload" /\ Current' = Current
  BY <1>1, WorkFrame DEF callVars
<1>3. UNCHANGED <<cursor, parts, reported, received>> /\ failure'
  BY DEF RecordFailure, serverVars
<1>4. /\ worker[w].step = "fail" /\ worker'[w].step = "gone"
      /\ \A v \in Workers : v # w => worker'[v] = worker[v]
      /\ worker'[w].part = worker[w].part
  BY GoesFacts DEF RecordFailure, WorkerSteps, IInv
<1>5. SmallIsOnePart'
  BY <1>3 DEF IInv, SmallIsOnePart
<1>6. HeldIsTaken'
  BY <1>2, <1>3, <1>4 DEF IInv, HeldIsTaken, Holds, Current
<1>7. NoPartLost'
  BY <1>2, <1>3 DEF IInv, NoPartLost, Current
<1>8. LastOneCounts'
  BY <1>2, <1>3, <1>4 DEF IInv, LastOneCounts
<1> QED
  BY <1>1, <1>5, <1>6, <1>7, <1>8, WorkReduces

LEMMA AppendPartKeeps ==
  ASSUME IInv, NEW w \in Workers, AppendPart(w)
  PROVE  IInv'
<1>1. Work(w)
  BY DEF Work
<1>2. at = "upload" /\ at' = "upload" /\ Current' = Current
  BY <1>1, WorkFrame DEF callVars
<1>3. UNCHANGED <<cursor, failure, reported, received>> /\ parts' = parts \cup {worker[w].part}
  BY DEF AppendPart, serverVars
<1>4. /\ worker[w].step = "append" /\ worker'[w].step = "count"
      /\ \A v \in Workers : v # w => worker'[v] = worker[v]
      /\ worker'[w].part = worker[w].part
  BY GoesFacts DEF AppendPart, WorkerSteps, IInv
<1>5. SmallIsOnePart'
  BY <1>3 DEF IInv, SmallIsOnePart
<1>6. HeldIsTaken'
  BY <1>2, <1>3, <1>4 DEF IInv, HeldIsTaken, Holds, Current
<1>7. NoPartLost'
  <2>1. parts' \subseteq received'[Current']
    BY <1>2, <1>3, <1>4 DEF IInv, NoPartLost, HeldIsTaken
  <2>2. failure \/ \A p \in 1..cursor : p \in parts' \/ \E v \in Workers : Holds(v)' /\ worker'[v].part = p
    <3> SUFFICES ASSUME ~failure, NEW p \in 1..cursor, p \notin parts'
                 PROVE  \E v \in Workers : Holds(v)' /\ worker'[v].part = p
      OBVIOUS
    <3>1. PICK v \in Workers : Holds(v) /\ worker[v].part = p
      BY <1>2, <1>3 DEF IInv, NoPartLost
    <3>2. v # w
      BY <1>3, <3>1
    <3> QED
      BY <1>4, <3>1, <3>2 DEF Holds
  <2>3. \A v \in Workers : v <= PartCount /\ worker'[v].step = "gone" => failure \/ cursor = PartCount
    BY <1>2, <1>4 DEF IInv, NoPartLost
  <2> QED
    BY <1>3, <2>1, <2>2, <2>3 DEF NoPartLost
<1>8. LastOneCounts'
  BY <1>4 DEF LastOneCounts
<1> QED
  BY <1>1, <1>5, <1>6, <1>7, <1>8, WorkReduces

(* The last two steps of a round touch no part.                            *)
LEMMA CountPartsKeeps ==
  ASSUME IInv, NEW w \in Workers, CountParts(w)
  PROVE  IInv'
<1>1. Work(w)
  BY DEF Work
<1>2. at = "upload" /\ at' = "upload" /\ Current' = Current
  BY <1>1, WorkFrame DEF callVars
<1>3. UNCHANGED <<cursor, failure, parts, reported, received>>
  BY DEF CountParts, serverVars
<1>4. /\ worker[w].step = "count" /\ worker'[w].step = "report"
      /\ \A v \in Workers : v # w => worker'[v] = worker[v]
      /\ worker'[w].part = worker[w].part /\ worker'[w].count = Cardinality(parts)
  BY DEF CountParts, IInv, TypeOK, WorkerStates
<1>5. SmallIsOnePart'
  BY <1>3 DEF IInv, SmallIsOnePart
<1>6. HeldIsTaken'
  BY <1>2, <1>3, <1>4 DEF IInv, HeldIsTaken, Holds, Current
<1>7. NoPartLost'
  BY <1>2, <1>3, <1>4 DEF IInv, NoPartLost, Holds, Current
<1>8. LastOneCounts'
  <2>1. Cardinality(1..PartCount) = PartCount
    BY PartsCounted, GoClientAssumption
  <2> QED
    BY <1>3, <1>4, <2>1 DEF LastOneCounts
<1> QED
  BY <1>1, <1>5, <1>6, <1>7, <1>8, WorkReduces

LEMMA ReportKeeps ==
  ASSUME IInv, NEW w \in Workers, Report(w)
  PROVE  IInv'
<1>1. Work(w)
  BY DEF Work
<1>2. at = "upload" /\ at' = "upload" /\ Current' = Current
  BY <1>1, WorkFrame DEF callVars
<1>3. /\ UNCHANGED <<cursor, failure, parts, received>>
      /\ reported' = reported \cup {worker[w].count}
  BY DEF Report, serverVars
<1>4. /\ worker[w].step = "report" /\ worker'[w].step = "take"
      /\ \A v \in Workers : v # w => worker'[v] = worker[v]
      /\ worker'[w].part = worker[w].part
  BY GoesFacts DEF Report, WorkerSteps, IInv
<1>5. SmallIsOnePart'
  BY <1>3 DEF IInv, SmallIsOnePart
<1>6. HeldIsTaken'
  BY <1>2, <1>3, <1>4 DEF IInv, HeldIsTaken, Holds, Current
<1>7. NoPartLost'
  BY <1>2, <1>3, <1>4 DEF IInv, NoPartLost, Holds, Current
<1>8. LastOneCounts'
  BY <1>2, <1>3, <1>4 DEF IInv, LastOneCounts
<1> QED
  BY <1>1, <1>5, <1>6, <1>7, <1>8, WorkReduces

LEMMA WorkKeeps ==
  ASSUME IInv, NEW w \in Workers, Work(w)
  PROVE  IInv'
BY TakePartKeeps, TryPartKeeps, PartAnswerKeeps, RecordFailureKeeps, AppendPartKeeps,
   CountPartsKeeps, ReportKeeps DEF Work

-----------------------------------------------------------------------------
(***************************************************************************)
(* The call keeps the invariant                                            *)
(***************************************************************************)
AllGone == \A w \in Workers : worker[w].step = "gone"

(* What is left to show of a step between files or requests: no goroutine  *)
(* runs, so what the invariant says of the pool holds.                     *)
LEMMA CallReduces ==
  ASSUME IInv, Call, AllGone', at' # "upload",
         HasSessions', SmallIsOnePart', StoredSoFar',
         FinalizeIsComplete', FullProgress', ResultsAreStored'
  PROVE  IInv'
<1>1. TypeOK'
  BY CallKeepsType DEF IInv
<1>2. HeldIsTaken' /\ NoPartLost' /\ LastOneCounts' /\ NothingLeftBehind'
  BY DEF AllGone, HeldIsTaken, Holds, NoPartLost, LastOneCounts, NothingLeftBehind
<1> QED
  BY <1>1, <1>2 DEF IInv

(* A call that stops, or asks again, keeps what it knows.                  *)
LEMMA RetryKeeps ==
  ASSUME IInv, Call, at # "upload",
         at' \in {at, "failed"}, UNCHANGED <<file, prepared, worker, parts, reported>>,
         SmallIsOnePart', StoredSoFar', FinalizeIsComplete', ResultsAreStored'
  PROVE  IInv'
<1>1. AllGone'
  BY DEF IInv, NothingLeftBehind, AllGone
<1>2. HasSessions'
  BY DEF IInv, HasSessions
<1>3. FullProgress'
  BY DEF IInv, FullProgress, PartsOf
<1>4. at' # "upload"
  OBVIOUS
<1> QED
  BY <1>1, <1>2, <1>3, <1>4, CallReduces

LEMMA AskKeeps ==
  ASSUME IInv, Ask
  PROVE  IInv'
<1>1. Call /\ at # "upload"
  BY DEF Call, Ask
<1>2. /\ at' \in {at, "failed"}
      /\ UNCHANGED <<file, prepared, worker, parts, reported, received, status>>
  BY DEF Ask, Fail, poolVars, serverVars
<1>3. SmallIsOnePart' /\ StoredSoFar' /\ FinalizeIsComplete' /\ ResultsAreStored'
  BY <1>2 DEF Ask, IInv, SmallIsOnePart, StoredSoFar, FinalizeIsComplete, ResultsAreStored,
              Current, PartsOf
<1> QED
  BY <1>1, <1>2, <1>3, RetryKeeps

(* The call at the start of a file keeps the invariant if the files before *)
(* it are stored.                                                          *)
LEMMA AtFileKeeps ==
  ASSUME IInv, Call, at # "upload", NEW f \in Files, AtFile(f),
         prepared' \in 1..Attempts, received' = received, StoredSoFar',
         \A s \in Sessions : status'[s] = "stored" => s[1] = prepared'
  PROVE  IInv'
<1>1. TypeOK'
  BY CallKeepsType DEF IInv
<1>2. TypeOK
  BY DEF IInv
<1>3. /\ file' = f /\ cursor' = 0 /\ failure' = FALSE /\ parts' = {}
      /\ at' \in {"put", "upload"}
      /\ f \in Large => /\ at' = "upload"
                        /\ \A w \in Workers : worker'[w].step = IF w <= PartCount THEN "take" ELSE "gone"
      /\ f \notin Large => at' = "put" /\ worker' = worker
  BY <1>2, AtFileFacts
<1>4. \A w \in Workers : worker'[w].step \in {"take", "gone"}
  BY <1>3 DEF IInv, NothingLeftBehind
<1>5. HasSessions' /\ ResultsAreStored' /\ FinalizeIsComplete' /\ FullProgress'
  BY <1>3 DEF HasSessions, ResultsAreStored, FinalizeIsComplete, FullProgress
<1>6. SmallIsOnePart'
  BY DEF IInv, SmallIsOnePart
<1>7. HeldIsTaken'
  BY <1>4 DEF HeldIsTaken, Holds
<1>8. NoPartLost'
  <2> SUFFICES ASSUME at' = "upload" PROVE NoPartLost'
    BY DEF NoPartLost
  <2>1. f \in Large
    BY <1>3
  <2>2. 1..cursor' = {}
    BY <1>3
  <2>3. \A w \in Workers : ~(w <= PartCount /\ worker'[w].step = "gone")
    BY <1>3, <2>1
  <2> QED
    BY <1>3, <2>2, <2>3 DEF NoPartLost
<1>9. LastOneCounts'
  <2>1. 1 \in 1..PartCount
    BY GoClientAssumption
  <2> QED
    BY <1>3, <2>1 DEF LastOneCounts
<1>10. NothingLeftBehind'
  BY <1>3 DEF IInv, NothingLeftBehind
<1> QED
  BY <1>1, <1>5, <1>6, <1>7, <1>8, <1>9, <1>10, StoredSoFar' DEF IInv

LEMMA PrepareAnswerKeeps ==
  ASSUME IInv, PrepareAnswer
  PROVE  IInv'
<1>1. Call /\ at = "prepare" /\ prepared = 0 /\ received' = received
  BY DEF Call, PrepareAnswer, IInv, HasSessions
<1>2. PICK n \in 0..FileCount :
        /\ status' = [s \in Sessions |->
                        IF s[1] = tries /\ s[2] <= n THEN "open" ELSE status[s]]
        /\ \/ n = FileCount /\ prepared' = tries /\ AtFile(1)
           \/ \E retryable \in BOOLEAN : Again(retryable)
  BY DEF PrepareAnswer
<1>3. \A s \in Sessions : s[1] \in 1..Attempts
  BY DEF Sessions
<1>4. \A s \in Sessions : status'[s] # "stored"
  BY <1>1, <1>2, <1>3 DEF IInv, ResultsAreStored
<1>5. CASE prepared' = tries /\ AtFile(1)
  <2>1. 1 \in Files
    BY GoClientAssumption DEF Files
  <2>2. prepared' \in 1..Attempts
    BY <1>5 DEF IInv, TypeOK
  <2>3. file' = 1
    BY <1>5, <2>1, AtFileFacts DEF IInv
  <2>4. StoredSoFar'
    BY <2>3 DEF StoredSoFar, Files
  <2> QED
    BY <1>1, <1>4, <1>5, <2>1, <2>2, <2>4, AtFileKeeps
<1>6. CASE \E retryable \in BOOLEAN : Again(retryable)
  <2>1. at' \in {at, "failed"} /\ UNCHANGED <<file, prepared, worker, parts, reported>>
    BY <1>6, AgainFacts DEF IInv
  <2>2. SmallIsOnePart'
    BY <1>1 DEF IInv, SmallIsOnePart
  <2>3. StoredSoFar' /\ FinalizeIsComplete' /\ ResultsAreStored'
    BY <1>1, <1>4, <2>1 DEF StoredSoFar, FinalizeIsComplete, ResultsAreStored
  <2> QED
    BY <1>1, <2>1, <2>2, <2>3, RetryKeeps
<1> QED
  BY <1>2, <1>5, <1>6

LEMMA PutAnswerKeeps ==
  ASSUME IInv, PutAnswer
  PROVE  IInv'
<1>1. /\ Call /\ at = "put" /\ file \notin Large /\ prepared \in 1..Attempts /\ status' = status
  BY DEF Call, PutAnswer, IInv, HasSessions
<1>2. Current \in Sessions /\ received \in [Sessions -> SUBSET (1..PartCount)]
  BY <1>1 DEF IInv, TypeOK, Current, Sessions
<1>3. PICK reached \in BOOLEAN :
        /\ received' = IF reached THEN [received EXCEPT ![Current] = @ \cup {1}] ELSE received
        /\ \/ /\ reached
              /\ Turn("finalize") /\ reported' = {1}
              /\ UNCHANGED <<file, prepared, worker, cursor, failure, parts>>
           \/ Again(TRUE)
  BY DEF PutAnswer
<1>4. SmallIsOnePart'
  BY <1>2, <1>3 DEF IInv, SmallIsOnePart
<1>5. CASE /\ reached
           /\ Turn("finalize") /\ reported' = {1}
           /\ UNCHANGED <<file, prepared, worker, cursor, failure, parts>>
  <2>1. at' = "finalize" /\ Current' = Current
    BY <1>5, TurnFacts DEF Current
  <2>2. received'[Current] = {1}
    BY <1>1, <1>2, <1>3, <1>5 DEF IInv, SmallIsOnePart, Current
  <2>3. FinalizeIsComplete'
    BY <1>1, <1>5, <2>1, <2>2 DEF FinalizeIsComplete, PartsOf
  <2>4. FullProgress'
    <3>1. Cardinality({1}) = 1
      BY FS_Singleton
    <3> QED
      BY <1>1, <1>5, <3>1 DEF FullProgress, PartsOf
  <2>5. HasSessions' /\ StoredSoFar' /\ ResultsAreStored'
    BY <1>1, <1>5, <2>1 DEF IInv, HasSessions, StoredSoFar, ResultsAreStored
  <2>6. AllGone'
    BY <1>1, <1>5 DEF IInv, NothingLeftBehind, AllGone
  <2> QED
    BY <1>1, <1>4, <2>1, <2>3, <2>4, <2>5, <2>6, CallReduces
<1>6. CASE Again(TRUE)
  <2>1. at' \in {at, "failed"} /\ UNCHANGED <<file, prepared, worker, parts, reported>>
    BY <1>6, AgainFacts DEF IInv
  <2>2. StoredSoFar' /\ FinalizeIsComplete' /\ ResultsAreStored'
    BY <1>1, <2>1 DEF IInv, StoredSoFar, FinalizeIsComplete, ResultsAreStored
  <2> QED
    BY <1>1, <1>4, <2>1, <2>2, RetryKeeps
<1> QED
  BY <1>3, <1>5, <1>6

LEMMA FinalizeAnswerKeeps ==
  ASSUME IInv, FinalizeAnswer
  PROVE  IInv'
<1>1. /\ Call /\ at = "finalize" /\ prepared \in 1..Attempts /\ received' = received
      /\ file \in Files
  BY DEF Call, FinalizeAnswer, IInv, HasSessions, TypeOK
<1>2. /\ Current \in Sessions /\ Finalized = "stored"
      /\ status \in [Sessions -> {"none", "open", "stored", "damaged"}]
  BY <1>1 DEF IInv, TypeOK, Current, Sessions, Finalized, FinalizeIsComplete
<1>3. PICK executed \in BOOLEAN :
        /\ status' = IF executed THEN [status EXCEPT ![Current] = Finalized] ELSE status
        /\ \/ /\ executed
              /\ IF file < FileCount
                 THEN AtFile(file + 1) /\ UNCHANGED prepared
                 ELSE Turn("done") /\ UNCHANGED <<file, prepared, poolVars>>
           \/ \E retryable \in BOOLEAN : Again(retryable)
  BY DEF FinalizeAnswer
<1>4. \A s \in Sessions : status[s] = "stored" => status'[s] = "stored"
  BY <1>2, <1>3
<1>5. \A s \in Sessions : status'[s] = "stored" => s[1] = prepared
  BY <1>2, <1>3 DEF IInv, ResultsAreStored, Current
<1>6. \A f \in Files : f < file => status'[<<prepared, f>>] = "stored"
  BY <1>1, <1>4 DEF IInv, StoredSoFar, Sessions
<1>7. executed => status'[<<prepared, file>>] = "stored"
  BY <1>2, <1>3 DEF Current
<1>8. SmallIsOnePart'
  BY <1>1 DEF IInv, SmallIsOnePart
<1>9. CASE executed /\ file < FileCount /\ AtFile(file + 1) /\ UNCHANGED prepared
  <2>1. file + 1 \in Files
    BY <1>1, <1>9, GoClientAssumption DEF Files
  <2>2. file' = file + 1
    BY <1>9, <2>1, AtFileFacts DEF IInv
  <2>3. StoredSoFar'
    <3> SUFFICES ASSUME NEW f \in Files, f < file'
                 PROVE  status'[<<prepared, f>>] = "stored"
      BY <1>9 DEF StoredSoFar
    <3>1. f < file \/ f = file
      BY <1>1, <2>2 DEF Files
    <3> QED
      BY <1>6, <1>7, <1>9, <3>1
  <2> QED
    BY <1>1, <1>5, <1>9, <2>1, <2>3, AtFileKeeps
<1>10. CASE executed /\ ~(file < FileCount) /\ Turn("done") /\ UNCHANGED <<file, prepared, poolVars>>
  <2>1. at' = "done"
    BY <1>10, TurnFacts
  <2>2. \A f \in Files : f < file \/ f = file
    BY <1>1, <1>10, GoClientAssumption DEF Files
  <2>3. ResultsAreStored'
    BY <1>5, <1>6, <1>7, <1>10, <2>2 DEF ResultsAreStored
  <2>4. HasSessions' /\ StoredSoFar' /\ FinalizeIsComplete' /\ FullProgress'
    BY <1>1, <1>10, <2>1 DEF HasSessions, StoredSoFar, FinalizeIsComplete, FullProgress
  <2>5. AllGone'
    BY <1>1, <1>10 DEF IInv, NothingLeftBehind, AllGone, poolVars
  <2> QED
    BY <1>1, <1>8, <2>1, <2>3, <2>4, <2>5, CallReduces
<1>11. CASE \E retryable \in BOOLEAN : Again(retryable)
  <2>1. at' \in {at, "failed"} /\ UNCHANGED <<file, prepared, worker, parts, reported>>
    BY <1>11, AgainFacts DEF IInv
  <2>2. Current' = Current
    BY <2>1 DEF Current
  <2>3. StoredSoFar' /\ FinalizeIsComplete' /\ ResultsAreStored'
    BY <1>1, <1>5, <1>6, <2>1, <2>2
       DEF IInv, StoredSoFar, FinalizeIsComplete, ResultsAreStored, PartsOf
  <2> QED
    BY <1>1, <1>8, <2>1, <2>3, RetryKeeps
<1> QED
  BY <1>3, <1>9, <1>10, <1>11

LEMMA JoinKeeps ==
  ASSUME IInv, Join
  PROVE  IInv'
<1>1. /\ Call /\ at = "upload" /\ AllGone /\ file \in Large /\ prepared \in 1..Attempts
      /\ UNCHANGED <<received, status>>
  BY DEF Call, Join, AllGone, IInv, HasSessions, serverVars
<1>2. SmallIsOnePart'
  BY <1>1 DEF IInv, SmallIsOnePart
<1>3. CASE failure /\ Fail
  <2>1. at' = "failed" /\ AllGone' /\ UNCHANGED <<file, prepared>>
    BY <1>1, <1>3 DEF Fail, AllGone, poolVars
  <2>2. /\ HasSessions' /\ StoredSoFar' /\ FinalizeIsComplete' /\ FullProgress'
        /\ ResultsAreStored'
    BY <1>1, <2>1 DEF IInv, HasSessions, StoredSoFar, FinalizeIsComplete, FullProgress,
                      ResultsAreStored
  <2> QED
    BY <1>1, <1>2, <2>1, <2>2, CallReduces
<1>4. CASE ~failure /\ Turn("finalize") /\ UNCHANGED <<file, prepared, poolVars>>
  <2>1. /\ at' = "finalize" /\ AllGone' /\ Current' = Current
        /\ UNCHANGED <<file, prepared, parts, reported>>
    BY <1>1, <1>4, TurnFacts DEF AllGone, Current, poolVars
  <2>2. Current \in Sessions
    BY <1>1 DEF IInv, TypeOK, Current, Sessions
  <2>3. cursor = PartCount
    <3>1. 1 \in Workers /\ 1 <= PartCount
      BY GoClientAssumption DEF Workers
    <3> QED
      BY <1>1, <1>4, <3>1 DEF IInv, NoPartLost, AllGone
  <2>4. parts = 1..PartCount /\ received[Current] = 1..PartCount
    <3>1. 1..PartCount \subseteq parts
      BY <1>1, <1>4, <2>3 DEF IInv, NoPartLost, AllGone, Holds
    <3>2. parts \subseteq received[Current] /\ received[Current] \subseteq 1..PartCount
      BY <1>1, <2>2 DEF IInv, NoPartLost, TypeOK
    <3> QED
      BY <3>1, <3>2
  <2>5. FinalizeIsComplete'
    BY <1>1, <2>1, <2>4 DEF FinalizeIsComplete, PartsOf
  <2>6. FullProgress'
    <3>1. PartCount \in reported
      BY <1>1, <2>4 DEF IInv, LastOneCounts, AllGone
    <3>2. Cardinality(1..PartCount) = PartCount
      BY PartsCounted, GoClientAssumption
    <3> QED
      BY <1>1, <2>1, <3>1, <3>2 DEF FullProgress, PartsOf
  <2>7. HasSessions' /\ StoredSoFar' /\ ResultsAreStored'
    BY <1>1, <2>1 DEF IInv, HasSessions, StoredSoFar, ResultsAreStored
  <2>8. at' # "upload"
    BY <2>1
  <2> QED
    BY <1>1, <1>2, <2>1, <2>5, <2>6, <2>7, <2>8, CallReduces
<1> QED
  BY <1>3, <1>4 DEF Join

-----------------------------------------------------------------------------
(***************************************************************************)
(* The theorems                                                            *)
(***************************************************************************)
LEMMA InvariantInit == Init => IInv
<1> SUFFICES ASSUME Init PROVE IInv
  OBVIOUS
<1>1. TypeOK
  BY TypeInit
<1>2. at = "prepare" /\ AllGone
  BY DEF Init, AllGone, Gone
<1>3. SmallIsOnePart /\ ResultsAreStored
  BY <1>2 DEF Init, SmallIsOnePart, ResultsAreStored
<1> QED
  BY <1>1, <1>2, <1>3 DEF Init, IInv, HasSessions, HeldIsTaken, Holds, NoPartLost,
     LastOneCounts, StoredSoFar, NothingLeftBehind, FinalizeIsComplete, FullProgress, AllGone

LEMMA InvariantStep ==
  ASSUME IInv, [Next]_vars
  PROVE  IInv'
<1>1. CASE Call
  BY <1>1, AskKeeps, PrepareAnswerKeeps, PutAnswerKeeps, FinalizeAnswerKeeps, JoinKeeps DEF Call
<1>2. CASE \E w \in Workers : Work(w)
  BY <1>2, WorkKeeps
<1>3. CASE Cancel \/ UNCHANGED vars
  <2>1. UNCHANGED <<callVars, poolVars, serverVars>>
    BY <1>3 DEF Cancel, vars
  <2>2. TypeOK'
    BY TypeStep DEF IInv
  <2> QED
    BY <2>1, <2>2 DEF IInv, HasSessions, HeldIsTaken, Holds, NoPartLost, SmallIsOnePart,
       LastOneCounts, StoredSoFar, NothingLeftBehind, FinalizeIsComplete, FullProgress,
       ResultsAreStored, Current, PartsOf, callVars, poolVars, serverVars
<1> QED
  BY <1>1, <1>2, <1>3 DEF Next

(* The invariant holds, and with it the types.                             *)
THEOREM Invariance == Spec => []IInv
<1>1. Init => IInv
  BY InvariantInit
<1>2. IInv /\ [Next]_vars => IInv'
  BY InvariantStep
<1> QED
  BY <1>1, <1>2, PTL DEF Spec

(* The client finalizes complete files only.                               *)
THEOREM FinalizesCompleteFiles == Spec => []FinalizeIsComplete
<1>1. IInv => FinalizeIsComplete
  BY DEF IInv
<1> QED
  BY <1>1, Invariance, PTL

(* No goroutine outlives the file it works for.                            *)
THEOREM GoroutinesAreJoined == Spec => []NothingLeftBehind
<1>1. IInv => NothingLeftBehind
  BY DEF IInv
<1> QED
  BY <1>1, Invariance, PTL

(* Success means that every file is stored, in the sessions of one prepare. *)
THEOREM SuccessMeansStored == Spec => []ResultsAreStored
<1>1. IInv => ResultsAreStored
  BY DEF IInv
<1> QED
  BY <1>1, Invariance, PTL

(* The application has heard of the last part before a file is finalized.  *)
THEOREM ProgressIsCompleted == Spec => []FullProgress
<1>1. IInv => FullProgress
  BY DEF IInv
<1> QED
  BY <1>1, Invariance, PTL


-----------------------------------------------------------------------------
(***************************************************************************)
(* What the application sees of a step.                                    *)
(***************************************************************************)
Stage == IF at = "done" THEN "done" ELSE IF Working THEN "working" ELSE "idle"
Entries == [f \in Files |-> IF Working \/ at = "done" THEN <<prepared, f>> ELSE NoSession]
Confirmed == IF at = "done" THEN FileCount ELSE IF Working THEN file - 1 ELSE 0
StoredSessions == {s \in Sessions : status[s] = "stored"}

LEMMA AsContract ==
  /\ [Contract!Next]_(Contract!clientVars) <=>
       \/ Contract!Next
       \/ UNCHANGED <<Stage, Entries, Confirmed, StoredSessions>>
  /\ Contract!Init <=> /\ Stage = "idle" /\ Confirmed = 0 /\ StoredSessions = {}
                       /\ Entries = [f \in Files |-> NoSession]
BY DEF Contract!Next, Contract!clientVars, Contract!Init, Contract!NoEntries, Contract!Files,
       Files, Stage, Entries, Confirmed, StoredSessions

LEMMA ContractInit == Init => Contract!Init
<1> SUFFICES ASSUME Init PROVE Contract!Init
  OBVIOUS
<1>1. at = "prepare" /\ \A s \in Sessions : status[s] = "none"
  BY DEF Init
<1> QED
  BY <1>1, AsContract DEF Stage, Entries, Confirmed, StoredSessions, Working

(* Nothing that the application sees.                                      *)
LEMMA SeesNothing ==
  ASSUME UNCHANGED <<at, file, prepared, status>>
  PROVE  [Contract!Next]_(Contract!clientVars)
  BY AsContract DEF Stage, Entries, Confirmed, StoredSessions, Working

(* While the call works its files have sessions of the answered prepare.   *)
LEMMA WorkingFacts ==
  ASSUME IInv, Working
  PROVE  /\ Stage = "working" /\ Confirmed + 1 = file
         /\ Entries[file] = Current /\ Current \in Sessions
         /\ file \in Files /\ prepared \in 1..Attempts
<1>1. file \in Files /\ prepared \in 1..Attempts
  BY DEF IInv, TypeOK, HasSessions, Working
<1>2. Entries[file] = Current /\ Current \in Sessions
  BY <1>1 DEF Entries, Current, Sessions
<1>3. Stage = "working" /\ Confirmed = file - 1
  BY DEF Stage, Confirmed, Working
<1> QED
  BY <1>1, <1>2, <1>3 DEF Files

(* The current file is stored, or none, and the call goes on with it or    *)
(* fails.                                                                  *)
LEMMA WorksOrGivesUp ==
  ASSUME IInv, Working, Working' \/ at' = "failed",
         UNCHANGED <<file, prepared>>,
         StoredSessions' \in {StoredSessions, StoredSessions \cup {Current}}
  PROVE  Contract!Next
<1>1. /\ Stage = "working" /\ Confirmed + 1 = file /\ Entries[file] = Current
  BY WorkingFacts
<1>2. Contract!OnlyCurrentStored
  BY <1>1 DEF Contract!OnlyCurrentStored, Stage, Entries, Confirmed, StoredSessions
<1>3. CASE Working'
  <2>1. /\ Stage' = Stage /\ Entries' = Entries /\ Confirmed' = Confirmed
    BY <1>3 DEF Stage, Entries, Confirmed, Working
  <2>2. Contract!Store
    BY <1>1, <1>2, <2>1 DEF Contract!Store, Stage, Entries, Confirmed, StoredSessions
  <2> QED
    BY <2>2 DEF Contract!Next
<1>4. CASE at' = "failed"
  <2>1. Stage' = "idle" /\ Entries' = [f \in Files |-> NoSession] /\ Confirmed' = 0
    BY <1>4 DEF Stage, Entries, Confirmed, Working
  <2>2. Contract!GiveUp
    BY <1>1, <1>2, <2>1
       DEF Contract!GiveUp, Contract!NoEntries, Contract!Files, Files, Stage, Entries,
           Confirmed, StoredSessions
  <2> QED
    BY <2>2 DEF Contract!Next
<1> QED
  BY <1>3, <1>4

(* A request of the call has failed, and it tries again or gives up.       *)
LEMMA AgainAllowed ==
  ASSUME IInv, at # "done", at' \in {at, "failed"}, UNCHANGED <<file, prepared>>,
         \/ StoredSessions' = StoredSessions
         \/ Working /\ StoredSessions' = StoredSessions \cup {Current}
  PROVE  [Contract!Next]_(Contract!clientVars)
<1>1. at' \in {at, "failed"} /\ UNCHANGED <<file, prepared>>
  OBVIOUS
<1>2. CASE Working
  <2>1. Working' \/ at' = "failed"
    BY <1>1, <1>2 DEF Working
  <2> QED
    BY <1>1, <1>2, <2>1, WorksOrGivesUp
<1>3. CASE ~Working
  <2>1. ~Working' /\ at' # "done"
    BY <1>1, <1>3 DEF Working
  <2> QED
    BY <1>1, <1>3, <2>1, AsContract DEF Stage, Entries, Confirmed
<1> QED
  BY <1>2, <1>3

LEMMA PrepareAllowed ==
  ASSUME IInv, PrepareAnswer
  PROVE  [Contract!Next]_(Contract!clientVars)
<1>1. PICK n \in 0..FileCount :
        /\ status' = [s \in Sessions |->
                        IF s[1] = tries /\ s[2] <= n THEN "open" ELSE status[s]]
        /\ \/ n = FileCount /\ prepared' = tries /\ AtFile(1)
           \/ \E retryable \in BOOLEAN : Again(retryable)
  BY DEF PrepareAnswer
<1>2. at = "prepare" /\ prepared = 0 /\ tries \in 1..Attempts
  BY DEF PrepareAnswer, IInv, HasSessions, TypeOK
<1>3. StoredSessions = {} /\ StoredSessions' = {}
  <2>1. \A s \in Sessions : s[1] # 0 /\ status[s] # "stored"
    BY <1>2 DEF IInv, ResultsAreStored, Sessions
  <2> QED
    BY <1>1, <2>1 DEF StoredSessions
<1>4. CASE prepared' = tries /\ AtFile(1)
  <2>1. 1 \in Files
    BY GoClientAssumption DEF Files
  <2>2. file' = 1 /\ at' \in {"put", "upload"}
    BY <1>4, <2>1, AtFileFacts DEF IInv
  <2>3. /\ Stage = "idle" /\ Stage' = "working" /\ Confirmed' = 0
        /\ Entries' = [f \in Files |-> <<tries, f>>]
    BY <1>2, <1>4, <2>2 DEF Stage, Entries, Confirmed, Working
  <2>4. /\ Entries' \in [Files -> Sessions]
        /\ \A f, g \in Files : Entries'[f] = Entries'[g] => f = g
    BY <1>2, <2>3 DEF Sessions
  <2>5. Contract!Start
    BY <1>3, <2>3, <2>4
       DEF Contract!Start, Contract!Files, Files, Stage, Entries, Confirmed, StoredSessions
  <2> QED
    BY <2>5 DEF Contract!Next
<1>5. ASSUME NEW retryable \in BOOLEAN, Again(retryable)
      PROVE  [Contract!Next]_(Contract!clientVars)
  <2>1. at # "done" /\ StoredSessions' = StoredSessions
    BY <1>2, <1>3
  <2>2. at' \in {at, "failed"} /\ UNCHANGED <<file, prepared>>
    BY <1>5, AgainFacts DEF IInv
  <2> QED
    BY <2>1, <2>2, AgainAllowed
<1> QED
  BY <1>1, <1>4, <1>5

LEMMA PutAllowed ==
  ASSUME IInv, PutAnswer
  PROVE  [Contract!Next]_(Contract!clientVars)
<1>1. at = "put" /\ UNCHANGED status
      /\ \/ Turn("finalize") /\ UNCHANGED <<file, prepared>>
         \/ Again(TRUE)
  BY DEF PutAnswer
<1>2. StoredSessions' = StoredSessions /\ Working
  BY <1>1 DEF StoredSessions, Working
<1>3. CASE Turn("finalize") /\ UNCHANGED <<file, prepared>>
  BY <1>2, <1>3, WorksOrGivesUp DEF Turn, Working
<1>4. CASE Again(TRUE)
  <2>1. at # "done"
    BY <1>1
  <2>2. at' \in {at, "failed"} /\ UNCHANGED <<file, prepared>>
    BY <1>4, AgainFacts DEF IInv
  <2> QED
    BY <1>2, <2>1, <2>2, AgainAllowed
<1> QED
  BY <1>1, <1>3, <1>4

(* The finalize may have been executed, whatever the call is told.         *)
LEMMA FinalizeAllowed ==
  ASSUME IInv, FinalizeAnswer
  PROVE  [Contract!Next]_(Contract!clientVars)
<1>1. PICK executed \in BOOLEAN :
        /\ status' = IF executed THEN [status EXCEPT ![Current] = Finalized] ELSE status
        /\ \/ /\ executed /\ Finalized = "stored"
              /\ IF file < FileCount
                 THEN AtFile(file + 1) /\ UNCHANGED prepared
                 ELSE Turn("done") /\ UNCHANGED <<file, prepared, poolVars>>
           \/ \E retryable \in BOOLEAN : Again(retryable)
  BY DEF FinalizeAnswer
<1>2. at = "finalize" /\ Working
  BY DEF FinalizeAnswer, Working
<1>3. /\ Stage = "working" /\ Confirmed + 1 = file /\ Entries[file] = Current
      /\ Current \in Sessions /\ file \in Files /\ prepared \in 1..Attempts
  BY <1>2, WorkingFacts
<1>4. Finalized = "stored"
  BY <1>2 DEF IInv, FinalizeIsComplete, Finalized
<1>5. StoredSessions' = IF executed THEN StoredSessions \cup {Current} ELSE StoredSessions
  BY <1>1, <1>3, <1>4 DEF StoredSessions, IInv, TypeOK
<1>6. ASSUME NEW retryable \in BOOLEAN, Again(retryable)
      PROVE  [Contract!Next]_(Contract!clientVars)
  <2>1. at # "done"
    BY <1>2
  <2>2. \/ StoredSessions' = StoredSessions
        \/ Working /\ StoredSessions' = StoredSessions \cup {Current}
    BY <1>2, <1>5
  <2>3. at' \in {at, "failed"} /\ UNCHANGED <<file, prepared>>
    BY <1>6, AgainFacts DEF IInv
  <2> QED
    BY <2>1, <2>2, <2>3, AgainAllowed
<1>7. CASE /\ executed
           /\ IF file < FileCount
              THEN AtFile(file + 1) /\ UNCHANGED prepared
              ELSE Turn("done") /\ UNCHANGED <<file, prepared, poolVars>>
  <2>1. /\ Contract!OnlyCurrentStored /\ Entries[file] \in StoredSessions'
    BY <1>3, <1>5, <1>7
       DEF Contract!OnlyCurrentStored, Stage, Entries, Confirmed, StoredSessions
  <2>2. /\ Entries' = Entries /\ Confirmed' = Confirmed + 1
        /\ Stage' = IF Confirmed' = FileCount THEN "done" ELSE "working"
    <3>1. CASE file < FileCount
      <4>1. file + 1 \in Files
        BY <1>3, <3>1, GoClientAssumption DEF Files
      <4>2. file' = file + 1 /\ at' \in {"put", "upload"} /\ prepared' = prepared
        BY <1>7, <3>1, <4>1, AtFileFacts DEF IInv
      <4>3. Confirmed' = file /\ Stage' = "working" /\ Entries' = Entries
        BY <1>2, <1>3, <4>2 DEF Stage, Entries, Confirmed, Working, Files
      <4>4. file \in Int /\ file # FileCount /\ Confirmed = file - 1
        BY <1>2, <1>3, <3>1, GoClientAssumption DEF Files, Confirmed, Working
      <4> HIDE DEF Confirmed, Stage, Entries
      <4> QED
        BY <4>3, <4>4
    <3>2. CASE ~(file < FileCount)
      <4>1. file = FileCount
        BY <1>3, <3>2, GoClientAssumption DEF Files
      <4>2. at' = "done" /\ prepared' = prepared
        BY <1>7, <3>2 DEF Turn
      <4> QED
        BY <1>2, <1>3, <4>1, <4>2 DEF Stage, Entries, Confirmed, Working
    <3> QED
      BY <3>1, <3>2
  <2>3. Contract!Confirm
    BY <1>3, <2>1, <2>2
       DEF Contract!Confirm, Stage, Entries, Confirmed, StoredSessions
  <2> QED
    BY <2>3 DEF Contract!Next
<1> QED
  BY <1>1, <1>6, <1>7

LEMMA ContractStep ==
  ASSUME IInv, [Next]_vars
  PROVE  [Contract!Next]_(Contract!clientVars)
<1>1. CASE Ask
  <2>1. /\ at \in {"prepare", "put", "finalize"} /\ at' \in {at, "failed"}
        /\ UNCHANGED <<file, prepared, status>>
    BY <1>1 DEF Ask, Fail, serverVars
  <2>2. StoredSessions' = StoredSessions
    BY <2>1 DEF StoredSessions
  <2>3. CASE Working
    BY <2>1, <2>2, <2>3, WorksOrGivesUp DEF Working
  <2>4. CASE ~Working
    <3>1. ~Working' /\ at # "done" /\ at' # "done"
      BY <2>1, <2>4 DEF Working
    <3> QED
      BY <2>2, <2>4, <3>1, AsContract DEF Stage, Entries, Confirmed
  <2> QED
    BY <2>3, <2>4
<1>2. CASE Join
  <2>1. /\ at = "upload" /\ at' \in {"finalize", "failed"}
        /\ UNCHANGED <<file, prepared, status>>
    BY <1>2 DEF Join, Fail, Turn, serverVars
  <2> QED
    BY <2>1, WorksOrGivesUp DEF Working, StoredSessions
<1>3. CASE Cancel \/ \E w \in Workers : Work(w)
  <2>1. UNCHANGED <<at, file, prepared, status>>
    BY <1>3, WorkFrame DEF Cancel, callVars, serverVars
  <2> QED
    BY <2>1, SeesNothing
<1>4. CASE UNCHANGED vars
  BY <1>4, SeesNothing DEF vars, callVars, serverVars
<1> QED
  BY <1>1, <1>2, <1>3, <1>4, PrepareAllowed, PutAllowed, FinalizeAllowed DEF Next, Call

(* The call with its goroutines, retries and lost answers is one that      *)
(* works through its files one by one, and stores no others.               *)
THEOREM ClientContractKept == Spec => KeepsClientContract
<1>1. IInv /\ [Next]_vars => [Contract!Next]_(Contract!clientVars)
  BY ContractStep
<1> QED
  BY <1>1, ContractInit, Invariance, PTL DEF Spec, KeepsClientContract, Contract!Spec

=============================================================================
