------------------------- MODULE Preparation_proofs -------------------------
(***************************************************************************)
(* Proofs about FileRules and Preparation, for all rules, files and        *)
(* settings.  First the loop over the files: both SDKs accept exactly the  *)
(* batches that keep the rules as a whole, and with ordinary rules give    *)
(* the same answer.  Then the plan, a function of the request, which does  *)
(* not change: what remains is arithmetic about days and parts, and a      *)
(* comparison of the two SDKs.                                             *)
(***************************************************************************)
EXTENDS Preparation, TLAPS, FiniteSetTheorems

(* What the assumption says of a batch and of the route's rules.           *)
LEMMA TypedFiles ==
  ASSUME TypeOK
  PROVE  /\ files \in Seq(File) /\ Len(files) \in Nat
         /\ \A i \in 1..Len(files) : files[i] \in File
         /\ \A f \in File : KeyOf(f.type) \in Keys
         /\ \A f \in File : HasRule(f) => RuleOf(f) \in Rule
<1>1. files \in Seq(File) /\ rules \in RuleSets
  BY RulesAssumption DEF TypeOK
<1>2. DOMAIN rules \subseteq Keys /\ rules \in [DOMAIN rules -> Rule]
  BY <1>1, RulesAssumption
<1>3. Len(files) \in Nat /\ \A i \in 1..Len(files) : files[i] \in File
  BY <1>1
<1>4. \A f \in File : KeyOf(f.type) \in Keys
  BY <1>2, RulesAssumption DEF File, KeyOf
<1>5. \A f \in File : HasRule(f) => RuleOf(f) \in Rule
  BY <1>2 DEF HasRule, RuleOf
<1> QED
  BY <1>1, <1>3, <1>4, <1>5

LEMMA LimitsAreNumbers ==
  ASSUME NEW s \in Sdks, NEW rule \in Rule
  PROVE  CountLimit(s, rule) \in Int
BY DEF CountLimit, Rule

(* A batch that is refused at once does not keep the rules.                *)
LEMMA RefusedBatches ==
  ASSUME files \in Seq(File), NEW s \in Sdks, RefusedAtOnce(s)
  PROVE  files = <<>> \/ ~Allowed(s, Len(files))
BY DEF RefusedAtOnce, Allowed, Fits, SizeRefused, Largest

(* How many of the first files use a rule.                                 *)
LEMMA UsesCounted ==
  ASSUME NEW k, NEW n \in Nat
  PROVE  /\ IsFiniteSet(UsesOf(k, n)) /\ Cardinality(UsesOf(k, n)) \in Nat
         /\ Cardinality(UsesOf(k, n + 1))
              = Cardinality(UsesOf(k, n)) + (IF KeyOf(files[n + 1].type) = k THEN 1 ELSE 0)
<1>1. IsFiniteSet(1..n)
  BY FS_Interval
<1>2. IsFiniteSet(UsesOf(k, n))
  BY <1>1, FS_Subset DEF UsesOf
<1>3. Cardinality(UsesOf(k, n)) \in Nat
  BY <1>2, FS_CardinalityType
<1>4. n + 1 \notin UsesOf(k, n)
  BY DEF UsesOf
<1>5. 1..(n + 1) = (1..n) \cup {n + 1}
  OBVIOUS
<1>6. CASE KeyOf(files[n + 1].type) = k
  <2>1. UsesOf(k, n + 1) = UsesOf(k, n) \cup {n + 1}
    BY <1>5, <1>6 DEF UsesOf
  <2>2. Cardinality(UsesOf(k, n) \cup {n + 1}) = Cardinality(UsesOf(k, n)) + 1
    BY <1>2, <1>4, FS_AddElement
  <2> QED
    BY <1>2, <1>3, <1>6, <2>1, <2>2
<1>7. CASE KeyOf(files[n + 1].type) # k
  <2>1. UsesOf(k, n + 1) = UsesOf(k, n)
    BY <1>5, <1>7 DEF UsesOf
  <2> QED
    BY <1>2, <1>3, <1>7, <2>1
<1> QED
  BY <1>6, <1>7

(* Uses only grow along a batch.                                           *)
LEMMA UsesGrow ==
  ASSUME NEW k, NEW m \in Nat, NEW n \in Nat, m <= n
  PROVE  Cardinality(UsesOf(k, m)) <= Cardinality(UsesOf(k, n))
<1>1. UsesOf(k, m) \subseteq UsesOf(k, n)
  BY DEF UsesOf
<1>2. IsFiniteSet(UsesOf(k, n))
  BY UsesCounted
<1> QED
  BY <1>1, <1>2, FS_Subset

(* What a file without a complaint has passed, and one with it has not.    *)
LEMMA ComplaintFacts ==
  ASSUME NEW s \in Sdks, NEW f, f = files[next[s]], f \in File,
         HasRule(f) => RuleOf(f) \in Rule
  PROVE  /\ Complaint(s) \in {"none", "BAD_REQUEST", "INVALID_TYPE", "TOO_LARGE"}
         /\ Complaint(s) = "none" =>
              Fits(s, f) /\ ~(counts[s][KeyOf(f.type)] + 1 > CountLimit(s, RuleOf(f)))
         /\ Complaint(s) # "none" =>
              ~Fits(s, f) \/ counts[s][KeyOf(f.type)] + 1 > CountLimit(s, RuleOf(f))
<1>1. f.size \in Int
  BY DEF File
<1>3. HasRule(f) => (f.size > RuleOf(f).maxSize <=> ~(f.size <= RuleOf(f).maxSize))
  BY <1>1 DEF Rule
<1> QED
  BY <1>1, <1>3 DEF Complaint, Objection, Fits

-----------------------------------------------------------------------------
LEMMA InvariantInit == Init => IInv
<1> SUFFICES ASSUME Init PROVE IInv
  OBVIOUS
<1>1. files \in Seq(File)
  BY RulesAssumption DEF Init
<1>2. TypeOK
  BY <1>1 DEF Init, TypeOK
<1>3. \A k : UsesOf(k, 0) = {}
  BY DEF UsesOf
<1>4. \A s \in Sdks : next[s] = 1
  BY DEF Init
<1>5. CountsAreRight
  <2>1. Cardinality({}) = 0
    BY FS_EmptySet
  <2> QED
    <3> SUFFICES ASSUME NEW s \in Sdks, NEW k \in Keys
                 PROVE  counts[s][k] = Cardinality(UsesOf(k, next[s] - 1))
      BY DEF CountsAreRight
    <3>1. next[s] - 1 = 0
      BY <1>4
    <3>2. counts[s][k] = 0
      BY DEF Init
    <3>3. UsesOf(k, next[s] - 1) = {}
      BY <1>3, <3>1
    <3> QED
      BY <2>1, <3>2, <3>3
<1>6. PrefixAllowed
  BY <1>4 DEF PrefixAllowed, Allowed
<1>7. \A s \in Sdks : /\ verdict[s] = "checking" => next[s] <= Len(files)
                      /\ verdict[s] # "accepted"
                      /\ verdict[s] # "checking" => RefusedAtOnce(s)
  <2>1. files # <<>> => Len(files) >= 1
    BY <1>1
  <2>2. \A s \in Sdks : verdict[s] = IF RefusedAtOnce(s) THEN "BAD_REQUEST" ELSE "checking"
    BY DEF Init
  <2>3. \A s \in Sdks : ~RefusedAtOnce(s) => files # <<>>
    BY DEF RefusedAtOnce
  <2> QED
    BY <1>1, <1>4, <2>1, <2>2, <2>3
<1>8. VerdictIsRight
  BY <1>1, <1>7, RefusedBatches DEF VerdictIsRight
<1> QED
  BY <1>2, <1>5, <1>6, <1>7, <1>8 DEF IInv, LoopEnds

(* A refusal leaves everything but the verdict, and the batch is not       *)
(* allowed: the file at hand does not fit, or is one too many.             *)
LEMMA RefuseKeeps ==
  ASSUME IInv, NEW s \in Sdks, RefuseFile(s)
  PROVE  IInv'
<1> DEFINE f == files[next[s]]
<1>1. /\ verdict[s] = "checking" /\ next[s] \in 1..Len(files) /\ f \in File
      /\ HasRule(f) => RuleOf(f) \in Rule
      /\ Len(files) \in Nat
  <2>1. verdict[s] = "checking"
    BY DEF RefuseFile
  <2>2. /\ Len(files) \in Nat /\ \A i \in 1..Len(files) : files[i] \in File
        /\ \A g \in File : KeyOf(g.type) \in Keys
        /\ \A g \in File : HasRule(g) => RuleOf(g) \in Rule
    BY TypedFiles DEF IInv
  <2>3. next[s] \in 1..Len(files)
    BY <2>1, <2>2 DEF IInv, TypeOK, LoopEnds
  <2> QED
    BY <2>1, <2>2, <2>3
<1>2. /\ Complaint(s) \in {"BAD_REQUEST", "INVALID_TYPE", "TOO_LARGE"}
      /\ ~Fits(s, f) \/ counts[s][KeyOf(f.type)] + 1 > CountLimit(s, RuleOf(f))
  BY <1>1, ComplaintFacts DEF RefuseFile
<1>3. ~Allowed(s, Len(files))
  <2>1. CASE ~Fits(s, f)
    BY <1>1, <2>1 DEF Allowed
  <2>2. CASE Fits(s, f) /\ counts[s][KeyOf(f.type)] + 1 > CountLimit(s, RuleOf(f))
    <3> DEFINE k == KeyOf(f.type)
    <3>1. k \in Keys /\ CountLimit(s, RuleOf(f)) \in Int
      BY <1>1, <2>2, TypedFiles, LimitsAreNumbers DEF IInv, Fits
    <3>2. next[s] - 1 \in Nat /\ (next[s] - 1) + 1 = next[s]
      BY <1>1
    <3>3. counts[s][k] = Cardinality(UsesOf(k, next[s] - 1))
      BY <3>1 DEF IInv, CountsAreRight
    <3>4. Cardinality(UsesOf(k, next[s])) = counts[s][k] + 1
      BY <3>2, <3>3, UsesCounted
    <3>5. Cardinality(UsesOf(k, next[s])) <= Cardinality(UsesOf(k, Len(files)))
      BY <1>1, UsesGrow
    <3>6. Cardinality(UsesOf(k, Len(files))) \in Nat
      BY <1>1, UsesCounted
    <3>7. counts[s][k] \in Nat
      BY <3>1 DEF IInv, TypeOK
    <3>8. ~(Cardinality(UsesOf(k, Len(files))) <= CountLimit(s, RuleOf(f)))
      BY <2>2, <3>1, <3>4, <3>5, <3>6, <3>7
    <3> QED
      BY <1>1, <3>8 DEF Allowed
  <2> QED
    BY <1>2, <2>1, <2>2
<1>4. UNCHANGED <<rules, files, next, counts>>
  BY DEF RefuseFile
<1>5. /\ verdict' \in [Sdks -> {"checking", "accepted", "BAD_REQUEST", "INVALID_TYPE", "TOO_LARGE"}]
      /\ verdict'[s] = Complaint(s)
      /\ \A t \in Sdks : t # s => verdict'[t] = verdict[t]
  BY <1>2 DEF RefuseFile, IInv, TypeOK
<1>6. \A t \in Sdks : \A n : Allowed(t, n)' = Allowed(t, n)
  BY <1>4 DEF Allowed, Fits, HasRule, RuleOf, KeyOf, UsesOf
<1>7. TypeOK' /\ CountsAreRight' /\ PrefixAllowed'
  <2>1. TypeOK'
    BY <1>4, <1>5 DEF IInv, TypeOK
  <2>2. \A k, n : UsesOf(k, n)' = UsesOf(k, n)
    BY <1>4 DEF UsesOf, KeyOf
  <2>3. CountsAreRight'
    BY <1>4, <2>2 DEF IInv, CountsAreRight
  <2>4. PrefixAllowed'
    BY <1>4, <1>6 DEF IInv, PrefixAllowed
  <2> QED
    BY <2>1, <2>3, <2>4
<1>8. VerdictIsRight'
  BY <1>2, <1>3, <1>4, <1>5, <1>6 DEF IInv, VerdictIsRight
<1> QED
  BY <1>2, <1>4, <1>5, <1>7, <1>8 DEF IInv, LoopEnds

(* An accepted file fits, and its rule had room for it.                    *)
LEMMA AcceptKeeps ==
  ASSUME IInv, NEW s \in Sdks, AcceptFile(s)
  PROVE  IInv'
<1> DEFINE n == next[s]
           f == files[n]
           k == KeyOf(f.type)
<1>1. /\ verdict[s] = "checking" /\ n \in 1..Len(files) /\ f \in File
      /\ HasRule(f) => RuleOf(f) \in Rule
      /\ Len(files) \in Nat /\ k \in Keys
  <2>1. verdict[s] = "checking"
    BY DEF AcceptFile
  <2>2. /\ Len(files) \in Nat /\ \A i \in 1..Len(files) : files[i] \in File
        /\ \A g \in File : KeyOf(g.type) \in Keys
        /\ \A g \in File : HasRule(g) => RuleOf(g) \in Rule
    BY TypedFiles DEF IInv
  <2>3. next[s] \in 1..Len(files)
    BY <2>1, <2>2 DEF IInv, TypeOK, LoopEnds
  <2> QED
    BY <2>1, <2>2, <2>3
<1>2. Fits(s, f) /\ ~(counts[s][k] + 1 > CountLimit(s, RuleOf(f)))
  BY <1>1, ComplaintFacts DEF AcceptFile
<1>3. /\ UNCHANGED <<rules, files>>
      /\ next' = [next EXCEPT ![s] = @ + 1]
      /\ counts' = [counts EXCEPT ![s][k] = @ + 1]
      /\ verdict' = [verdict EXCEPT ![s] = IF n = Len(files) THEN "accepted" ELSE "checking"]
  BY DEF AcceptFile
<1>4. TypeOK
  BY DEF IInv
<1>5. TypeOK'
  <2>1. n + 1 \in 1..(Len(files) + 1)
    BY <1>1
  <2>2. next' \in [Sdks -> 1..(Len(files) + 1)]
    BY <1>3, <1>4, <2>1 DEF TypeOK
  <2>3. counts' \in [Sdks -> [Keys -> Nat]]
    BY <1>1, <1>3, <1>4 DEF TypeOK
  <2>4. verdict' \in [Sdks -> {"checking", "accepted", "BAD_REQUEST", "INVALID_TYPE", "TOO_LARGE"}]
    BY <1>3, <1>4 DEF TypeOK
  <2> QED
    BY <1>3, <1>4, <2>2, <2>3, <2>4 DEF TypeOK
<1>6. \A j, m : UsesOf(j, m)' = UsesOf(j, m)
  BY <1>3 DEF UsesOf, KeyOf
<1>7. \A t \in Sdks : \A m : Allowed(t, m)' = Allowed(t, m)
  BY <1>3 DEF Allowed, Fits, HasRule, RuleOf, KeyOf, UsesOf
<1>8. n - 1 \in Nat /\ (n - 1) + 1 = n /\ next'[s] - 1 = n
  BY <1>1, <1>3, <1>4 DEF TypeOK
<1>9. \A j \in Keys : Cardinality(UsesOf(j, n)) = counts[s][j] + (IF k = j THEN 1 ELSE 0)
  BY <1>8, UsesCounted DEF IInv, CountsAreRight
<1>10. CountsAreRight'
  <2> SUFFICES ASSUME NEW t \in Sdks, NEW j \in Keys
               PROVE  counts'[t][j] = Cardinality(UsesOf(j, next'[t] - 1))
    BY <1>6 DEF CountsAreRight
  <2>1. CASE t = s
    <3>1. counts'[s][j] = counts[s][j] + (IF k = j THEN 1 ELSE 0)
      BY <1>1, <1>3, <1>4 DEF TypeOK
    <3> QED
      BY <1>8, <1>9, <2>1, <3>1
  <2>2. CASE t # s
    <3>1. counts'[t] = counts[t] /\ next'[t] = next[t]
      BY <1>3, <1>4, <2>2 DEF TypeOK
    <3> QED
      BY <3>1 DEF IInv, CountsAreRight
  <2> QED
    BY <2>1, <2>2
<1>11. Allowed(s, n)
  <2>1. Allowed(s, n - 1)
    BY DEF IInv, PrefixAllowed
  <2>2. \A i \in 1..n : i \in 1..(n - 1) \/ i = n
    BY <1>1
  <2>3. \A i \in 1..n : Fits(s, files[i])
    BY <1>2, <2>1, <2>2 DEF Allowed
  <2>4. CountLimit(s, RuleOf(f)) \in Int /\ counts[s][k] \in Nat
    BY <1>1, <1>2, <1>4, LimitsAreNumbers DEF Fits, TypeOK
  <2>5. Cardinality(UsesOf(k, n)) <= CountLimit(s, RuleOf(f))
    BY <1>1, <1>2, <1>9, <2>4
  <2>6. ASSUME NEW i \in 1..n
        PROVE  Cardinality(UsesOf(KeyOf(files[i].type), n)) <= CountLimit(s, RuleOf(files[i]))
    <3>1. CASE KeyOf(files[i].type) = k
      BY <2>5, <3>1 DEF RuleOf
    <3>2. CASE KeyOf(files[i].type) # k
      <4>1. i \in 1..(n - 1)
        BY <2>2, <3>2
      <4>2. Cardinality(UsesOf(KeyOf(files[i].type), n - 1)) <= CountLimit(s, RuleOf(files[i]))
        BY <2>1, <4>1 DEF Allowed
      <4>3. Cardinality(UsesOf(KeyOf(files[i].type), n)) = Cardinality(UsesOf(KeyOf(files[i].type), n - 1)) + 0
        BY <1>8, <3>2, UsesCounted
      <4>4. Cardinality(UsesOf(KeyOf(files[i].type), n - 1)) \in Nat
        BY <1>8, UsesCounted
      <4> QED
        BY <4>2, <4>3, <4>4
    <3> QED
      BY <3>1, <3>2
  <2> QED
    BY <2>3, <2>6 DEF Allowed
<1>12. PrefixAllowed'
  <2> SUFFICES ASSUME NEW t \in Sdks PROVE Allowed(t, next'[t] - 1)
    BY <1>7 DEF PrefixAllowed
  <2>1. CASE t = s
    BY <1>8, <1>11, <2>1
  <2>2. CASE t # s
    BY <1>3, <1>4, <2>2 DEF TypeOK, IInv, PrefixAllowed
  <2> QED
    BY <2>1, <2>2
<1>13. ASSUME NEW t \in Sdks
       PROVE  /\ verdict'[t] = "checking" => next'[t] <= Len(files')
              /\ verdict'[t] = "accepted" => next'[t] = Len(files') + 1
  <2>1. CASE t = s
    BY <1>1, <1>3, <1>4, <2>1 DEF TypeOK
  <2>2. CASE t # s
    <3>1. verdict'[t] = verdict[t] /\ next'[t] = next[t] /\ files' = files
      BY <1>3, <1>4, <2>2 DEF TypeOK
    <3> QED
      BY <3>1 DEF IInv, LoopEnds
  <2> QED
    BY <2>1, <2>2
<1>14. VerdictIsRight'
  <2> SUFFICES ASSUME NEW t \in Sdks
               PROVE  /\ verdict'[t] = "accepted" => files # <<>> /\ Allowed(t, Len(files))
                      /\ verdict'[t] \notin {"checking", "accepted"}
                           => files = <<>> \/ ~Allowed(t, Len(files))
    BY <1>3, <1>7 DEF VerdictIsRight
  <2>1. CASE t = s
    <3>1. verdict'[s] = IF n = Len(files) THEN "accepted" ELSE "checking"
      BY <1>3, <1>4 DEF TypeOK
    <3>2. files # <<>>
      BY <1>1
    <3> QED
      BY <1>11, <2>1, <3>1, <3>2
  <2>2. CASE t # s
    BY <1>3, <1>4, <2>2 DEF TypeOK, IInv, VerdictIsRight
  <2> QED
    BY <2>1, <2>2
<1> QED
  BY <1>5, <1>10, <1>12, <1>13, <1>14 DEF IInv, LoopEnds

-----------------------------------------------------------------------------
(* The invariant holds, and with it the types.                             *)
THEOREM RulesInvariance == Spec => []IInv
<1>1. Init => IInv
  BY InvariantInit
<1>2. IInv /\ [Next]_vars => IInv'
  <2> SUFFICES ASSUME IInv, [Next]_vars PROVE IInv'
    OBVIOUS
  <2>1. CASE UNCHANGED vars
    <3>1. UNCHANGED <<rules, files, next, counts, verdict>>
      BY <2>1 DEF vars
    <3>2. \A k, n : UsesOf(k, n)' = UsesOf(k, n)
      BY <3>1 DEF UsesOf, KeyOf
    <3>3. \A s \in Sdks : \A n : Allowed(s, n)' = Allowed(s, n)
      BY <3>1 DEF Allowed, Fits, UsesOf, HasRule, RuleOf, KeyOf
    <3>4. TypeOK'
      BY <3>1 DEF IInv, TypeOK
    <3>5. CountsAreRight'
      BY <3>1, <3>2 DEF IInv, CountsAreRight
    <3>6. PrefixAllowed' /\ VerdictIsRight'
      BY <3>1, <3>3 DEF IInv, PrefixAllowed, VerdictIsRight
    <3> QED
      BY <3>1, <3>4, <3>5, <3>6 DEF IInv, LoopEnds
  <2> QED
    BY <2>1, RefuseKeeps, AcceptKeeps DEF Next
<1> QED
  BY <1>1, <1>2, PTL DEF Spec

(* Both SDKs accept exactly the batches that keep the rules.               *)
THEOREM AcceptsWhatIsAllowed == Spec => []VerdictIsRight
<1>1. IInv => VerdictIsRight
  BY DEF IInv
<1> QED
  BY <1>1, RulesInvariance, PTL

-----------------------------------------------------------------------------
(* A step of one SDK leaves what it has let through, and what it objected  *)
(* to is about the file it was at.                                         *)
LEMMA ObjectionsKept ==
  ASSUME UNCHANGED <<rules, files>>
  PROVE  \A s, i : ObjectionAt(s, i)' = ObjectionAt(s, i)
<1>1. \A k, n : UsesOf(k, n)' = UsesOf(k, n)
  BY DEF UsesOf, KeyOf
<1>2. \A f : KeyOf(f.type)' = KeyOf(f.type) /\ HasRule(f)' = HasRule(f) /\ RuleOf(f)' = RuleOf(f)
  BY DEF KeyOf, HasRule, RuleOf
<1> QED
  BY <1>1, <1>2
     DEF ObjectionAt, Objection, SizeRefused, LimitRefused, TypeAllowed, CountLimit

LEMMA ComplaintIsObjection ==
  ASSUME IInv, NEW s \in Sdks, verdict[s] = "checking"
  PROVE  /\ Complaint(s) = ObjectionAt(s, next[s])
         /\ next[s] \in 1..Len(files) /\ Len(files) \in Nat /\ files # <<>>
<1>1. /\ Len(files) \in Nat /\ \A i \in 1..Len(files) : files[i] \in File
      /\ \A g \in File : KeyOf(g.type) \in Keys
  BY TypedFiles DEF IInv
<1>2. next[s] \in 1..Len(files)
  BY <1>1 DEF IInv, TypeOK, LoopEnds
<1>3. KeyOf(files[next[s]].type) \in Keys
  BY <1>1, <1>2
<1>4. counts[s][KeyOf(files[next[s]].type)]
        = Cardinality(UsesOf(KeyOf(files[next[s]].type), next[s] - 1))
  BY <1>3 DEF IInv, CountsAreRight
<1> QED
  BY <1>1, <1>2, <1>4 DEF Complaint, ObjectionAt

LEMMA StopsInit == Init => StopsAtFirst
<1> SUFFICES ASSUME Init PROVE StopsAtFirst
  OBVIOUS
<1>1. \A s \in Sdks : /\ next[s] - 1 = 0
                     /\ verdict[s] = IF RefusedAtOnce(s) THEN "BAD_REQUEST" ELSE "checking"
  BY DEF Init
<1> QED
  BY <1>1 DEF StopsAtFirst

LEMMA StopsStep ==
  ASSUME IInv, StopsAtFirst, [Next]_vars
  PROVE  StopsAtFirst'
<1>1. UNCHANGED <<rules, files>>
  BY DEF Next, RefuseFile, AcceptFile, vars
<1>2. \A s, i : ObjectionAt(s, i)' = ObjectionAt(s, i)
  BY <1>1, ObjectionsKept
<1> SUFFICES ASSUME NEW s \in Sdks
             PROVE  /\ \A i \in 1..next'[s] - 1 : ObjectionAt(s, i) = "none"
                    /\ RefusedAtOnce(s) => verdict'[s] = "BAD_REQUEST"
                    /\ ~RefusedAtOnce(s) /\ verdict'[s] \notin {"checking", "accepted"} =>
                         /\ next'[s] <= Len(files)
                         /\ verdict'[s] = ObjectionAt(s, next'[s]) /\ verdict'[s] # "none"
  BY <1>1, <1>2 DEF StopsAtFirst, RefusedAtOnce
<1>3. /\ next \in [Sdks -> 1..Len(files) + 1] /\ DOMAIN verdict = Sdks
      /\ \A i \in 1..next[s] - 1 : ObjectionAt(s, i) = "none"
  BY DEF IInv, TypeOK, StopsAtFirst
<1>4. CASE next'[s] = next[s] /\ verdict'[s] = verdict[s]
  BY <1>3, <1>4 DEF StopsAtFirst
<1>5. CASE RefuseFile(s)
  <2>1. /\ verdict[s] = "checking" /\ Complaint(s) # "none"
        /\ next' = next /\ verdict'[s] = Complaint(s)
    BY <1>3, <1>5 DEF RefuseFile
  <2>2. /\ Complaint(s) = ObjectionAt(s, next[s])
        /\ next[s] \in 1..Len(files) /\ Len(files) \in Nat /\ files # <<>>
    BY <2>1, ComplaintIsObjection
  <2>3. ~RefusedAtOnce(s)
    BY <2>1 DEF StopsAtFirst
  <2> QED
    BY <1>3, <2>1, <2>2, <2>3
<1>6. CASE AcceptFile(s)
  <2>1. /\ verdict[s] = "checking" /\ Complaint(s) = "none"
        /\ next'[s] = next[s] + 1 /\ verdict'[s] \in {"accepted", "checking"}
    BY <1>3, <1>6 DEF AcceptFile
  <2>2. /\ Complaint(s) = ObjectionAt(s, next[s])
        /\ next[s] \in 1..Len(files) /\ Len(files) \in Nat /\ files # <<>>
    BY <2>1, ComplaintIsObjection
  <2>3. \A i \in 1..next'[s] - 1 : i \in 1..next[s] - 1 \/ i = next[s]
    BY <2>1, <2>2
  <2>4. ~RefusedAtOnce(s)
    BY <2>1 DEF StopsAtFirst
  <2> QED
    BY <1>3, <2>1, <2>2, <2>3, <2>4
<1>7. CASE \E t \in Sdks : t # s /\ (RefuseFile(t) \/ AcceptFile(t))
  <2>1. next'[s] = next[s] /\ verdict'[s] = verdict[s]
    BY <1>3, <1>7 DEF RefuseFile, AcceptFile
  <2> QED
    BY <1>4, <2>1
<1>8. CASE UNCHANGED vars
  BY <1>4, <1>8 DEF vars
<1> QED
  BY <1>5, <1>6, <1>7, <1>8 DEF Next

(* With an ordinary rule the SDKs read limit, count and types alike.       *)
LEMMA RulesAlike ==
  ASSUME rules \in RuleSets, NEW f, HasRule(f), Ordinary(RuleOf(f))
  PROVE  /\ CountLimit("ts", RuleOf(f)) = CountLimit("go", RuleOf(f))
         /\ TypeAllowed("ts", RuleOf(f), f.type) <=> TypeAllowed("go", RuleOf(f), f.type)
         /\ \A s \in Sdks : ~LimitRefused(s, RuleOf(f))
         /\ RuleOf(f).maxSize \in Int
<1>1. RuleOf(f) \in Rule
  BY RulesAssumption DEF HasRule, RuleOf
<1> QED
  BY <1>1, RulesAssumption DEF Rule, CountLimit, TypeAllowed, LimitRefused, Ordinary

(* Then they let the same files through, of whatever size,                 *)
LEMMA FitAlike ==
  ASSUME rules \in RuleSets, \A k \in DOMAIN rules : Ordinary(rules[k]), NEW f \in File
  PROVE  /\ Fits("ts", f) <=> Fits("go", f)
         /\ HasRule(f) => CountLimit("ts", RuleOf(f)) = CountLimit("go", RuleOf(f))
<1>1. CASE ~HasRule(f)
  BY <1>1 DEF Fits
<1>2. CASE HasRule(f)
  <2>1. Ordinary(RuleOf(f))
    BY <1>2 DEF HasRule, RuleOf
  <2>2. f.size <= RuleOf(f).maxSize => (SizeRefused("ts", f) <=> SizeRefused("go", f))
    <3>1. f.size \in Int /\ MaxSafe \in Nat /\ MaxInt \in Nat /\ MaxSafe <= MaxInt
      BY RulesAssumption DEF File
    <3>2. 0 < RuleOf(f).maxSize /\ RuleOf(f).maxSize <= MaxSafe
      BY <2>1 DEF Ordinary
    <3>3. RuleOf(f).maxSize \in Int
      BY <1>2, <2>1, RulesAlike
    <3> QED
      BY <3>1, <3>2, <3>3 DEF SizeRefused, Largest
  <2> QED
    BY <1>2, <2>1, <2>2, RulesAlike DEF Fits, Sdks
<1> QED
  BY <1>1, <1>2

(* and accept the same batches.                                            *)
LEMMA AcceptAlike ==
  ASSUME IInv, \A k \in DOMAIN rules : Ordinary(rules[k]),
         \A s \in Sdks : verdict[s] # "checking"
  PROVE  verdict["ts"] = "accepted" <=> verdict["go"] = "accepted"
<1>1. rules \in RuleSets /\ \A i \in 1..Len(files) : files[i] \in File
  BY TypedFiles DEF IInv, TypeOK
<1>2. Allowed("ts", Len(files)) <=> Allowed("go", Len(files))
  <2>1. ASSUME NEW i \in 1..Len(files)
        PROVE  /\ Fits("ts", files[i]) <=> Fits("go", files[i])
               /\ HasRule(files[i]) =>
                    CountLimit("ts", RuleOf(files[i])) = CountLimit("go", RuleOf(files[i]))
    BY <1>1, FitAlike
  <2>2. \A s \in Sdks, i \in 1..Len(files) : Fits(s, files[i]) => HasRule(files[i])
    BY DEF Fits
  <2> QED
    BY <2>1, <2>2 DEF Allowed, Sdks
<1> QED
  BY <1>2 DEF IInv, VerdictIsRight, Sdks

(* Of sizes that both can count to they object to the same files for the   *)
(* same reasons.                                                           *)
LEMMA ObjectAlike ==
  ASSUME rules \in RuleSets, \A k \in DOMAIN rules : Ordinary(rules[k]), NEW i,
         files[i] \in File, files[i].size <= MaxSafe
  PROVE  ObjectionAt("ts", i) = ObjectionAt("go", i)
<1> DEFINE f == files[i]
           rule == RuleOf(f)
<1>1. SizeRefused("ts", f) <=> SizeRefused("go", f)
  BY RulesAssumption DEF SizeRefused, Largest, File
<1>2. CASE ~HasRule(f)
  BY <1>1, <1>2 DEF ObjectionAt, Objection
<1>3. CASE HasRule(f)
  <2>1. Ordinary(rule)
    BY <1>3 DEF HasRule, RuleOf
  <2> QED
    BY <1>1, <1>3, <2>1, RulesAlike DEF ObjectionAt, Objection, Sdks
<1> QED
  BY <1>2, <1>3

(* Two loops that stop at the first objection, and object alike, give the  *)
(* same answer.                                                            *)
LEMMA StopAlike ==
  ASSUME IInv, StopsAtFirst, \A k \in DOMAIN rules : Ordinary(rules[k]),
         \A i \in 1..Len(files) : files[i].size <= MaxSafe,
         \A s \in Sdks : verdict[s] # "checking"
  PROVE  verdict["ts"] = verdict["go"]
<1>1. /\ "ts" \in Sdks /\ "go" \in Sdks
      /\ \A s \in Sdks : next[s] \in 1..Len(files) + 1
      /\ Len(files) \in Nat /\ rules \in RuleSets
      /\ \A i \in 1..Len(files) : files[i] \in File
  BY TypedFiles DEF Sdks, IInv, TypeOK
<1>2. RefusedAtOnce("ts") <=> RefusedAtOnce("go")
  BY <1>1, RulesAssumption DEF RefusedAtOnce, File
<1>3. CASE RefusedAtOnce("ts")
  BY <1>1, <1>2, <1>3 DEF StopsAtFirst
<1>4. CASE ~RefusedAtOnce("ts")
  <2>1. \A s, t \in Sdks : \A i \in 1..Len(files) : ObjectionAt(s, i) = ObjectionAt(t, i)
    BY <1>1, ObjectAlike DEF Sdks
  <2>2. ASSUME NEW s \in Sdks
        PROVE  \/ verdict[s] = "accepted" /\ next[s] = Len(files) + 1
               \/ /\ next[s] <= Len(files) /\ verdict[s] = ObjectionAt(s, next[s])
                  /\ ObjectionAt(s, next[s]) # "none"
    BY <1>2, <1>4 DEF StopsAtFirst, IInv, LoopEnds, Sdks
  <2>3. ASSUME NEW s \in Sdks, NEW t \in Sdks PROVE ~(next[s] < next[t])
    <3> SUFFICES ASSUME next[s] < next[t] PROVE FALSE
      OBVIOUS
    <3>1. next[s] \in 1..next[t] - 1 /\ next[s] # Len(files) + 1 /\ next[s] \in 1..Len(files)
      BY <1>1
    <3>2. ObjectionAt(t, next[s]) = "none"
      BY <3>1 DEF StopsAtFirst
    <3>3. ObjectionAt(s, next[s]) # "none"
      BY <2>2, <3>1
    <3> QED
      BY <2>1, <3>1, <3>2, <3>3
  <2>4. next["ts"] = next["go"]
    BY <1>1, <2>3
  <2>5. next["ts"] \in 1..Len(files) \/ next["ts"] = Len(files) + 1
    BY <1>1
  <2> QED
    BY <1>1, <2>1, <2>2, <2>4, <2>5
<1> QED
  BY <1>3, <1>4

(* An SDK that has refused a batch gives as its reason what is wrong with  *)
(* the first file that anything is wrong with, counting the files before   *)
(* it (validateFiles).                                                     *)
THEOREM StopsAtFirstObjection == Spec => []StopsAtFirst
  BY StopsInit, StopsStep, RulesInvariance, PTL DEF Spec

(* With ordinary rules a route can be moved from one SDK to the other: the *)
(* same batches are accepted, and the others refused for the same reason   *)
(* unless a size is beyond what JavaScript can count to.                   *)
THEOREM SdksAlwaysAgree == Spec => []SdksAgree
<1>1. IInv /\ StopsAtFirst => SdksAgree
  BY StopAlike, AcceptAlike DEF SdksAgree
<1> QED
  BY <1>1, RulesInvariance, StopsAtFirstObjection, PTL

-----------------------------------------------------------------------------
(* Preparation goes on where the loop ends, and does not disturb it: what  *)
(* holds of the loop holds in Preparation.                                 *)
THEOREM PrepareChecksFiles == PrepareSpec => Spec
<1>1. PrepareInit => Init
  BY DEF PrepareInit
<1>2. [PrepareNext]_prepareVars => [Next]_vars
  BY DEF PrepareNext, Prepare, Upload, prepareVars
<1> QED
  BY <1>1, <1>2, PTL DEF PrepareSpec, Spec

(* The verdicts on which prepare goes on are those of the loop.            *)
THEOREM PreparedFilesAreChecked == PrepareSpec => [](VerdictIsRight /\ SdksAgree)
  BY PrepareChecksFiles, AcceptsWhatIsAllowed, SdksAlwaysAgree, PTL

-----------------------------------------------------------------------------
LEMMA Division ==
  ASSUME NEW x \in Nat, NEW d \in Nat \ {0}
  PROVE  /\ x \div d \in Nat
         /\ d * (x \div d) <= x
         /\ x < d * (x \div d) + d
  OBVIOUS

LEMMA DivisionIsMonotone ==
  ASSUME NEW x \in Nat, NEW y \in Nat, NEW d \in Nat \ {0}, x <= y
  PROVE  x \div d <= y \div d
<1> DEFINE a == x \div d
           b == y \div d
<1>1. a \in Nat /\ b \in Nat /\ d * a <= x /\ y < d * b + d
  BY Division
<1> HIDE DEF a, b
<1>2. d * a < d * (b + 1) BY <1>1
<1>3. SUFFICES ASSUME b + 1 <= a PROVE FALSE BY <1>1 DEF a, b
<1>4. PICK k \in Nat : a = b + 1 + k
  <2>1. a - (b + 1) \in Nat /\ a = b + 1 + (a - (b + 1)) BY <1>1, <1>3
  <2> QED BY <2>1
<1>5. d * a = d * (b + 1) + d * k BY <1>1, <1>4
<1>6. d * k \in Nat BY <1>4
<1>7. d * (b + 1) \in Nat /\ d * a \in Nat BY <1>1
<1> QED BY <1>2, <1>5, <1>6, <1>7

-----------------------------------------------------------------------------
LEMMA Names ==
  /\ Sdks = {"ts", "go"}
  /\ Planners = {"ts", "go", "server"}
  BY DEF Sdks, Planners

LEMMA InitHolds == PrepareInit => PlanInv
<1> SUFFICES ASSUME PrepareInit PROVE PlanInv OBVIOUS
<1>1. setup \in Setup
  BY PreparationAssumption DEF PrepareInit, Init, PreparationAssumption
<1>2. \A s \in Planners : plan[s] = Undecided BY DEF PrepareInit
<1> QED BY <1>1, <1>2, Names DEF PlanInv, PrepareInit, Init

(* What is decided depends on the request alone.                           *)
LEMMA OutcomeStays ==
  ASSUME UNCHANGED <<setup, files>>, NEW s \in Sdks
  PROVE  Outcome(s)' = Outcome(s)
<1>1. \A f \in {"access", "retention", "halves"} : Overriding(s, f)' = Overriding(s, f)
  BY DEF Overriding
<1>2. AccessOf(s)' = AccessOf(s) /\ RetentionOf(s)' = RetentionOf(s) /\ TtlOf(s)' = TtlOf(s)
  BY <1>1 DEF AccessOf, RetentionOf, TtlOf, RouteTtl
<1>3. TtlRefused(s)' = TtlRefused(s)
  BY <1>1, <1>2 DEF TtlRefused, Unsafe
<1>4. ExpiryOf(s)' = ExpiryOf(s) BY <1>2 DEF ExpiryOf
<1>5. /\ UploadExpiryOf(s)' = UploadExpiryOf(s) /\ ThresholdOf(s)' = ThresholdOf(s)
      /\ PartSizeOf(s)' = PartSizeOf(s)
  BY DEF UploadExpiryOf, ThresholdOf, PartSizeOf
<1>6. PolicyRefused(s)' = PolicyRefused(s) BY <1>3, <1>5 DEF PolicyRefused, Unsafe
<1>7. ExpiryRefused(s)' = ExpiryRefused(s)
  BY <1>2, <1>4 DEF ExpiryRefused, Temporary
<1>8. TooManyParts(s)' = TooManyParts(s) BY <1>5 DEF TooManyParts
<1>9. Decided(s)' = Decided(s) BY <1>2, <1>4, <1>5 DEF Decided, Temporary
<1> QED BY <1>6, <1>7, <1>8, <1>9 DEF Outcome

LEMMA ServerOutcomeStays ==
  ASSUME UNCHANGED setup
  PROVE  ServerOutcome' = ServerOutcome
<1>1. ServerExpiry' = ServerExpiry /\ ServerRetention' = ServerRetention
  BY DEF ServerExpiry, ServerRetention
<1>2. ServerRefused' = ServerRefused BY <1>1 DEF ServerRefused
<1> QED BY <1>1, <1>2 DEF ServerOutcome

LEMMA StepHolds == PlanInv /\ [PrepareNext]_prepareVars => PlanInv'
<1> SUFFICES ASSUME PlanInv, [PrepareNext]_prepareVars PROVE PlanInv' OBVIOUS
<1>1. UNCHANGED <<setup, files>>
  BY DEF PrepareNext, Next, RefuseFile, AcceptFile, Prepare, Upload, prepareVars, vars
<1>2. /\ \A s \in Sdks : Outcome(s)' = Outcome(s)
      /\ ServerOutcome' = ServerOutcome
  BY <1>1, OutcomeStays, ServerOutcomeStays
<1>3. Undecided' = Undecided BY DEF Undecided
<1>4. /\ DOMAIN plan' = Planners
      /\ \A s \in Sdks : plan'[s] \in {Undecided, Outcome(s)}
      /\ plan'["server"] \in {Undecided, ServerOutcome}
  <2>1. CASE UNCHANGED plan BY <2>1 DEF PlanInv
  <2>2. CASE \E s \in Sdks : Prepare(s)
    <3>1. PICK s \in Sdks : plan' = [plan EXCEPT ![s] = Outcome(s)]
      BY <2>2 DEF Prepare
    <3> QED BY <3>1, Names DEF PlanInv
  <2>3. CASE Upload
    <3>1. plan' = [plan EXCEPT !["server"] = ServerOutcome] BY <2>3 DEF Upload
    <3> QED BY <3>1, Names DEF PlanInv
  <2> QED BY <2>1, <2>2, <2>3 DEF PrepareNext, prepareVars
<1> QED BY <1>1, <1>2, <1>3, <1>4 DEF PlanInv

(* What was decided of a request is Outcome or ServerOutcome of it, and    *)
(* stays so.                                                               *)
LEMMA PlansFollow == PrepareSpec => []PlanInv
  BY InitHolds, StepHolds, PTL DEF PrepareSpec

-----------------------------------------------------------------------------
LEMMA SetupFields ==
  ASSUME setup \in Setup
  PROVE  /\ setup.access \in Accesses /\ setup.retention \in Retentions
         /\ setup.ttl \in Int \cup {Unset}
         /\ setup.option \in {"WithRetention", "WithTemporaryTTL"}
         /\ setup.uploadExpiry \in Int \cup {Unset}
         /\ setup.threshold \in Int \cup {Unset} /\ setup.partSize \in Int \cup {Unset}
         /\ setup.now \in Nat
         /\ setup.override.access \in Accesses \cup {Unset, Other, Malformed}
         /\ setup.override.retention \in Retentions \cup {Unset, Other, Malformed}
         /\ setup.override.halves \in Int \cup {Unset, Malformed}
         /\ setup.upload.retention \in Retentions \cup {Unset, Other}
         /\ setup.upload.expiresAt \in Nat \cup {Unset}
  BY DEF Setup, Override, ServerFile

LEMMA Constants ==
  /\ Day \in Nat \ {0} /\ DefaultTtl \in Nat \ {0} /\ MaxDuration \in Nat
  /\ MinimumPartSize \in Nat \ {0} /\ DefaultPartSize \in Nat
  /\ DefaultThreshold \in Nat /\ MaximumParts \in Nat /\ Horizon \in Nat
  /\ Unset \notin Int /\ Malformed \notin Int /\ Other \notin Int
  /\ Unset \notin Retentions /\ Unset \notin Accesses
  /\ MaxDate \in Nat /\ DefaultUploadExpiry \in Nat
  /\ MaxSafe \in Nat /\ MaxInt \in Nat /\ MaxDuration <= MaxSafe
  /\ MinimumPartSize <= MaxSafe /\ DefaultPartSize <= MaxSafe /\ DefaultThreshold <= MaxSafe
  /\ Other \notin Retentions /\ Malformed \notin Retentions
  BY PreparationAssumption, RulesAssumption DEF PreparationAssumption, RulesAssumption

LEMMA TtlIsNumber ==
  ASSUME setup \in Setup, NEW s \in Sdks
  PROVE  TtlOf(s) \in Int
<1>1. RouteTtl(s) \in Int BY SetupFields, Constants DEF RouteTtl
<1>2. Overriding(s, "halves") \in Int \cup {Unset}
  BY SetupFields, Constants DEF Overriding
<1>3. ASSUME NEW h \in Int PROVE Quotient(h, 2) \in Int BY DEF Quotient
<1> QED BY <1>1, <1>2, <1>3 DEF TtlOf

(* The day of an expiry has begun when the expiry is reached.              *)
LEMMA DayHasBegun ==
  ASSUME NEW s \in Planners, NEW e \in Nat
  PROVE  /\ DayOf(s, e) = e \div Day
         /\ DayOf(s, e) >= 0
         /\ \A t \in 0..Horizon : e <= t => DayOf(s, e) <= t \div Day
<1>1. DayOf(s, e) = e \div Day BY DEF DayOf, Quotient
<1>2. e \div Day \in Nat BY Division, Constants
<1>3. ASSUME NEW t \in 0..Horizon, e <= t PROVE e \div Day <= t \div Day
  BY <1>3, DivisionIsMonotone, Constants
<1> QED BY <1>1, <1>2, <1>3

LEMMA SdkSweep ==
  ASSUME setup \in Setup, NEW s \in Sdks, plan[s] = Outcome(s),
         plan[s].code = "ok", plan[s].retention = "temporary", TtlOf(s) <= MaxDuration
  PROVE  /\ plan[s].expiry \in Nat /\ plan[s].expiry > setup.now
         /\ plan[s].day = DayOf(s, plan[s].expiry)
<1>1. plan[s] = Decided(s) /\ ~PolicyRefused(s)
  BY DEF Outcome, Refusal, Undecided
<1>2. /\ Temporary(s) /\ plan[s].expiry = ExpiryOf(s)
      /\ plan[s].day = DayOf(s, ExpiryOf(s))
  BY <1>1 DEF Decided, Temporary
<1>3. TtlOf(s) \in Nat /\ TtlOf(s) > 0
  BY <1>1, TtlIsNumber DEF PolicyRefused, TtlRefused
<1>4. Duration(s, TtlOf(s)) = TtlOf(s)
  <2> DEFINE x == TtlOf(s) + MaxDuration + 1
             m == 2 * (MaxDuration + 1)
  <2>1. x \in Nat /\ m \in Nat \ {0} /\ x < m BY <1>3, Constants
  <2>2. x % m = x BY <2>1
  <2>3. x - (MaxDuration + 1) = TtlOf(s) BY <1>3, Constants
  <2> QED BY <2>2, <2>3 DEF Duration
<1> QED BY <1>2, <1>3, <1>4, SetupFields DEF ExpiryOf

LEMMA ServerSweep ==
  ASSUME setup \in Setup, plan["server"] = ServerOutcome,
         plan["server"].code = "ok", plan["server"].retention = "temporary"
  PROVE  /\ plan["server"].expiry \in Nat /\ plan["server"].expiry > setup.now
         /\ plan["server"].day = DayOf("server", plan["server"].expiry)
<1>1. /\ ~ServerRefused /\ ServerRetention = "temporary"
      /\ plan["server"].expiry = ServerExpiry
      /\ plan["server"].day = IF ServerExpiry = Unset THEN Unset
                             ELSE DayOf("server", ServerExpiry)
  BY DEF ServerOutcome, Refusal, Undecided
<1>2. ServerExpiry \in Nat
  BY <1>1, SetupFields, Constants DEF ServerExpiry
<1> QED BY <1>1, <1>2, SetupFields, Constants DEF ServerRefused

(* A temporary object is deleted from its expiry on and never before.      *)
THEOREM SweepsAreRight == PrepareSpec => []SweepIsRight
<1>1. PlanInv => SweepIsRight
  <2> SUFFICES ASSUME PlanInv, NEW p \in Planners, plan[p].code = "ok",
                      plan[p].retention = "temporary", Representable(p)
               PROVE  /\ plan[p].expiry > setup.now
                      /\ \A t \in 0..Horizon : Swept(plan[p], t) <=> plan[p].expiry <= t
    BY DEF SweepIsRight
  <2>1. plan[p] # Undecided BY DEF Undecided
  <2>2. /\ plan[p].expiry \in Nat /\ plan[p].expiry > setup.now
        /\ plan[p].day = DayOf(p, plan[p].expiry)
    <3>1. CASE p \in Sdks
      <4>1. plan[p] = Outcome(p) BY <2>1, <3>1 DEF PlanInv
      <4>2. TtlOf(p) <= MaxDuration BY <3>1, Names DEF Representable
      <4> QED BY <3>1, <4>1, <4>2, SdkSweep DEF PlanInv
    <3>2. CASE p = "server"
      <4>1. plan[p] = ServerOutcome BY <2>1, <3>2 DEF PlanInv
      <4> QED BY <3>2, <4>1, ServerSweep DEF PlanInv
    <3> QED BY <3>1, <3>2, Names
  <2>3. /\ plan[p].day >= 0
        /\ \A t \in 0..Horizon : plan[p].expiry <= t => plan[p].day <= t \div Day
    BY <2>2, DayHasBegun
  <2> QED BY <2>2, <2>3 DEF Swept
<1> QED BY <1>1, PlansFollow, PTL

-----------------------------------------------------------------------------
(* The parts of a file of any size, in parts of any size.                  *)
LEMMA PartsAreTheFile ==
  ASSUME NEW size \in Nat \ {0}, NEW part \in Nat \ {0}
  PROVE  LET n == PartCount(size, part) IN
         /\ n \in Nat \ {0}
         /\ PartStart(part, 1) = 0 /\ PartEnd(size, part, n) = size
         /\ \A k \in 1..n : PartStart(part, k) < PartEnd(size, part, k)
         /\ \A k \in 1..n - 1 : /\ PartEnd(size, part, k) = PartStart(part, k + 1)
                                /\ PartEnd(size, part, k) - PartStart(part, k) = part
<1> DEFINE n == PartCount(size, part)
<1>1. n \in Nat /\ part * n <= size + part - 1 /\ size + part - 1 < part * n + part
  <2>1. size + part - 1 \in Nat OBVIOUS
  <2> QED BY <2>1, Division DEF PartCount
<1> HIDE DEF n
<1>2. n # 0
  <2>1. n = 0 => part * n = 0 BY <1>1
  <2> QED BY <1>1, <2>1
<1>3. n * part \in Nat /\ n * part = part * n BY <1>1
<1>4. size <= n * part /\ (n - 1) * part < size
  <2>1. (n - 1) * part = n * part - part BY <1>1
  <2> QED BY <1>1, <1>3, <2>1
<1>5. ASSUME NEW k \in 1..n
      PROVE  /\ k * part \in Nat /\ (k - 1) * part \in Nat
             /\ k * part = (k - 1) * part + part
             /\ k < n => k * part < size
             /\ (k - 1) * part < size
  <2>1. k * part \in Nat /\ (k - 1) * part \in Nat /\ k * part = (k - 1) * part + part
    BY <1>1
  <2>2. ASSUME NEW j \in Nat, j <= n - 1 PROVE j * part < size
    <3>1. n - 1 - j \in Nat /\ n - 1 \in Nat BY <1>1, <1>2, <2>2
    <3>2. (n - 1 - j) * part \in Nat BY <3>1
    <3>3. (n - 1) * part = j * part + (n - 1 - j) * part BY <1>1, <2>2
    <3>4. j * part \in Nat /\ (n - 1) * part \in Nat BY <3>1
    <3> QED BY <3>2, <3>3, <3>4, <1>4
  <2> QED BY <2>1, <2>2, <1>1
<1>6. PartStart(part, 1) = 0 BY DEF PartStart
<1>7. PartEnd(size, part, n) = size BY <1>3, <1>4 DEF PartEnd
<1>8. ASSUME NEW k \in 1..n PROVE PartStart(part, k) < PartEnd(size, part, k)
  BY <1>5 DEF PartStart, PartEnd
<1>9. ASSUME NEW k \in 1..n - 1
      PROVE  /\ PartEnd(size, part, k) = PartStart(part, k + 1)
             /\ PartEnd(size, part, k) - PartStart(part, k) = part
  <2>1. k \in 1..n /\ k < n /\ k + 1 - 1 = k BY <1>1
  <2> QED BY <1>5, <2>1 DEF PartStart, PartEnd
<1> QED BY <1>1, <1>2, <1>6, <1>7, <1>8, <1>9 DEF n

(* The parts of every large file that was prepared are the file.           *)
THEOREM PartsAlwaysCover == PrepareSpec => []PartsCover
<1>1. PlanInv => PartsCover
  <2> SUFFICES ASSUME PlanInv, NEW s \in Sdks, NEW i \in 1..Len(files),
                      plan[s].code = "ok", files[i].size >= plan[s].threshold,
                      files[i].size + plan[s].partSize <= MaxInt
               PROVE  LET size == files[i].size
                          part == plan[s].partSize
                          n == PartCount(size, part)
                      IN /\ n \in 1..MaximumParts
                         /\ PartStart(part, 1) = 0 /\ PartEnd(size, part, n) = size
                         /\ \A k \in 1..n : PartStart(part, k) < PartEnd(size, part, k)
                         /\ \A k \in 1..n - 1 :
                              /\ PartEnd(size, part, k) = PartStart(part, k + 1)
                              /\ PartEnd(size, part, k) - PartStart(part, k) = part
    BY DEF PartsCover
  <2>1. plan[s] = Outcome(s) BY DEF PlanInv, Undecided
  <2>2. plan[s] = Decided(s) /\ ~PolicyRefused(s) /\ ~TooManyParts(s)
    BY <2>1 DEF Outcome, Refusal, Undecided
  <2>3. plan[s].threshold = ThresholdOf(s) /\ plan[s].partSize = PartSizeOf(s)
    BY <2>2 DEF Decided
  <2>4. ThresholdOf(s) \in Nat /\ ThresholdOf(s) > 0
    <3>1. ThresholdOf(s) \in Int
      BY SetupFields, Constants DEF ThresholdOf, Option, PlanInv
    <3> QED BY <3>1, <2>2 DEF PolicyRefused
  <2>5. PartSizeOf(s) \in Nat \ {0}
    <3>1. Option(s, setup.partSize, DefaultPartSize) \in Int
      BY SetupFields, Constants DEF Option, PlanInv
    <3> QED BY <3>1, Constants DEF PartSizeOf
  <2>6. files[i].size \in Nat \ {0}
    <3>1. files \in Seq(File) BY RulesAssumption DEF PlanInv, RulesAssumption
    <3>2. files[i] \in File BY <3>1
    <3>3. files[i].size \in Int BY <3>2 DEF File
    <3> QED BY <3>3, <2>3, <2>4
  <2>7. PartCount(files[i].size, PartSizeOf(s)) <= MaximumParts
    <3>1. PartCount(files[i].size, PartSizeOf(s)) \in Nat
      BY <2>5, <2>6, PartsAreTheFile
    <3> QED BY <3>1, <2>2, <2>3, Constants DEF TooManyParts
  <2>8. PartCount(files[i].size, plan[s].partSize) <= MaximumParts
    BY <2>3, <2>7
  <2>9. plan[s].partSize \in Nat \ {0}
    BY <2>3, <2>5
  <2>10. PICK size \in Nat \ {0}, part \in Nat \ {0} :
           size = files[i].size /\ part = plan[s].partSize
    BY <2>6, <2>9
  <2>11. PartCount(size, part) \in Nat \ {0} /\ PartCount(size, part) <= MaximumParts
    BY <2>8, <2>10, PartsAreTheFile
  <2>12. PartCount(size, part) \in 1..MaximumParts
    BY <2>11, Constants
  <2>13. /\ PartStart(part, 1) = 0
         /\ PartEnd(size, part, PartCount(size, part)) = size
         /\ \A k \in 1..PartCount(size, part) : PartStart(part, k) < PartEnd(size, part, k)
         /\ \A k \in 1..PartCount(size, part) - 1 :
              /\ PartEnd(size, part, k) = PartStart(part, k + 1)
              /\ PartEnd(size, part, k) - PartStart(part, k) = part
    BY PartsAreTheFile
  <2> QED BY <2>10, <2>12, <2>13
<1> QED BY <1>1, PlansFollow, PTL

-----------------------------------------------------------------------------
(* Settings that say what they mean are read alike.                        *)
LEMMA ReadAlike ==
  ASSUME setup \in Setup, OrdinarySetup
  PROVE  /\ AccessOf("ts") = AccessOf("go") /\ RetentionOf("ts") = RetentionOf("go")
         /\ TtlOf("ts") = TtlOf("go")
         /\ TtlRefused("ts") <=> TtlRefused("go")
         /\ UploadExpiryOf("ts") = UploadExpiryOf("go")
         /\ ThresholdOf("ts") = ThresholdOf("go") /\ PartSizeOf("ts") = PartSizeOf("go")
         /\ \A s \in Sdks : ~Unsafe(s, ThresholdOf(s)) /\ ~Unsafe(s, PartSizeOf(s))
<1>1. \A f \in {"access", "retention", "halves"} :
        Overriding("ts", f) = Overriding("go", f)
  BY DEF OrdinarySetup, Overriding
<1>2. RouteTtl("ts") = RouteTtl("go")
  BY SetupFields, Constants DEF OrdinarySetup, RouteTtl
<1>3. TtlOf("ts") = TtlOf("go") BY <1>1, <1>2 DEF TtlOf
<1>4. Overriding("ts", "halves") # Unset => Overriding("ts", "halves") % 2 = 0
  BY SetupFields, Constants DEF OrdinarySetup, Overriding
<1>5. TtlRefused("ts") <=> TtlRefused("go")
  <2>1. TtlOf("go") \in Int /\ TtlOf("go") <= MaxDuration
    BY TtlIsNumber, Names DEF OrdinarySetup
  <2>2. ~Unsafe("ts", TtlOf("ts")) /\ ~Unsafe("go", TtlOf("go"))
    BY <1>3, <2>1, Constants DEF Unsafe
  <2> QED BY <1>3, <1>4, <2>2 DEF TtlRefused
<1>6. /\ Option("ts", setup.uploadExpiry, DefaultUploadExpiry)
           = Option("go", setup.uploadExpiry, DefaultUploadExpiry)
      /\ Option("ts", setup.threshold, DefaultThreshold)
           = Option("go", setup.threshold, DefaultThreshold)
      /\ Option("ts", setup.partSize, DefaultPartSize)
           = Option("go", setup.partSize, DefaultPartSize)
  BY DEF Option, OrdinarySetup
<1>7. ASSUME NEW s \in Sdks PROVE ThresholdOf(s) <= MaxSafe /\ PartSizeOf(s) <= MaxSafe
  BY SetupFields, Constants DEF OrdinarySetup, ThresholdOf, PartSizeOf, Option
<1>8. ASSUME NEW s \in Sdks PROVE ThresholdOf(s) \in Int /\ PartSizeOf(s) \in Int
  BY SetupFields, Constants DEF ThresholdOf, PartSizeOf, Option
<1>9. \A s \in Sdks : ~Unsafe(s, ThresholdOf(s)) /\ ~Unsafe(s, PartSizeOf(s))
  BY <1>7, <1>8, Constants DEF Unsafe
<1> QED
  BY <1>1, <1>3, <1>5, <1>6, <1>9
  DEF AccessOf, RetentionOf, UploadExpiryOf, ThresholdOf, PartSizeOf

(* A time to live that is not refused becomes the same expiry and day.     *)
LEMMA ExpireAlike ==
  ASSUME setup \in Setup, OrdinarySetup, ~TtlRefused("go")
  PROVE  /\ ExpiryOf("ts") = ExpiryOf("go") /\ ExpiryOf("go") <= MaxDate
         /\ ExpiryOf("go") \in Int
         /\ DayOf("ts", ExpiryOf("ts")) = DayOf("go", ExpiryOf("go"))
<1>1. TtlOf("go") \in Nat /\ TtlOf("go") > 0 /\ TtlOf("ts") = TtlOf("go")
  BY TtlIsNumber, ReadAlike, Names DEF TtlRefused
<1>2. TtlOf("go") <= MaxDuration /\ setup.now + TtlOf("go") <= MaxDate
  BY Names DEF OrdinarySetup
<1>3. Duration("go", TtlOf("go")) = TtlOf("go")
  <2> DEFINE x == TtlOf("go") + MaxDuration + 1
             m == 2 * (MaxDuration + 1)
  <2>1. x \in Nat /\ m \in Nat \ {0} /\ x < m BY <1>1, <1>2, Constants
  <2>2. x % m = x BY <2>1
  <2>3. x - (MaxDuration + 1) = TtlOf("go") BY <1>1, Constants
  <2> QED BY <2>2, <2>3 DEF Duration
<1>4. Duration("ts", TtlOf("ts")) = TtlOf("go") BY <1>1 DEF Duration
<1>5. /\ ExpiryOf("go") = setup.now + TtlOf("go")
      /\ ExpiryOf("ts") = setup.now + TtlOf("go")
  BY <1>3, <1>4 DEF ExpiryOf
<1>6. ExpiryOf("go") \in Nat BY <1>1, <1>5, SetupFields
<1> QED BY <1>2, <1>5, <1>6, DayHasBegun, Names

(* What the two SDKs plan for the same request is the same.                *)
THEOREM PlansAlwaysAgree == PrepareSpec => []PlansAgree
<1>1. PlanInv => PlansAgree
  <2> SUFFICES ASSUME PlanInv, OrdinarySetup, \A s \in Sdks : plan[s].code # "none"
               PROVE  plan["ts"] = plan["go"]
    BY DEF PlansAgree
  <2>1. plan["ts"] = Outcome("ts") /\ plan["go"] = Outcome("go")
    BY Names DEF PlanInv, Undecided
  <2>2. /\ PolicyRefused("ts") <=> PolicyRefused("go")
        /\ TooManyParts("ts") <=> TooManyParts("go")
    BY ReadAlike, Names DEF PlanInv, PolicyRefused, TooManyParts
  <2>3. CASE PolicyRefused("go") BY <2>1, <2>2, <2>3 DEF Outcome
  <2>4. CASE ~PolicyRefused("go")
    <3>1. /\ ExpiryOf("ts") = ExpiryOf("go") /\ ExpiryOf("go") <= MaxDate
          /\ ExpiryOf("go") \in Int
          /\ DayOf("ts", ExpiryOf("ts")) = DayOf("go", ExpiryOf("go"))
      BY <2>4, ExpireAlike DEF PlanInv, PolicyRefused
    <3>2. ~ExpiryRefused("ts") /\ ~ExpiryRefused("go")
      BY <3>1, Constants DEF ExpiryRefused
    <3>3. Decided("ts") = Decided("go")
      BY <3>1, ReadAlike DEF PlanInv, Decided, Temporary
    <3> QED BY <2>1, <2>2, <2>4, <3>2, <3>3 DEF Outcome
  <2> QED BY <2>3, <2>4
<1> QED BY <1>1, PlansFollow, PTL
=============================================================================
