------------------------------ MODULE FileRules ------------------------------
(***************************************************************************)
(* validateFiles of both SDKs: the files of a prepare request are checked  *)
(* one by one against the rules of the route, and the first that breaks    *)
(* one refuses the batch.  A rule is found by the file's exact type or     *)
(* else by its group, and counts the files it was used for.                *)
(*                                                                         *)
(* The two SDKs read a count that is not positive, an empty list of types, *)
(* a limit that is not positive and a size beyond 2^53 in ways of their    *)
(* own.                                                                    *)
(*                                                                         *)
(* Simplifications.  A type, a group and a rule's key are members of Keys; *)
(* a limit given as a text has been parsed (both SDKs refuse every file    *)
(* under one that does not parse); names are given; a size that is no      *)
(* whole number stands with those above MaxInt, which it is refused like.  *)
(*                                                                         *)
(* A definition XSlip is X with a plausible mistake, which the property    *)
(* named beside it must notice; no specification uses it.                  *)
(***************************************************************************)
EXTENDS Integers, FiniteSets, Sequences

CONSTANTS
  Keys,      \* what a rule can be filed under
  Types,     \* content types, which can be keys as well
  GroupOf,   \* the group of each type
  Unset,     \* a count or a list of types that a rule does not have
  MaxSafe,   \* the largest safe integer of JavaScript (2^53 - 1)
  MaxInt,    \* the largest int64 of Go (2^63 - 1)
  RuleSets,  \* the routes' rules: from some of the keys to rules
  Batches    \* the files of a request

Sdks == {"ts", "go"}

File == [type : Types, size : Int]

(* text: the limit is written with its unit and not as a number.           *)
Rule == [maxSize : Int, text : BOOLEAN, maxCount : {Unset} \cup Int,
         mimeTypes : {Unset} \cup SUBSET Types]

ASSUME RulesAssumption ==
  /\ Types \subseteq Keys
  /\ GroupOf \in [Types -> Keys]
  /\ Unset \notin Int
  /\ MaxSafe \in Nat /\ MaxInt \in Nat /\ MaxSafe <= MaxInt
  /\ \A r \in RuleSets : DOMAIN r \subseteq Keys /\ r \in [DOMAIN r -> Rule]
  /\ Batches \subseteq Seq(File)

VARIABLES
  rules, files,
  next,     \* the file each SDK is about to check
  counts,   \* files counted under each key
  verdict

vars == <<rules, files, next, counts, verdict>>

TypeOK ==
  /\ rules \in RuleSets
  /\ files \in Batches
  /\ next \in [Sdks -> 1..Len(files) + 1]
  /\ counts \in [Sdks -> [Keys -> Nat]]
  /\ verdict \in [Sdks -> {"checking", "accepted", "BAD_REQUEST", "INVALID_TYPE", "TOO_LARGE"}]

(* Before any rule is looked at, both refuse an empty batch, and Go one    *)
(* with a size that it cannot decode.                                      *)
RefusedAtOnce(s) ==
  \/ files = <<>>
  \/ s = "go" /\ \E i \in 1..Len(files) : files[i].size > MaxInt

Init ==
  /\ rules \in RuleSets
  /\ files \in Batches
  /\ next = [s \in Sdks |-> 1]
  /\ counts = [s \in Sdks |-> [k \in Keys |-> 0]]
  /\ verdict = [s \in Sdks |-> IF RefusedAtOnce(s) THEN "BAD_REQUEST" ELSE "checking"]

-----------------------------------------------------------------------------
KeyOf(type) == IF type \in DOMAIN rules THEN type ELSE GroupOf[type]

HasRule(f) == KeyOf(f.type) \in DOMAIN rules
RuleOf(f) == rules[KeyOf(f.type)]

(* SdksAgree: a rule without a count has no limit in TypeScript.           *)
CountLimitSlip(s, rule) ==
  IF rule.maxCount = Unset THEN IF s = "go" THEN 1 ELSE 1000
  ELSE rule.maxCount

CountLimit(s, rule) ==
  IF rule.maxCount = Unset \/ (s = "go" /\ rule.maxCount <= 0) THEN 1 ELSE rule.maxCount

TypeAllowed(s, rule, type) ==
  \/ rule.mimeTypes = Unset
  \/ s = "go" /\ rule.mimeTypes = {}
  \/ rule.mimeTypes # Unset /\ type \in rule.mimeTypes

Largest(s) == IF s = "ts" THEN MaxSafe ELSE MaxInt

SizeRefused(s, f) == f.size <= 0 \/ f.size > Largest(s)

(* TypeScript reads a text without looking at what comes out of it.        *)
LimitRefused(s, rule) ==
  \/ s = "go" /\ rule.maxSize <= 0
  \/ s = "ts" /\ ~rule.text /\ (rule.maxSize <= 0 \/ rule.maxSize > MaxSafe)

(* What the SDK finds wrong with a file whose rule was used so many times, *)
(* in the order of its checks.                                             *)
Objection(s, f, used) ==
  IF SizeRefused(s, f) THEN "BAD_REQUEST"
  ELSE IF ~HasRule(f) THEN "INVALID_TYPE"
  ELSE IF ~TypeAllowed(s, RuleOf(f), f.type) THEN "INVALID_TYPE"
  ELSE IF LimitRefused(s, RuleOf(f)) THEN "BAD_REQUEST"
  ELSE IF f.size > RuleOf(f).maxSize THEN "TOO_LARGE"
  ELSE IF used + 1 > CountLimit(s, RuleOf(f)) THEN "BAD_REQUEST"
  ELSE "none"

(* Of the file it is at.                                                   *)
Complaint(s) ==
  LET f == files[next[s]] IN Objection(s, f, counts[s][KeyOf(f.type)])

RefuseFile(s) ==
  /\ verdict[s] = "checking" /\ Complaint(s) # "none"
  /\ verdict' = [verdict EXCEPT ![s] = Complaint(s)]
  /\ UNCHANGED <<rules, files, next, counts>>

(* VerdictIsRight: the file is counted under its type, whichever rule let  *)
(* it through.                                                             *)
AcceptFileSlip(s) ==
  /\ verdict[s] = "checking" /\ Complaint(s) = "none"
  /\ counts' = [counts EXCEPT ![s][files[next[s]].type] = @ + 1]
  /\ next' = [next EXCEPT ![s] = @ + 1]
  /\ verdict' = [verdict EXCEPT
       ![s] = IF next[s] = Len(files) THEN "accepted" ELSE "checking"]
  /\ UNCHANGED <<rules, files>>

AcceptFile(s) ==
  /\ verdict[s] = "checking" /\ Complaint(s) = "none"
  /\ counts' = [counts EXCEPT ![s][KeyOf(files[next[s]].type)] = @ + 1]
  /\ next' = [next EXCEPT ![s] = @ + 1]
  /\ verdict' = [verdict EXCEPT
       ![s] = IF next[s] = Len(files) THEN "accepted" ELSE "checking"]
  /\ UNCHANGED <<rules, files>>

Next == \E s \in Sdks : RefuseFile(s) \/ AcceptFile(s)

Spec == Init /\ [][Next]_vars

-----------------------------------------------------------------------------
(***************************************************************************)
(* Properties                                                              *)
(***************************************************************************)
Fits(s, f) ==
  /\ ~SizeRefused(s, f)
  /\ HasRule(f)
  /\ TypeAllowed(s, RuleOf(f), f.type)
  /\ ~LimitRefused(s, RuleOf(f))
  /\ f.size <= RuleOf(f).maxSize

(* The first n files keep the rules: each fits its rule, and no rule is    *)
(* used for more files than it allows.                                     *)
UsesOf(k, n) == {i \in 1..n : KeyOf(files[i].type) = k}
Allowed(s, n) ==
  /\ \A i \in 1..n : Fits(s, files[i])
  /\ \A i \in 1..n : Cardinality(UsesOf(KeyOf(files[i].type), n)) <= CountLimit(s, RuleOf(files[i]))

(* A batch is accepted exactly when it keeps the rules as a whole, so in   *)
(* whichever order the files are listed (validateFiles).                   *)
VerdictIsRight ==
  \A s \in Sdks :
    /\ verdict[s] = "accepted" => files # <<>> /\ Allowed(s, Len(files))
    /\ verdict[s] \notin {"checking", "accepted"} => files = <<>> \/ ~Allowed(s, Len(files))

(* A rule with a limit, and no count or list of types that says nothing.   *)
Ordinary(rule) ==
  /\ 0 < rule.maxSize /\ rule.maxSize <= MaxSafe
  /\ rule.maxCount = Unset \/ rule.maxCount > 0
  /\ rule.mimeTypes # {}

(* With ordinary rules the two SDKs accept the same batches, so a route    *)
(* can be moved from one to the other; and they refuse for the same reason *)
(* where every size is one that JavaScript can count to (beyond, the one   *)
(* says BAD_REQUEST and the other TOO_LARGE).                              *)
SdksAgree ==
  (/\ \A k \in DOMAIN rules : Ordinary(rules[k])
   /\ \A s \in Sdks : verdict[s] # "checking")
  => /\ verdict["ts"] = "accepted" <=> verdict["go"] = "accepted"
     /\ (\A i \in 1..Len(files) : files[i].size <= MaxSafe) => verdict["ts"] = verdict["go"]

-----------------------------------------------------------------------------
(***************************************************************************)
(* The inductive invariant: the loop has counted what it has let through,  *)
(* and that keeps the rules.                                               *)
(***************************************************************************)
CountsAreRight ==
  \A s \in Sdks, k \in Keys : counts[s][k] = Cardinality(UsesOf(k, next[s] - 1))

PrefixAllowed == \A s \in Sdks : Allowed(s, next[s] - 1)

LoopEnds ==
  \A s \in Sdks :
    /\ verdict[s] = "checking" => next[s] <= Len(files)
    /\ verdict[s] = "accepted" => next[s] = Len(files) + 1

IInv ==
  /\ TypeOK
  /\ CountsAreRight
  /\ PrefixAllowed
  /\ LoopEnds
  /\ VerdictIsRight

(* What makes the two SDKs agree: each stops at the first file that it     *)
(* objects to, and the answer is that objection.                           *)
ObjectionAt(s, i) ==
  Objection(s, files[i], Cardinality(UsesOf(KeyOf(files[i].type), i - 1)))

StopsAtFirst ==
  \A s \in Sdks :
    /\ \A i \in 1..next[s] - 1 : ObjectionAt(s, i) = "none"
    /\ RefusedAtOnce(s) => verdict[s] = "BAD_REQUEST"
    /\ ~RefusedAtOnce(s) /\ verdict[s] \notin {"checking", "accepted"} =>
         /\ next[s] <= Len(files)
         /\ verdict[s] = ObjectionAt(s, next[s]) /\ verdict[s] # "none"

=============================================================================
