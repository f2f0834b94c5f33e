----------------------------- MODULE Preparation -----------------------------
(***************************************************************************)
(* What a prepare request decides once its files keep the rules: the       *)
(* policy (the route's, or what the middleware puts over it), the expiry   *)
(* of temporary objects, the prefix of their keys, and the parts in which  *)
(* a large file is uploaded.  The server API decides the same for a file   *)
(* that the application stores itself.  The nightly cleanup finds expired  *)
(* objects by the day in their keys, so key and expiry have to agree.      *)
(*                                                                         *)
(* Simplifications.  A file is prepared at one instant; what Uploads       *)
(* models of the storage calls is left out.  A middleware gives seconds as *)
(* a JSON number, counted here in halves, since it need not be a whole     *)
(* one; settings are whole numbers.  In Go the sum of a size and a part    *)
(* size near 2^63 would wrap around, which is left out.                    *)
(*                                                                         *)
(* A definition XSlip is X with a plausible mistake, which the property    *)
(* named beside it must notice; no specification uses it.                  *)
(***************************************************************************)
EXTENDS FileRules

CONSTANTS
  Other,            \* a string that is no access or retention
  Malformed,        \* a JSON value of another type
  SetupsFor(_, _),  \* what rules and files are combined with
  Day,              \* seconds in the day of a key (86400)
  MaxDuration,      \* seconds a duration of Go can hold (2^63 nanoseconds)
  MaxDate,          \* seconds a date of JavaScript can hold
  MinimumPartSize, MaximumParts, DefaultPartSize, DefaultThreshold,
  MaximumUploadExpiry, DefaultUploadExpiry, DefaultTtl,
  Horizon           \* the last instant at which cleanup is looked at

Accesses == {"public", "private"}
Retentions == {"permanent", "temporary"}

Override == [access : Accesses \cup {Unset, Other, Malformed},
             retention : Retentions \cup {Unset, Other, Malformed},
             halves : Int \cup {Unset, Malformed}]

ServerFile == [access : Accesses \cup {Unset, Other},
               retention : Retentions \cup {Unset, Other},
               expiresAt : Nat \cup {Unset}]

(* access, retention and ttl: those of the route; option: what sets the    *)
(* ttl of a route in Go.                                                   *)
Setup == [access : Accesses, retention : Retentions, ttl : Int \cup {Unset},
          option : {"WithRetention", "WithTemporaryTTL"},
          override : Override, uploadExpiry : Int \cup {Unset},
          threshold : Int \cup {Unset}, partSize : Int \cup {Unset},
          now : Nat, upload : ServerFile]

ASSUME PreparationAssumption ==
  /\ {Other, Malformed} \cap (Int \cup Accesses \cup Retentions) = {}
  /\ Unset \notin Int \cup Accesses \cup Retentions
  /\ Unset \notin {Other, Malformed}
  /\ \A r \in RuleSets, f \in Batches : SetupsFor(r, f) \subseteq Setup
  /\ Day \in Nat \ {0} /\ DefaultTtl \in Nat \ {0}
  /\ MaxDuration \in Nat /\ MaxDate \in Nat
  /\ DefaultTtl <= MaxDuration /\ DefaultTtl <= MaxDate
  /\ MinimumPartSize \in Nat \ {0} /\ DefaultPartSize \in Nat /\ MaximumParts \in Nat
  /\ DefaultThreshold \in Nat /\ MaximumUploadExpiry \in Nat /\ DefaultUploadExpiry \in Nat
  /\ MaxDuration <= MaxSafe
  /\ \A n \in {MinimumPartSize, DefaultPartSize, DefaultThreshold} : n <= MaxSafe
  /\ Horizon \in Nat

VARIABLES
  setup,
  plan     \* what each SDK, and the server API, has decided

prepareVars == <<vars, setup, plan>>

Planners == Sdks \cup {"server"}

Undecided == [code |-> "none", access |-> "public", retention |-> "permanent",
              expiry |-> Unset, day |-> Unset, threshold |-> 0, partSize |-> 0]

Refusal(code) == [Undecided EXCEPT !.code = code]

PrepareInit ==
  /\ Init
  /\ setup \in SetupsFor(rules, files)
  /\ plan = [s \in Planners |-> Undecided]

-----------------------------------------------------------------------------
(***************************************************************************)
(* The policy.                                                             *)
(***************************************************************************)
(* In Go a setting of 0 is one that is not made.                           *)
Option(s, value, default) ==
  IF value = Unset \/ (s = "go" /\ value = 0) THEN default ELSE value

(* WithRetention leaves the default alone if its ttl is not positive.      *)
RouteTtl(s) ==
  IF \/ setup.ttl = Unset
     \/ s = "go" /\ setup.option = "WithRetention" /\ setup.ttl <= 0
    THEN DefaultTtl ELSE setup.ttl

(* TypeScript ignores a field of the wrong type, Go the whole override.    *)
Overriding(s, field) ==
  LET o == setup.override IN
  IF s = "go" /\ Malformed \in {o.access, o.retention, o.halves} THEN Unset
  ELSE IF o[field] \in {Other, Malformed} THEN Unset ELSE o[field]

(* PlansAgree: TypeScript takes the route's access, whatever is put over.  *)
AccessOfSlip(s) ==
  IF s = "ts" \/ Overriding(s, "access") = Unset THEN setup.access
  ELSE Overriding(s, "access")

AccessOf(s) ==
  IF Overriding(s, "access") = Unset THEN setup.access ELSE Overriding(s, "access")

RetentionOf(s) ==
  IF Overriding(s, "retention") = Unset THEN setup.retention
  ELSE Overriding(s, "retention")

Quotient(x, d) == IF x >= 0 THEN x \div d ELSE -((-x) \div d)

(* Go drops the fraction.                                                  *)
TtlOf(s) ==
  LET halves == Overriding(s, "halves") IN
  IF halves = Unset THEN RouteTtl(s) ELSE Quotient(halves, 2)

(* No safe integer of JavaScript; Go takes any.                            *)
Unsafe(s, n) == s = "ts" /\ n > MaxSafe

TtlRefused(s) ==
  \/ TtlOf(s) <= 0
  \/ Unsafe(s, TtlOf(s))
  \/ s = "ts" /\ Overriding(s, "halves") # Unset /\ Overriding(s, "halves") % 2 # 0

-----------------------------------------------------------------------------
(***************************************************************************)
(* Expiry and key.                                                         *)
(***************************************************************************)
(* A duration of Go counts nanoseconds and wraps around.                   *)
Duration(s, seconds) ==
  IF s = "go"
    THEN ((seconds + MaxDuration + 1) % (2 * (MaxDuration + 1))) - (MaxDuration + 1)
    ELSE seconds

ExpiryOf(s) == setup.now + Duration(s, TtlOf(s))

(* SweepIsRight: the day is rounded up.                                    *)
DayOfSlip(s, expiry) == Quotient(expiry + Day - 1, Day)

(* tmp/<day>: TypeScript rounds down, Go towards zero.                     *)
DayOf(s, expiry) == IF s = "ts" THEN expiry \div Day ELSE Quotient(expiry, Day)

-----------------------------------------------------------------------------
(***************************************************************************)
(* Parts.                                                                  *)
(***************************************************************************)
UploadExpiryOf(s) == Option(s, setup.uploadExpiry, DefaultUploadExpiry)
ThresholdOf(s) == Option(s, setup.threshold, DefaultThreshold)

PartSizeOf(s) ==
  LET size == Option(s, setup.partSize, DefaultPartSize) IN
  IF size < MinimumPartSize THEN MinimumPartSize ELSE size

PartCount(size, partSize) == (size + partSize - 1) \div partSize

(* PartsCover: every part is a whole one.                                  *)
PartEndSlip(size, partSize, i) == i * partSize

PartStart(partSize, i) == (i - 1) * partSize

PartEnd(size, partSize, i) == IF i * partSize > size THEN size ELSE i * partSize

TooManyParts(s) ==
  \E i \in 1..Len(files) :
    /\ files[i].size >= ThresholdOf(s)
    /\ PartCount(files[i].size, PartSizeOf(s)) > MaximumParts

-----------------------------------------------------------------------------
PolicyRefused(s) ==
  \/ TtlRefused(s)
  \/ UploadExpiryOf(s) <= 0
  \/ UploadExpiryOf(s) > MaximumUploadExpiry
  \/ ThresholdOf(s) <= 0
  \/ Unsafe(s, ThresholdOf(s))
  \/ Unsafe(s, PartSizeOf(s))

Temporary(s) == RetentionOf(s) = "temporary"

(* JavaScript has no such date.                                            *)
ExpiryRefused(s) == s = "ts" /\ Temporary(s) /\ ExpiryOf(s) > MaxDate

Decided(s) ==
  [code |-> "ok", access |-> AccessOf(s), retention |-> RetentionOf(s),
   expiry |-> IF Temporary(s) THEN ExpiryOf(s) ELSE Unset,
   day |-> IF Temporary(s) THEN DayOf(s, ExpiryOf(s)) ELSE Unset,
   threshold |-> ThresholdOf(s), partSize |-> PartSizeOf(s)]

Outcome(s) ==
  IF PolicyRefused(s) THEN Refusal("BAD_REQUEST")
  ELSE IF ExpiryRefused(s) THEN Refusal("STORAGE_ERROR")
  ELSE IF TooManyParts(s) THEN Refusal("TOO_LARGE")
  ELSE Decided(s)

(* The rest of prepare, for files that validateFiles has let through.      *)
Prepare(s) ==
  /\ verdict[s] = "accepted" /\ plan[s].code = "none"
  /\ plan' = [plan EXCEPT ![s] = Outcome(s)]
  /\ UNCHANGED <<vars, setup>>

-----------------------------------------------------------------------------
(***************************************************************************)
(* The server API.                                                         *)
(***************************************************************************)
ServerRetention ==
  IF setup.upload.retention = Unset THEN "permanent" ELSE setup.upload.retention

ServerExpiry ==
  IF setup.upload.expiresAt = Unset /\ ServerRetention = "temporary"
    THEN setup.now + DefaultTtl ELSE setup.upload.expiresAt

ServerRefused ==
  \/ setup.upload.access = Other
  \/ ServerRetention = Other
  \/ ServerRetention = "permanent" /\ setup.upload.expiresAt # Unset
  \/ ServerExpiry # Unset /\ ServerExpiry <= setup.now

ServerOutcome ==
  IF ServerRefused THEN Refusal("BAD_REQUEST")
  ELSE [Undecided EXCEPT !.code = "ok", !.retention = ServerRetention,
          !.access = IF setup.upload.access = Unset THEN "public" ELSE setup.upload.access,
          !.expiry = ServerExpiry,
          !.day = IF ServerExpiry = Unset THEN Unset ELSE DayOf("server", ServerExpiry)]

Upload ==
  /\ plan["server"].code = "none"
  /\ plan' = [plan EXCEPT !["server"] = ServerOutcome]
  /\ UNCHANGED <<vars, setup>>

PrepareNext ==
  \/ Next /\ UNCHANGED <<setup, plan>>
  \/ \E s \in Sdks : Prepare(s)
  \/ Upload

PrepareSpec == PrepareInit /\ [][PrepareNext]_prepareVars
-----------------------------------------------------------------------------
(***************************************************************************)
(* Properties                                                              *)
(***************************************************************************)

(* What cleanup does, at an instant t, of an object that was stored as     *)
(* planned: days are digits, and only those that have begun are looked at. *)
Swept(p, t) == p.day >= 0 /\ p.day <= t \div Day /\ p.expiry <= t

Representable(p) == p = "server" \/ TtlOf(p) <= MaxDuration

(* A temporary object is deleted by the first cleanup from its expiry on   *)
(* and by none before, and it is not born expired, if its time to live can *)
(* be represented.                                                         *)
SweepIsRight ==
  \A p \in Planners :
    plan[p].code = "ok" /\ plan[p].retention = "temporary" /\ Representable(p)
      => /\ plan[p].expiry > setup.now
         /\ \A t \in 0..Horizon : Swept(plan[p], t) <=> plan[p].expiry <= t

(* The parts of a large file are the file, byte by byte: no gap, none      *)
(* twice, none empty, only the last one shorter, and not too many.  (Of    *)
(* sizes so large that Go's sum would wrap around nothing is said.)        *)
PartsCover ==
  \A s \in Sdks, i \in 1..Len(files) :
    /\ plan[s].code = "ok"
    /\ files[i].size >= plan[s].threshold
    /\ files[i].size + plan[s].partSize <= MaxInt
    => LET size == files[i].size
          part == plan[s].partSize
          n == PartCount(size, part)
      IN /\ n \in 1..MaximumParts
         /\ PartStart(part, 1) = 0 /\ PartEnd(size, part, n) = size
         /\ \A k \in 1..n : PartStart(part, k) < PartEnd(size, part, k)
         /\ \A k \in 1..n - 1 : /\ PartEnd(size, part, k) = PartStart(part, k + 1)
                                /\ PartEnd(size, part, k) - PartStart(part, k) = part

(* Settings that say what they mean in both languages.                     *)
OrdinarySetup ==
  /\ 0 \notin {setup.uploadExpiry, setup.threshold, setup.partSize}
  /\ setup.ttl = Unset \/ setup.ttl > 0
  /\ \A n \in {setup.threshold, setup.partSize} : n = Unset \/ n <= MaxSafe
  /\ Malformed \notin {setup.override.access, setup.override.retention, setup.override.halves}
  /\ setup.override.halves = Unset \/ setup.override.halves % 2 = 0
  /\ \A s \in Sdks : TtlOf(s) <= MaxDuration /\ setup.now + TtlOf(s) <= MaxDate

(* With them the two SDKs plan the same: the same access above all.        *)
PlansAgree ==
  (/\ OrdinarySetup
   /\ \A s \in Sdks : plan[s].code # "none")
  => plan["ts"] = plan["go"]
-----------------------------------------------------------------------------
(* Whatever has been decided follows from the request.                     *)
PlanInv ==
  /\ setup \in Setup
  /\ files \in Batches
  /\ DOMAIN plan = Planners
  /\ \A s \in Sdks : plan[s] \in {Undecided, Outcome(s)}
  /\ plan["server"] \in {Undecided, ServerOutcome}
=============================================================================
