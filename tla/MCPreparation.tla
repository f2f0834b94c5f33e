---------------------------- MODULE MCPreparation ----------------------------
(***************************************************************************)
(* Batches of up to three files against rules for some of the keys, with   *)
(* settings that are left at their defaults; and one file of any size      *)
(* against a rule that lets it through, with settings of all kinds.        *)
(***************************************************************************)
EXTENDS Preparation, TLC

CONSTANTS png, jpeg, zip, image

(* A type with a group that other types share, and one that is its own.    *)
MCGroupOf == png :> image @@ jpeg :> image @@ zip :> zip

MCRules == [maxSize : {1}, text : {FALSE}, maxCount : {Unset, 0, 2},
            mimeTypes : {Unset, {}, {png}}]

(* Limits at the ends of what either SDK takes for one.                    *)
Limiting == [maxSize : {0, MaxSafe, MaxSafe + 1}, text : BOOLEAN, maxCount : {Unset, -1},
             mimeTypes : {Unset}]

Roomy == png :> [maxSize |-> 14, text |-> TRUE, maxCount |-> Unset, mimeTypes |-> Unset]

(* Rules for neither, one or both of a type and its group.                 *)
MCRuleSets == {Roomy} \cup [{png} -> Limiting]
              \cup UNION {[D -> MCRules] : D \in SUBSET {png, image}}

MCBatches == UNION {[1..n -> [type : Types, size : 0..2]] : n \in 0..3}
             \cup [1..1 -> [type : {png}, size : 3..14]]
             \cup [1..2 -> [type : {png, zip}, size : {1, MaxSafe, MaxSafe + 1, MaxInt + 1}]]

None == [access |-> Unset, retention |-> Unset, halves |-> Unset]
NoUpload == [access |-> Unset, retention |-> Unset, expiresAt |-> Unset]

Defaults == [access |-> "public", retention |-> "permanent", ttl |-> Unset,
             option |-> "WithRetention", override |-> None, uploadExpiry |-> Unset, threshold |-> Unset,
             partSize |-> Unset, now |-> 0, upload |-> NoUpload]

Overrides == [access : {Unset, "private", Other, Malformed},
              retention : {Unset, "temporary", Malformed},
              halves : {Unset, Malformed, 0, 1, 3, 4, 26}]

Policies ==
  {[Defaults EXCEPT !.retention = r, !.ttl = ttl, !.override = o, !.now = t] :
     r \in Retentions, ttl \in {Unset, 0, 2, 5, 13, 30, MaxSafe + 1}, o \in Overrides,
     t \in {0, 4}}
  \cup {[Defaults EXCEPT !.ttl = ttl, !.option = "WithTemporaryTTL", !.override = o] :
     ttl \in {Unset, 0, 2}, o \in Overrides}

ServerUploads ==
  {[Defaults EXCEPT !.now = t, !.upload = u] :
     t \in {0, 4},
     u \in [access : {Unset, "private", Other},
            retention : {Unset, "permanent", "temporary", Other},
            expiresAt : {Unset, 0, 4, 5, 6, 9}]}

Limits ==
  {[Defaults EXCEPT !.uploadExpiry = e, !.threshold = n, !.partSize = p] :
     e \in {Unset, 0, 1, 6}, n \in {Unset, 0, 1, 6, MaxSafe + 1},
     p \in {Unset, 0, 1, 3, 5, MaxSafe + 1}}

MCSetupsFor(r, f) ==
  IF r # Roomy \/ Len(f) # 1 THEN {Defaults}
  ELSE IF f[1].size = 1 THEN Policies \cup ServerUploads ELSE Limits
=============================================================================
