--------------------------- MODULE UploadContract ---------------------------
(***************************************************************************)
(* What Raildrop promises an application about each upload session, with   *)
(* no server, bucket or request in sight.  A file is stored, seen to be    *)
(* the declared one, recorded by the application and only then reported to *)
(* the client, in this order.  From the moment it is verified its storage  *)
(* is not reclaimed until its retention ends; before, it may be (that is   *)
(* what the cleanup jobs do).  A file cannot be stored twice, except where *)
(* the client was given a URL it may use again.                            *)
(***************************************************************************)
CONSTANTS
  Sessions,    \* upload sessions
  Temporary,   \* those whose file has an end of retention
  Replaceable  \* those whose file may be stored again

VARIABLES
  content,  \* the file in the bucket
  record    \* how far the session has come with the application

contractVars == <<content, record>>

ContractTypeOK ==
  /\ content \in [Sessions -> {"absent", "whole", "damaged"}]
  /\ record \in [Sessions -> {"none", "verified", "tracked", "acknowledged", "expired"}]

Init ==
  /\ content = [s \in Sessions |-> "absent"]
  /\ record = [s \in Sessions |-> "none"]

Put(s) ==
  /\ content[s] = "absent" \/ s \in Replaceable
  /\ \E c \in {"whole", "damaged"} : content' = [content EXCEPT ![s] = c]
  /\ UNCHANGED record

Move(s, from, to) ==
  /\ record[s] = from
  /\ record' = [record EXCEPT ![s] = to]
  /\ UNCHANGED content

Verify(s)      == content[s] = "whole" /\ Move(s, "none", "verified")
GiveUp(s)      == Move(s, "verified", "none")
Track(s)       == Move(s, "verified", "tracked")
Acknowledge(s) == Move(s, "tracked", "acknowledged")

(* Several files may be deleted with one request.                          *)
Discard ==
  /\ \E gone \in SUBSET {s \in Sessions : record[s] \in {"none", "expired"}} :
       content' = [s \in Sessions |-> IF s \in gone THEN "absent" ELSE content[s]]
  /\ UNCHANGED record

(* Time passes for every session alike, so several files may expire at once. *)
Expire ==
  /\ \E ended \in SUBSET Temporary :
       record' = [s \in Sessions |-> IF s \in ended THEN "expired" ELSE record[s]]
  /\ UNCHANGED content

Next ==
  \/ \E s \in Sessions :
       Put(s) \/ Verify(s) \/ GiveUp(s) \/ Track(s) \/ Acknowledge(s)
  \/ Discard \/ Expire

Spec == Init /\ [][Next]_contractVars
=============================================================================
