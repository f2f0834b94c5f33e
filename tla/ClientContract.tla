--------------------------- MODULE ClientContract ---------------------------
(***************************************************************************)
(* What a client of Raildrop promises the application that hands it files, *)
(* with no part, worker, retry or resume store in sight.  A call works     *)
(* with one session per file, takes the files in their order, and counts a *)
(* file only when the server has stored it.  It returns when all of them   *)
(* count, and that is final; a call that fails counts nothing, and the     *)
(* next one begins with the first file.  While a call works nobody stores  *)
(* anything but the file it is at.                                         *)
(***************************************************************************)
EXTENDS Integers

CONSTANTS
  FileCount,  \* files of a call
  Sessions,   \* upload sessions
  NoSession   \* what a file has outside a call

VARIABLES
  stage,      \* of the call: idle, working, done
  entry,      \* the session of each file
  confirmed,  \* how many files count
  stored      \* the sessions whose file the server has stored

clientVars == <<stage, entry, confirmed, stored>>

Files == 1..FileCount
NoEntries == [f \in Files |-> NoSession]

Init ==
  /\ stage = "idle"
  /\ entry = NoEntries
  /\ confirmed = 0
  /\ stored = {}

(* Sessions are handed out to one file each; a new one has nothing stored. *)
Start ==
  /\ stage = "idle" /\ stage' = "working"
  /\ entry' \in [Files -> Sessions]
  /\ \A f, g \in Files : entry'[f] = entry'[g] => f = g
  /\ confirmed' = 0
  /\ stored' \subseteq stored
  /\ stored \ stored' \subseteq {entry'[f] : f \in Files}

(* Nothing is stored, or the file the call is at.                          *)
OnlyCurrentStored == stored' \in {stored, stored \cup {entry[confirmed + 1]}}

Store ==
  /\ stage = "working"
  /\ OnlyCurrentStored
  /\ UNCHANGED <<stage, entry, confirmed>>

Confirm ==
  /\ stage = "working"
  /\ OnlyCurrentStored
  /\ entry[confirmed + 1] \in stored'
  /\ confirmed' = confirmed + 1
  /\ stage' = IF confirmed' = FileCount THEN "done" ELSE "working"
  /\ UNCHANGED entry

GiveUp ==
  /\ stage = "working" /\ stage' = "idle"
  /\ OnlyCurrentStored
  /\ entry' = NoEntries
  /\ confirmed' = 0

Next == Start \/ Store \/ Confirm \/ GiveUp

Spec == Init /\ [][Next]_clientVars
=============================================================================
