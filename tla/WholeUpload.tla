------------------------------ MODULE WholeUpload ------------------------------
(***************************************************************************)
(* What an UploadSession (models/chunk.rs) promises the client of one      *)
(* upload: while the session is open chunks are received, each for good;   *)
(* it ends once, with the assembly of all chunks or by expiring; and when  *)
(* all chunks have been received it does not stay open for ever.           *)
(***************************************************************************)
EXTENDS Integers

CONSTANTS
  Totals,     \* the numbers of chunks a file may be cut into
  NoFile      \* nothing has been assembled

VARIABLES
  total,      \* the number of chunks of the file
  open,       \* the session exists
  received,   \* the chunks received and persisted
  file        \* the chunks of the assembled file

vars == <<total, open, received, file>>

Chunks == 0..(total - 1)

Init == total \in Totals /\ open = TRUE /\ received = {} /\ file = NoFile

Receive ==
  /\ open
  /\ \E c \in Chunks \ received : received' = received \cup {c}
  /\ UNCHANGED <<total, open, file>>

Complete ==
  /\ open /\ received = Chunks
  /\ file' = Chunks /\ open' = FALSE
  /\ UNCHANGED <<total, received>>

Expire ==
  /\ open /\ open' = FALSE
  /\ UNCHANGED <<total, received, file>>

Next == Receive \/ Complete \/ Expire

Safety == Init /\ [][Next]_vars

Spec == Safety /\ WF_vars(Complete)
===============================================================================
