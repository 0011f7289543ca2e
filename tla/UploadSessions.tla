----------------------------- MODULE UploadSessions -----------------------------
(***************************************************************************)
(* A multipart upload: UploadSession::is_complete and progress             *)
(* (models/chunk.rs) judged on loaded copies of the session, over a chunk  *)
(* store that is idempotent (StorageBackend::put_chunk).                   *)
(*                                                                         *)
(* The upload handlers and the database are external.  A handler writes    *)
(* its chunk, then records the chunk's ChunkRef and counts it in one       *)
(* transaction, a chunk that is recorded already counting for nothing, and *)
(* then loads the session and assembles the file when it is complete.  The *)
(* client sends every chunk again until the session is gone, so a chunk    *)
(* may be in two handlers at once, the store may fail, and a handler may   *)
(* crash anywhere.                                                         *)
(***************************************************************************)
EXTENDS Integers, FiniteSets

CONSTANTS
  Handlers,     \* the server's tasks that handle requests
  Totals,       \* the numbers of chunks a file may be cut into
  Gone,         \* the session's record has been deleted
  NoFile,       \* nothing has been assembled
  MaxCrashes    \* bound on the handlers that crash

UploadRecords == [completed_chunks : Nat, total_chunks : Nat]

ASSUME UploadAssumption ==
  /\ Totals \subseteq Nat
  /\ Gone \notin UploadRecords
  /\ MaxCrashes \in Nat

VARIABLES
  total,        \* the number of chunks of the file being uploaded
  session,      \* the UploadSession in the database
  persisted,    \* the chunks in the storage backend
  refs,         \* the file's ChunkRef rows
  pc,           \* what each handler is doing
  chunk,        \* the index of the chunk each handler was sent
  held,         \* the copy of the session each handler loaded
  file,         \* the chunks of the assembled file
  crashes       \* how many handlers have crashed

vars == <<total, session, persisted, refs, pc, chunk, held, file, crashes>>

\* ChunkInfo::index, ChunkRef::sequence: zero-based.
Chunks == 0..(total - 1)

Open(n) == [completed_chunks |-> 0, total_chunks |-> n]

Init ==
  /\ total \in Totals
  /\ session = Open(total)
  /\ persisted = {}
  /\ refs = {}
  /\ pc = [h \in Handlers |-> "idle"]
  /\ chunk = [h \in Handlers |-> 0]
  /\ held = [h \in Handlers |-> session]
  /\ file = NoFile
  /\ crashes = 0

-------------------------------------------------------------------------------
\* Slip: the count is compared with the last index.
IsCompleteAtLast(s) == s.completed_chunks + 1 >= s.total_chunks

\* Slip: a session that has received nothing is never complete.
IsCompleteNonEmpty(s) == s.completed_chunks > 0 /\ s.completed_chunks = s.total_chunks

IsComplete(s) == s.completed_chunks = s.total_chunks

\* Slip: no case of its own for a file without chunks.
ProgressPlain(s) == [done |-> s.completed_chunks, of |-> s.total_chunks]

\* The fraction that progress() returns.
Progress(s) ==
  IF s.total_chunks = 0
    THEN [done |-> 1, of |-> 1]
    ELSE [done |-> s.completed_chunks, of |-> s.total_chunks]

-------------------------------------------------------------------------------
Goto(h, from, to) == pc[h] = from /\ pc' = [pc EXCEPT ![h] = to]

\* The client sends a chunk, for the first time or again.
Send(h, c) ==
  /\ session # Gone
  /\ c \in Chunks
  /\ Goto(h, "idle", "writing")
  /\ chunk' = [chunk EXCEPT ![h] = c]
  /\ UNCHANGED <<total, session, persisted, refs, held, file, crashes>>

\* The client asks how far the upload is.
Poll(h) ==
  /\ session # Gone
  /\ Goto(h, "idle", "loading")
  /\ UNCHANGED <<total, session, persisted, refs, chunk, held, file, crashes>>

PutChunk(h) ==
  /\ Goto(h, "writing", "recording")
  /\ persisted' = persisted \cup {chunk[h]}
  /\ UNCHANGED <<total, session, refs, chunk, held, file, crashes>>

\* AppError::Storage, whether the chunk was written by then or not.  A Validation error
\* leaves the store alone; the keys of chunks are hashes, and give no cause for one.
PutChunkError(h) ==
  /\ Goto(h, "writing", "idle")
  /\ persisted' \in {persisted, persisted \cup {chunk[h]}}
  /\ UNCHANGED <<total, session, refs, chunk, held, file, crashes>>

\* Slip: every chunk that arrives is counted.
RecordEvery(h) ==
  /\ Goto(h, "recording", "loading")
  /\ IF session = Gone
       THEN UNCHANGED <<session, refs>>
       ELSE /\ refs' = refs \cup {chunk[h]}
            /\ session' = [session EXCEPT !.completed_chunks = @ + 1]
  /\ UNCHANGED <<total, persisted, chunk, held, file, crashes>>

\* A transaction: the chunk's ChunkRef, and the count if it is new.
Record(h) ==
  /\ Goto(h, "recording", "loading")
  /\ IF session = Gone \/ chunk[h] \in refs
       THEN UNCHANGED <<session, refs>>
       ELSE /\ refs' = refs \cup {chunk[h]}
            /\ session' = [session EXCEPT !.completed_chunks = @ + 1]
  /\ UNCHANGED <<total, persisted, chunk, held, file, crashes>>

Load(h) ==
  /\ \/ /\ session = Gone
        /\ Goto(h, "loading", "idle")
        /\ UNCHANGED held
     \/ /\ session # Gone
        /\ Goto(h, "loading", "judging")
        /\ held' = [held EXCEPT ![h] = session]
  /\ UNCHANGED <<total, session, persisted, refs, chunk, file, crashes>>

Judge(h) ==
  /\ Goto(h, "judging", IF IsComplete(held[h]) THEN "assembling" ELSE "idle")
  /\ UNCHANGED <<total, session, persisted, refs, chunk, held, file, crashes>>

\* Slip: the handler judged a copy, and takes the session to exist still.
AssembleUnchecked(h) ==
  /\ Goto(h, "assembling", "idle")
  /\ file' = refs /\ session' = Gone
  /\ UNCHANGED <<total, persisted, refs, chunk, held, crashes>>

\* The session is "deleted once assembly completes"; another handler may have been first.
Assemble(h) ==
  /\ Goto(h, "assembling", "idle")
  /\ file' = IF session = Gone THEN file ELSE refs
  /\ session' = Gone
  /\ UNCHANGED <<total, persisted, refs, chunk, held, crashes>>

\* "... or the session expires."
Expire ==
  /\ session # Gone
  /\ session' = Gone
  /\ UNCHANGED <<total, persisted, refs, pc, chunk, held, file, crashes>>

Crash(h) ==
  /\ crashes < MaxCrashes
  /\ pc[h] # "idle"
  /\ pc' = [pc EXCEPT ![h] = "idle"]
  /\ crashes' = crashes + 1
  /\ UNCHANGED <<total, session, persisted, refs, chunk, held, file>>

Work(h) == PutChunk(h) \/ PutChunkError(h) \/ Record(h) \/ Load(h) \/ Judge(h) \/ Assemble(h)

Next ==
  \/ \E h \in Handlers : (\E c \in Chunks : Send(h, c)) \/ Poll(h) \/ Work(h) \/ Crash(h)
  \/ Expire

\* Handlers go on, the client keeps sending each chunk and asking, and the store does not
\* fail for ever on a chunk that is sent again and again.
Fairness ==
  /\ \A h \in Handlers : WF_vars(Work(h))
  /\ \A c \in UNION {0..(n - 1) : n \in Totals} :
       /\ SF_vars(\E h \in Handlers : Send(h, c))
       /\ SF_vars(\E h \in Handlers : PutChunk(h) /\ chunk[h] = c)
  /\ SF_vars(\E h \in Handlers : Poll(h))

Spec == Init /\ [][Next]_vars /\ Fairness

-------------------------------------------------------------------------------
(* Properties. *)

(* Every variable keeps its type, and the session never counts more chunks  *)
(* than it expects, however often each arrives (UploadSession).             *)
TypeOK ==
  /\ total \in Totals
  /\ session = Gone \/ session \in UploadRecords
  /\ persisted \subseteq Chunks /\ refs \subseteq Chunks
  /\ pc \in [Handlers -> {"idle", "writing", "recording", "loading", "judging", "assembling"}]
  /\ chunk \in [Handlers -> Nat]
  /\ held \in [Handlers -> UploadRecords]
  /\ \A h \in Handlers : held[h].completed_chunks <= held[h].total_chunks
  /\ file = NoFile \/ file \subseteq Chunks
  /\ crashes \in Nat

(* A handler that found its copy complete assembles all chunks of the file, *)
(* each of them in the store, whichever handlers wrote, repeated or crashed *)
(* over them ("all expected chunks have been received", is_complete).       *)
AssembledWhole == file # NoFile => file = Chunks /\ file \subseteq persisted

(* The fraction every handler can report lies in [0, 1], also for a file    *)
(* without chunks and with chunks sent twice, and is never ahead of the     *)
(* store: it is no more than the share of the file's chunks that are there, *)
(* and so 1 only when all are.  It may lag behind (progress).               *)
ProgressInRange ==
  \A h \in Handlers :
    LET p == Progress(held[h])
    IN  /\ p.of > 0 /\ 0 <= p.done /\ p.done <= p.of
        /\ p.done * total <= p.of * Cardinality(persisted)

(* Every upload is assembled unless its session expires: no handler misses  *)
(* the moment of completion, which only equality detects, though the one    *)
(* that made it complete may crash before judging (is_complete).            *)
EventuallyAssembled == [](session = Gone => file # NoFile) => <>(file # NoFile)

\* The session is open while its record exists, and has received what is recorded.
Upload == INSTANCE WholeUpload
            WITH Totals <- Totals, NoFile <- NoFile, total <- total,
                 open <- (session # Gone), received <- refs, file <- file

(* Each step of the handlers is a step of one upload that receives each     *)
(* chunk once and ends once, whole or expired, and not never: no late       *)
(* handler assembles again, adds a chunk to a finished upload, or leaves a  *)
(* complete one open (UploadSession, "deleted once assembly completes or    *)
(* the session expires").                                                   *)
WholeUploadSpec == Upload!Spec
===============================================================================
