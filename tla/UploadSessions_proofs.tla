-------------------------- MODULE UploadSessions_proofs --------------------------
(***************************************************************************)
(* Proofs about UploadSessions, for any number of handlers and crashes and *)
(* files of any number of chunks.  The invariant says that the session     *)
(* counts the chunks recorded, each once, and that every handler's copy is *)
(* of the same session at an earlier count.                                *)
(***************************************************************************)
EXTENDS UploadSessions, FiniteSetTheorems, TLAPS

States == {"idle", "writing", "recording", "loading", "judging", "assembling"}

CountInv ==
  /\ persisted \subseteq Chunks /\ refs \subseteq persisted
  /\ session # Gone => session = [completed_chunks |-> Cardinality(refs),
                                  total_chunks |-> total]

CopyInv ==
  \A h \in Handlers :
    /\ held[h].total_chunks = total
    /\ held[h].completed_chunks <= Cardinality(refs)

HandlerInv ==
  \A h \in Handlers :
    /\ pc[h] \in {"writing", "recording"} => chunk[h] \in Chunks
    /\ pc[h] = "recording" => chunk[h] \in persisted
    /\ pc[h] = "assembling" => IsComplete(held[h])

UploadInv ==
  /\ total \in Nat /\ total \in Totals
  /\ pc \in [Handlers -> States]
  /\ chunk \in [Handlers -> Nat]
  /\ held \in [Handlers -> UploadRecords]
  /\ crashes \in Nat
  /\ CountInv /\ CopyInv /\ HandlerInv
  /\ AssembledWhole

-------------------------------------------------------------------------------
(* Any set of chunks of the file is finite, has at most as many members as  *)
(* the file has chunks, and is all of them when it has as many.             *)
LEMMA ChunkCount ==
  ASSUME total \in Nat, NEW S \in SUBSET Chunks
  PROVE  /\ IsFiniteSet(S)
         /\ Cardinality(S) \in Nat
         /\ Cardinality(S) <= total
         /\ Cardinality(S) = total => S = Chunks
<1>1. IsFiniteSet(Chunks) /\ Cardinality(Chunks) = total
  <2>1. IsFiniteSet(0..(total - 1))
    BY FS_Interval
  <2>2. Cardinality(0..(total - 1)) = IF 0 > total - 1 THEN 0 ELSE (total - 1) - 0 + 1
    BY FS_Interval
  <2>3. (IF 0 > total - 1 THEN 0 ELSE (total - 1) - 0 + 1) = total
    OBVIOUS
  <2> QED
    BY <2>1, <2>2, <2>3 DEF Chunks
<1>2. IsFiniteSet(S) /\ Cardinality(S) <= Cardinality(Chunks)
      /\ (Cardinality(S) = Cardinality(Chunks) => S = Chunks)
  BY <1>1, FS_Subset
<1> QED
  BY <1>1, <1>2, FS_CardinalityType

LEMMA InitUploadInv == Init => UploadInv
<1> SUFFICES ASSUME Init
             PROVE  UploadInv
  OBVIOUS
<1>1. total \in Nat
  BY UploadAssumption DEF Init
<1>2. Cardinality({}) = 0
  BY FS_EmptySet
<1>3. session = [completed_chunks |-> 0, total_chunks |-> total]
      /\ session \in UploadRecords
  BY <1>1 DEF Init, Open, UploadRecords
<1>4. CountInv /\ CopyInv /\ HandlerInv /\ AssembledWhole
  BY <1>1, <1>2, <1>3 DEF Init, CountInv, CopyInv, HandlerInv, AssembledWhole
<1> QED
  BY <1>1, <1>3, <1>4 DEF Init, UploadInv, States

(* The transaction counts a chunk once.                                     *)
LEMMA RecordKeeps ==
  ASSUME UploadInv, NEW h \in Handlers, Record(h)
  PROVE  UploadInv'
<1> USE DEF UploadInv
<1>1. CASE session = Gone \/ chunk[h] \in refs
  BY <1>1 DEF Record, Goto, CountInv, CopyInv, HandlerInv, AssembledWhole, States,
              Chunks, IsComplete
<1>2. CASE session # Gone /\ chunk[h] \notin refs
  <2>1. chunk[h] \in persisted /\ chunk[h] \in Chunks
    BY DEF Record, Goto, HandlerInv
  <2>2. refs' = refs \cup {chunk[h]} /\ refs \in SUBSET Chunks
    BY <1>2 DEF Record, CountInv
  <2>3. Cardinality(refs') = Cardinality(refs) + 1 /\ Cardinality(refs) \in Nat
    BY <1>2, <2>2, ChunkCount, FS_AddElement
  <2>4. session' = [completed_chunks |-> Cardinality(refs'), total_chunks |-> total]
    BY <1>2, <2>3 DEF Record, CountInv
  <2>5. CountInv'
    BY <2>1, <2>2, <2>4 DEF Record, CountInv, Chunks
  <2>6. CopyInv'
    <3>1. \A g \in Handlers : held[g].completed_chunks \in Nat
      BY DEF UploadRecords
    <3> QED
      BY <2>3, <3>1 DEF Record, CopyInv
  <2>7. HandlerInv' /\ pc' \in [Handlers -> States]
    BY DEF Record, Goto, HandlerInv, Chunks, IsComplete, States
  <2>8. AssembledWhole'
    BY DEF Record, AssembledWhole, Chunks
  <2> QED
    BY <2>5, <2>6, <2>7, <2>8 DEF Record
<1> QED
  BY <1>1, <1>2

(* A complete copy means that all chunks of the file are recorded.          *)
LEMMA AssembledAll ==
  ASSUME UploadInv, NEW h \in Handlers, Assemble(h)
  PROVE  refs = Chunks
<1> USE DEF UploadInv
<1>1. held[h].completed_chunks = total
  BY DEF Assemble, Goto, HandlerInv, CopyInv, IsComplete
<1>2. refs \in SUBSET Chunks
  BY DEF CountInv
<1>3. total <= Cardinality(refs)
  BY <1>1 DEF CopyInv
<1> QED
  BY <1>2, <1>3, ChunkCount

LEMMA AssembleKeeps ==
  ASSUME UploadInv, NEW h \in Handlers, Assemble(h)
  PROVE  UploadInv'
<1> USE DEF UploadInv
<1>1. refs = Chunks
  BY AssembledAll
<1>2. CountInv' /\ CopyInv'
  BY DEF Assemble, CountInv, CopyInv, Chunks
<1>3. HandlerInv' /\ pc' \in [Handlers -> States]
  BY DEF Assemble, Goto, HandlerInv, Chunks, IsComplete, States
<1>4. AssembledWhole'
  BY <1>1 DEF Assemble, AssembledWhole, CountInv, Chunks
<1> QED
  BY <1>2, <1>3, <1>4 DEF Assemble

LEMMA NextUploadInv == UploadInv /\ [Next]_vars => UploadInv'
<1> SUFFICES ASSUME UploadInv, [Next]_vars
             PROVE  UploadInv'
  OBVIOUS
<1> USE DEF UploadInv, CountInv, CopyInv, HandlerInv, AssembledWhole, States, Chunks,
            IsComplete
<1>1. ASSUME NEW h \in Handlers, NEW c \in Chunks, Send(h, c)
      PROVE  UploadInv'
  BY <1>1 DEF Send, Goto
<1>2. ASSUME NEW h \in Handlers, Poll(h)
      PROVE  UploadInv'
  BY <1>2 DEF Poll, Goto
<1>3. ASSUME NEW h \in Handlers, PutChunk(h)
      PROVE  UploadInv'
  BY <1>3 DEF PutChunk, Goto
<1>10. ASSUME NEW h \in Handlers, PutChunkError(h)
       PROVE  UploadInv'
  <2>1. persisted \subseteq persisted' /\ persisted' \subseteq persisted \cup {chunk[h]}
    BY <1>10 DEF PutChunkError
  <2> QED
    BY <1>10, <2>1 DEF PutChunkError, Goto
<1>4. ASSUME NEW h \in Handlers, Load(h)
      PROVE  UploadInv'
  <2>1. refs \in SUBSET Chunks
    OBVIOUS
  <2>2. Cardinality(refs) \in Nat
    BY <2>1, ChunkCount
  <2>3. CASE session = Gone
    BY <1>4, <2>3 DEF Load, Goto
  <2>4. CASE session # Gone
    <3>1. session \in UploadRecords
      BY <2>2, <2>4 DEF UploadRecords
    <3> QED
      BY <1>4, <2>2, <2>4, <3>1 DEF Load, Goto
  <2> QED
    BY <2>3, <2>4
<1>5. ASSUME NEW h \in Handlers, Judge(h)
      PROVE  UploadInv'
  BY <1>5 DEF Judge, Goto
<1>6. ASSUME NEW h \in Handlers, Crash(h)
      PROVE  UploadInv'
  BY <1>6 DEF Crash
<1>7. ASSUME Expire
      PROVE  UploadInv'
  BY <1>7 DEF Expire
<1>8. ASSUME UNCHANGED vars
      PROVE  UploadInv'
  BY <1>8 DEF vars
<1>9. ASSUME NEW h \in Handlers, Work(h)
      PROVE  UploadInv'
  BY <1>3, <1>4, <1>5, <1>9, <1>10, RecordKeeps, AssembleKeeps DEF Work
<1> QED
  BY <1>1, <1>2, <1>6, <1>7, <1>8, <1>9 DEF Next

LEMMA UploadInvHolds == Spec => []UploadInv
BY InitUploadInv, NextUploadInv, PTL DEF Spec

-------------------------------------------------------------------------------
(* No session counts more chunks than it expects, in the database or on a   *)
(* copy (UploadSession).                                                    *)
THEOREM TypeCorrect == Spec => []TypeOK
<1>1. UploadInv => TypeOK
  <2> SUFFICES ASSUME UploadInv
               PROVE  TypeOK
    OBVIOUS
  <2>1. refs \in SUBSET Chunks /\ total \in Nat
    BY DEF UploadInv, CountInv
  <2>2. Cardinality(refs) \in Nat /\ Cardinality(refs) <= total
    BY <2>1, ChunkCount
  <2>3. session = Gone \/ session \in UploadRecords
    BY <2>1, <2>2 DEF UploadInv, CountInv, UploadRecords
  <2>4. \A h \in Handlers : held[h].completed_chunks \in Nat
    BY DEF UploadInv, UploadRecords
  <2>5. \A h \in Handlers : held[h].completed_chunks <= held[h].total_chunks
    BY <2>1, <2>2, <2>4 DEF UploadInv, CopyInv
  <2>6. file = NoFile \/ file \subseteq Chunks
    BY DEF UploadInv, AssembledWhole
  <2> QED
    BY <2>1, <2>3, <2>5, <2>6 DEF TypeOK, UploadInv, CountInv, States
<1> QED
  BY <1>1, UploadInvHolds, PTL

(* Whatever chunks are sent twice, late or from several handlers at once,   *)
(* and wherever handlers crash, an assembled file has all of its chunks     *)
(* (UploadSession::is_complete).                                            *)
THEOREM FilesAreWhole == Spec => []AssembledWhole
<1>1. UploadInv => AssembledWhole
  BY DEF UploadInv
<1> QED
  BY <1>1, UploadInvHolds, PTL

(* progress() lies in [0, 1] and is never ahead of the chunks in the store. *)
THEOREM ProgressIsFraction == Spec => []ProgressInRange
<1>1. UploadInv => ProgressInRange
  <2> SUFFICES ASSUME UploadInv, NEW h \in Handlers
               PROVE  LET p == Progress(held[h])
                      IN  /\ p.of > 0 /\ 0 <= p.done /\ p.done <= p.of
                          /\ p.done * total <= p.of * Cardinality(persisted)
    BY DEF ProgressInRange
  <2>1. refs \in SUBSET Chunks /\ total \in Nat /\ refs \subseteq persisted
    BY DEF UploadInv, CountInv
  <2>2. /\ Cardinality(refs) \in Nat /\ Cardinality(refs) <= total
        /\ Cardinality(persisted) \in Nat /\ Cardinality(refs) <= Cardinality(persisted)
    <3>1. persisted \in SUBSET Chunks
      BY DEF UploadInv, CountInv
    <3> QED
      BY <2>1, <3>1, ChunkCount, FS_Subset
  <2>3. /\ held[h].completed_chunks \in Nat
        /\ held[h].completed_chunks <= Cardinality(refs)
        /\ held[h].total_chunks = total
    BY DEF UploadInv, CopyInv, UploadRecords
  <2>4. CASE total = 0
    BY <2>2, <2>3, <2>4 DEF Progress
  <2>5. CASE total # 0
    <3> DEFINE done == held[h].completed_chunks
    <3>1. Progress(held[h]) = [done |-> done, of |-> total]
      BY <2>3, <2>5 DEF Progress
    <3>2. done \in Nat /\ done <= total /\ done <= Cardinality(persisted)
      BY <2>1, <2>2, <2>3
    <3>3. done * total <= total * Cardinality(persisted)
      BY <2>1, <2>2, <3>2
    <3> QED
      BY <2>1, <2>5, <3>1, <3>2, <3>3
  <2> QED
    BY <2>4, <2>5
<1> QED
  BY <1>1, UploadInvHolds, PTL
-------------------------------------------------------------------------------
(* A handler completes the upload with all chunks, or finds it ended.       *)
LEMMA AssembleCompletes ==
  ASSUME UploadInv, NEW h \in Handlers, Assemble(h)
  PROVE  [Upload!Next]_(Upload!vars)
<1>1. CASE session = Gone
  BY <1>1 DEF Assemble, Upload!vars
<1>2. CASE session # Gone
  <2>1. refs = Chunks /\ Upload!Chunks = Chunks
    BY AssembledAll DEF Upload!Chunks, Chunks
  <2>2. Upload!Complete
    BY <1>2, <2>1 DEF Assemble, Upload!Complete
  <2> QED
    BY <2>2 DEF Upload!Next
<1> QED
  BY <1>1, <1>2

(* A handler records a chunk that the upload had not received, or nothing.  *)
LEMMA RecordReceives ==
  ASSUME UploadInv, NEW h \in Handlers, Record(h)
  PROVE  [Upload!Next]_(Upload!vars)
<1>1. CASE session = Gone \/ chunk[h] \in refs
  BY <1>1 DEF Record, Upload!vars
<1>2. CASE session # Gone /\ chunk[h] \notin refs
  <2>1. chunk[h] \in Chunks
    BY DEF Record, Goto, UploadInv, HandlerInv
  <2>2. session' # Gone
    <3>1. session' = [session EXCEPT !.completed_chunks = session.completed_chunks + 1]
      BY <1>2 DEF Record
    <3>2. session.completed_chunks \in Nat /\ session \in UploadRecords
      <4>1. refs \in SUBSET Chunks
        BY DEF UploadInv, CountInv
      <4>2. Cardinality(refs) \in Nat
        BY <4>1, ChunkCount DEF UploadInv
      <4> QED
        BY <1>2, <4>2 DEF UploadInv, CountInv, UploadRecords
    <3>3. session' \in UploadRecords
      BY <3>1, <3>2 DEF UploadRecords
    <3> QED
      BY <3>3, UploadAssumption
  <2>3. Upload!Receive
    BY <1>2, <2>1, <2>2 DEF Record, Upload!Receive, Upload!Chunks, Chunks
  <2> QED
    BY <2>3 DEF Upload!Next
<1> QED
  BY <1>1, <1>2

(* Whatever the handlers do, it is a step of one upload that receives each  *)
(* chunk for good and ends at most once, whole or expired (UploadSession).  *)
THEOREM ImplementsWholeUpload == Spec => Upload!Safety
<1>1. Init => Upload!Init
  BY UploadAssumption DEF Init, Upload!Init, Open, UploadRecords
<1>2. UploadInv /\ [Next]_vars => [Upload!Next]_(Upload!vars)
  <2> SUFFICES ASSUME UploadInv, [Next]_vars
               PROVE  [Upload!Next]_(Upload!vars)
    OBVIOUS
  <2>1. ASSUME NEW h \in Handlers, (\E c \in Chunks : Send(h, c)) \/ Poll(h) \/ PutChunk(h)
                                  \/ PutChunkError(h) \/ Load(h) \/ Judge(h) \/ Crash(h)
        PROVE  UNCHANGED Upload!vars
    BY <2>1 DEF Send, Poll, PutChunk, PutChunkError, Load, Judge, Crash, Upload!vars
  <2>2. CASE Expire
    BY <2>2 DEF Expire, Upload!Next, Upload!Expire
  <2>3. CASE UNCHANGED vars
    BY <2>3 DEF vars, Upload!vars
  <2> QED
    BY <2>1, <2>2, <2>3, AssembleCompletes, RecordReceives DEF Next, Work
<1> QED
  BY <1>1, <1>2, UploadInvHolds, PTL DEF Spec, Upload!Safety
===============================================================================
