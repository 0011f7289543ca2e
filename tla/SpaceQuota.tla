------------------------------- MODULE SpaceQuota -------------------------------
(***************************************************************************)
(* Uploads into a space with a storage quota: Space::remaining_quota and   *)
(* Space::is_quota_exceeded (models/space.rs), judged on loaded copies.    *)
(*                                                                         *)
(* The upload service and the store are external.  A session loads the     *)
(* space and decides on its copy: by remaining_quota when it knows the     *)
(* size of the file, by is_quota_exceeded when the size shows only as the  *)
(* file streams in.  What it has stored it adds to storage_used later.     *)
(* Files are deleted at any time.                                          *)
(***************************************************************************)
EXTENDS Integers, FiniteSets

CONSTANTS
  Sessions,     \* the sessions that upload into the space
  Quotas,       \* the quotas the space may have
  NoQuota,      \* Option::None in storage_quota
  MaxU64,       \* u64::MAX
  MaxSize,      \* the largest file a session uploads
  MaxUsed       \* bound on the bytes in a space without a quota

ASSUME QuotaAssumption ==
  /\ IsFiniteSet(Sessions) /\ Sessions # {}
  /\ MaxU64 \in Nat
  /\ NoQuota \notin Nat /\ Quotas \subseteq 0..MaxU64 \cup {NoQuota}
  /\ MaxSize \in Nat /\ MaxUsed \in Nat

VARIABLES
  sized,    \* the sessions that know the size of their files in advance
  space,    \* the space's record in the store
  phase,    \* what each session is doing
  held,     \* the copy of the space each session loaded
  size      \* the bytes each session uploads

vars == <<sized, space, phase, held, size>>

Spaces == [storage_quota : Nat \cup {NoQuota}, storage_used : Nat]

Init ==
  /\ sized \in SUBSET Sessions
  /\ \E q \in Quotas : space = [storage_quota |-> q, storage_used |-> 0]
  /\ phase = [s \in Sessions |-> "idle"]
  /\ held = [s \in Sessions |-> space]
  /\ size = [s \in Sessions |-> 0]

-------------------------------------------------------------------------------
HasQuota(sp) == sp.storage_quota # NoQuota

\* Slip: only a space that is exactly full counts.
IsQuotaExceededAtQuota(sp) == HasQuota(sp) /\ sp.storage_used = sp.storage_quota

IsQuotaExceeded(sp) == HasQuota(sp) /\ sp.storage_used > sp.storage_quota

\* Slip: the difference wraps around in u64 when the quota is overrun.
RemainingQuotaWrapping(sp) ==
  IF HasQuota(sp) THEN (sp.storage_quota - sp.storage_used) % (MaxU64 + 1) ELSE NoQuota

RemainingQuota(sp) ==
  IF ~ HasQuota(sp)
    THEN NoQuota
    ELSE IF sp.storage_used > sp.storage_quota
           THEN 0
           ELSE sp.storage_quota - sp.storage_used

Fits(sp, n) == HasQuota(sp) => n <= RemainingQuota(sp)

-------------------------------------------------------------------------------
Load(s) ==
  /\ phase[s] = "idle"
  /\ phase' = [phase EXCEPT ![s] = "loaded"]
  /\ held' = [held EXCEPT ![s] = space]
  /\ \E n \in 0..MaxSize : size' = [size EXCEPT ![s] = n]
  /\ UNCHANGED <<sized, space>>

\* A session that knows the size of its file.
JudgeSized(s) ==
  /\ s \in sized
  /\ phase[s] = "loaded"
  /\ phase' = [phase EXCEPT ![s] = IF Fits(held[s], size[s]) THEN "uploading" ELSE "idle"]
  /\ UNCHANGED <<sized, space, held, size>>

\* A session that does not.
JudgeStream(s) ==
  /\ s \notin sized
  /\ phase[s] = "loaded"
  /\ phase' = [phase EXCEPT ![s] = IF IsQuotaExceeded(held[s]) THEN "idle" ELSE "uploading"]
  /\ UNCHANGED <<sized, space, held, size>>

Commit(s) ==
  /\ phase[s] = "uploading"
  /\ HasQuota(space) \/ space.storage_used + size[s] <= MaxUsed
  /\ phase' = [phase EXCEPT ![s] = "idle"]
  /\ space' = [space EXCEPT !.storage_used = @ + size[s]]
  /\ UNCHANGED <<sized, held, size>>

Abort(s) ==
  /\ phase[s] = "uploading"
  /\ phase' = [phase EXCEPT ![s] = "idle"]
  /\ UNCHANGED <<sized, space, held, size>>

Delete ==
  /\ \E n \in 1..space.storage_used :
       space' = [space EXCEPT !.storage_used = @ - n]
  /\ UNCHANGED <<sized, phase, held, size>>

Next ==
  \/ \E s \in Sessions : Load(s) \/ JudgeSized(s) \/ JudgeStream(s) \/ Commit(s) \/ Abort(s)
  \/ Delete

Spec == Init /\ [][Next]_vars

-------------------------------------------------------------------------------
(* Properties. *)

(* The record keeps its types, and what a session uploads under a quota it  *)
(* knew in advance fits into the whole of it (Space, remaining_quota).      *)
TypeOK ==
  /\ sized \subseteq Sessions
  /\ space \in Spaces
  /\ phase \in [Sessions -> {"idle", "loaded", "uploading"}]
  /\ held \in [Sessions -> Spaces]
  /\ size \in [Sessions -> 0..MaxSize]
  /\ \A s \in Sessions :
       /\ held[s].storage_quota = space.storage_quota
       /\ s \in sized /\ HasQuota(space) /\ phase[s] = "uploading"
            => size[s] <= space.storage_quota

(* However uploads and deletions interleave, the quota is overrun by no     *)
(* more than one file of every session but one when sizes are known, and    *)
(* of every session when they are not: an overrun never lets more uploads   *)
(* in (remaining_quota, is_quota_exceeded).                                 *)
OvershootBounded ==
  HasQuota(space) =>
    LET over == IF sized = Sessions THEN Cardinality(Sessions) - 1 ELSE Cardinality(Sessions)
    IN  space.storage_used <= space.storage_quota + over * MaxSize

(* A space that is beyond its quota grows only by uploads that were let in  *)
(* on a copy from before the overrun (remaining_quota, is_quota_exceeded).  *)
OverrunOnOldCopies ==
  [][HasQuota(space) /\ space.storage_quota < space.storage_used
       /\ space.storage_used < space'.storage_used
     => \E s \in Sessions :
          /\ phase[s] = "uploading" /\ phase'[s] = "idle"
          /\ held[s].storage_used <= space.storage_quota]_vars
===============================================================================
