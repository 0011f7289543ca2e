----------------------------- MODULE ShareDownloads -----------------------------
(***************************************************************************)
(* Concurrent downloads through one share link: ShareLink::is_valid_at     *)
(* (models/share.rs) and the record it judges.                             *)
(*                                                                         *)
(* is_valid_at judges a copy of the record, loaded before, at a time its   *)
(* caller supplies; the download is counted in the store afterwards.  The  *)
(* store and the sessions that download are external: loading and counting *)
(* are one step each, counting is an increment in the store, and between   *)
(* loading, judging and counting anything else may happen.  The time is    *)
(* the host's wall clock, which may be set back.                           *)
(***************************************************************************)
EXTENDS Integers, FiniteSets

CONSTANTS
  Sessions,    \* the sessions that download through the link
  Links,       \* the records the link may start with
  NoLimit,     \* Option::None in download_limit
  NoExpiry,    \* Option::None in expires_at
  MaxClock,    \* bound on the wall clock
  MaxCount     \* bound on the downloads of a link without a limit

Times == 0..MaxClock

LinkRecords == [expires_at : Nat \cup {NoExpiry}, download_limit : Nat \cup {NoLimit},
                download_count : Nat]

ASSUME ShareAssumption ==
  /\ IsFiniteSet(Sessions) /\ Sessions # {}
  /\ NoLimit \notin Nat /\ NoExpiry \notin Nat
  /\ Links \subseteq LinkRecords
  /\ \A l \in Links : l.download_limit # NoLimit => l.download_count <= l.download_limit
  /\ MaxClock \in Nat /\ MaxCount \in Nat

VARIABLES
  now,      \* the wall clock
  link,     \* the link's record in the store
  phase,    \* what each session is doing
  held      \* the copy of the record each session loaded

vars == <<now, link, phase, held>>

Init ==
  /\ now = 0
  /\ link \in Links
  /\ phase = [s \in Sessions |-> "idle"]
  /\ held = [s \in Sessions |-> link]

Expired(l, t) == l.expires_at # NoExpiry /\ t > l.expires_at

\* Slip: the limit itself still counts as room for one more.
ExhaustedAboveLimit(l) == l.download_limit # NoLimit /\ l.download_count > l.download_limit

\* Slip: only a count that hits the limit exactly is noticed.
ExhaustedAtLimit(l) == l.download_limit # NoLimit /\ l.download_count = l.download_limit

Exhausted(l) == l.download_limit # NoLimit /\ l.download_count >= l.download_limit

IsValidAt(l, t) == ~ Expired(l, t) /\ ~ Exhausted(l)

-------------------------------------------------------------------------------
Load(s) ==
  /\ phase[s] = "idle"
  /\ phase' = [phase EXCEPT ![s] = "loaded"]
  /\ held' = [held EXCEPT ![s] = link]
  /\ UNCHANGED <<now, link>>

\* Slip: judging counts the download too, on the session's copy.
JudgeAndCount(s) ==
  /\ phase[s] = "loaded"
  /\ phase' = [phase EXCEPT ![s] = IF IsValidAt(held[s], now) THEN "serving" ELSE "idle"]
  /\ held' = [held EXCEPT ![s].download_count = @ + 1]
  /\ UNCHANGED <<now, link>>

Judge(s) ==
  /\ phase[s] = "loaded"
  /\ phase' = [phase EXCEPT ![s] = IF IsValidAt(held[s], now) THEN "serving" ELSE "idle"]
  /\ UNCHANGED <<now, link, held>>

Count(s) ==
  /\ phase[s] = "serving"
  /\ link.download_count < MaxCount
  /\ phase' = [phase EXCEPT ![s] = "idle"]
  /\ link' = [link EXCEPT !.download_count = @ + 1]
  /\ UNCHANGED <<now, held>>

\* The transfer breaks off and is not counted.
Abort(s) ==
  /\ phase[s] = "serving"
  /\ phase' = [phase EXCEPT ![s] = "idle"]
  /\ UNCHANGED <<now, link, held>>

Tick ==
  /\ now < MaxClock
  /\ now' = now + 1
  /\ UNCHANGED <<link, phase, held>>

\* The host's clock is set back: the time supplied need not grow.
StepBack ==
  /\ now' \in 0..(now - 1)
  /\ UNCHANGED <<link, phase, held>>

Next ==
  \/ \E s \in Sessions : Load(s) \/ Judge(s) \/ Count(s) \/ Abort(s)
  \/ Tick \/ StepBack

Spec == Init /\ [][Next]_vars

-------------------------------------------------------------------------------
(* Properties. *)

(* The record keeps its types and a session's copy is of the same link with *)
(* no more downloads than the record has (ShareLink).                       *)
TypeOK ==
  /\ now \in Nat
  /\ link \in LinkRecords
  /\ phase \in [Sessions -> {"idle", "loaded", "serving"}]
  /\ held \in [Sessions -> LinkRecords]
  /\ \A s \in Sessions :
       /\ held[s].download_limit = link.download_limit
       /\ held[s].expires_at = link.expires_at
       /\ held[s].download_count <= link.download_count

(* However the sessions interleave, the limit is overrun by no more than    *)
(* the sessions that were let in together with the last one allowed, and a  *)
(* limit of zero lets nobody in (ShareLink::is_valid_at, download_limit).   *)
OvershootBounded ==
  link.download_limit # NoLimit =>
    link.download_count <= IF link.download_limit = 0
                             THEN 0
                             ELSE link.download_limit + Cardinality(Sessions) - 1

(* An invalid link becomes valid again in one way only: it is below its     *)
(* limit, had expired, and the clock is set back.  One whose limit is used  *)
(* up stays invalid under every clock, though its count runs past the limit *)
(* (ShareLink::is_valid_at).                                                *)
RevivedByClockOnly ==
  [][~ IsValidAt(link, now) /\ IsValidAt(link', now')
       => Expired(link, now) /\ ~ Exhausted(link) /\ now' < now]_vars

(* A session that is turned away on its copy of the record, however old,    *)
(* would be turned away on the record itself (ShareLink::is_valid_at).      *)
RefusalIsRight ==
  [][\A s \in Sessions :
       phase[s] = "loaded" /\ phase'[s] = "idle" => ~ IsValidAt(link, now)]_vars
===============================================================================
