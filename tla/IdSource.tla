------------------------------- MODULE IdSource -------------------------------
(***************************************************************************)
(* What the newtype identifiers of jiezi-cloud-core promise their users    *)
(* (types.rs, "time-ordered UUIDs"): a server process hands identifiers    *)
(* out one at a time, each later than every one it handed out before.      *)
(* A process that starts again knows nothing of its previous life.         *)
(***************************************************************************)
EXTENDS Integers, Sequences

VARIABLE issued    \* the identifiers of this process, in the order of issue

(***************************************************************************)
(* UUIDv7 identifiers compare by their millisecond first and then by the   *)
(* counter that follows it.                                                *)
(***************************************************************************)
Older(a, b) ==
  \/ a.ms < b.ms
  \/ a.ms = b.ms /\ a.ctr < b.ctr

Init == issued = <<>>

Issue ==
  /\ Len(issued') = Len(issued) + 1
  /\ SubSeq(issued', 1, Len(issued)) = issued
  /\ \A k \in 1..Len(issued) : Older(issued[k], issued'[Len(issued')])

Restart == issued' = <<>>

Next == Issue \/ Restart

Spec == Init /\ [][Next]_issued
===============================================================================
