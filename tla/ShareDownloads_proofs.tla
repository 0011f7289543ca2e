-------------------------- MODULE ShareDownloads_proofs --------------------------
(***************************************************************************)
(* Proofs about ShareDownloads, for any number of sessions and any link.   *)
(***************************************************************************)
EXTENDS ShareDownloads, FiniteSetTheorems, TLAPS

USE ShareAssumption

\* A record keeps its type and its other fields when a download is counted (ShareLink).
LEMMA CountRecord ==
  ASSUME NEW l \in LinkRecords
  PROVE  LET m == [l EXCEPT !.download_count = @ + 1]
         IN  /\ m \in LinkRecords
             /\ m.download_limit = l.download_limit
             /\ m.expires_at = l.expires_at
             /\ m.download_count = l.download_count + 1
             /\ l.download_count \in Nat
BY DEF LinkRecords

LEMMA TypeOKInit == Init => TypeOK
BY DEF Init, TypeOK, LinkRecords

LEMMA TypeOKNext == TypeOK /\ [Next]_vars => TypeOK'
<1> SUFFICES ASSUME TypeOK, [Next]_vars
             PROVE  TypeOK'
  OBVIOUS
<1> USE DEF TypeOK
<1>0. link.download_count \in Nat /\ \A s \in Sessions : held[s].download_count \in Nat
  BY DEF LinkRecords
<1>1. ASSUME NEW s \in Sessions, Load(s)
      PROVE  TypeOK'
  BY <1>0, <1>1 DEF Load
<1>2. ASSUME NEW s \in Sessions, Judge(s)
      PROVE  TypeOK'
  BY <1>2 DEF Judge
<1>3. ASSUME NEW s \in Sessions, Count(s)
      PROVE  TypeOK'
  <2>1. /\ link' \in LinkRecords
        /\ link'.download_limit = link.download_limit
        /\ link'.expires_at = link.expires_at
        /\ link'.download_count = link.download_count + 1
    BY <1>3, CountRecord DEF Count
  <2> QED
    BY <1>0, <1>3, <2>1 DEF Count
<1>4. ASSUME NEW s \in Sessions, Abort(s)
      PROVE  TypeOK'
  BY <1>4 DEF Abort
<1>5. CASE Tick
  BY <1>5 DEF Tick
<1>7. CASE StepBack
  BY <1>7 DEF StepBack
<1>6. CASE UNCHANGED vars
  BY <1>6 DEF vars
<1> QED
  BY <1>1, <1>2, <1>3, <1>4, <1>5, <1>6, <1>7 DEF Next

\* Every step keeps the types of ShareDownloads, and no session's copy of the record
\* ever runs ahead of the store (ShareLink::is_valid_at).
THEOREM TypeCorrect == Spec => []TypeOK
BY TypeOKInit, TypeOKNext, PTL DEF Spec

-------------------------------------------------------------------------------
(* The overshoot.  A session is "let in" once it holds a copy that its limit  *)
(* admits: it may still count.  Each holds one of the places above the limit. *)

LetIn == {s \in Sessions : \/ phase[s] = "serving"
                           \/ phase[s] = "loaded" /\ ~ Exhausted(held[s])}

Overshoot ==
  link.download_limit # NoLimit =>
    IF link.download_limit = 0
      THEN LetIn = {} /\ link.download_count = 0
      ELSE link.download_count + Cardinality(LetIn)
             <= link.download_limit + Cardinality(Sessions) - 1

\* The number of sessions let in, and what adding or removing one does to it.
LEMMA LetInCounted ==
  /\ IsFiniteSet(LetIn)
  /\ Cardinality(LetIn) \in Nat /\ Cardinality(Sessions) \in Nat
  /\ Cardinality(LetIn) <= Cardinality(Sessions)
  /\ \A s \in LetIn : Cardinality(LetIn \ {s}) = Cardinality(LetIn) - 1
<1>1. LetIn \subseteq Sessions /\ IsFiniteSet(Sessions)
  BY DEF LetIn
<1>2. IsFiniteSet(LetIn) /\ Cardinality(LetIn) <= Cardinality(Sessions)
  BY <1>1, FS_Subset
<1> QED
  BY <1>1, <1>2, FS_CardinalityType, FS_RemoveElement

\* What the invariant says survives a step that counts nothing and lets nobody in.
LEMMA OvershootUnchanged ==
  ASSUME TypeOK, Overshoot, UNCHANGED link, LetIn' \subseteq LetIn
  PROVE  Overshoot'
<1>1. Cardinality(LetIn') <= Cardinality(LetIn) /\ Cardinality(LetIn') \in Nat
  BY LetInCounted, FS_Subset, FS_CardinalityType
<1> QED
  BY <1>1, LetInCounted DEF Overshoot, TypeOK, LinkRecords

LEMMA OvershootInit == Init => Overshoot
<1> SUFFICES ASSUME Init, link.download_limit # NoLimit
             PROVE  Overshoot
  BY DEF Overshoot
<1>1. LetIn = {} /\ Cardinality(LetIn) = 0
  BY FS_EmptySet DEF Init, LetIn
<1>2. Cardinality(Sessions) \in Nat /\ Cardinality(Sessions) # 0
  BY FS_EmptySet, FS_CardinalityType
<1>3. /\ link.download_limit \in Nat /\ link.download_count \in Nat
      /\ link.download_count <= link.download_limit
  BY DEF Init, LinkRecords
<1> QED
  BY <1>1, <1>2, <1>3 DEF Overshoot

LEMMA OvershootNext == TypeOK /\ Overshoot /\ [Next]_vars => Overshoot'
<1> SUFFICES ASSUME TypeOK, Overshoot, [Next]_vars
             PROVE  Overshoot'
  OBVIOUS
<1>0. /\ phase \in [Sessions -> {"idle", "loaded", "serving"}]
      /\ held \in [Sessions -> LinkRecords]
      /\ link.download_count \in Nat
      /\ link.download_limit # NoLimit => link.download_limit \in Nat
  BY DEF TypeOK, LinkRecords
<1>1. ASSUME NEW s \in Sessions, Load(s)
      PROVE  Overshoot'
  <2>1. UNCHANGED link /\ held'[s] = link /\ phase'[s] = "loaded"
    BY <1>0, <1>1 DEF Load
  <2>2. \A u \in Sessions : u # s => phase'[u] = phase[u] /\ held'[u] = held[u]
    BY <1>0, <1>1 DEF Load
  <2>3. CASE Exhausted(link)
    <3>1. LetIn' \subseteq LetIn
      BY <2>1, <2>2, <2>3 DEF LetIn
    <3> QED
      BY <2>1, <3>1, OvershootUnchanged
  <2>4. CASE ~ Exhausted(link)
    <3> SUFFICES ASSUME link.download_limit # NoLimit
                 PROVE  Overshoot'
      BY <2>1 DEF Overshoot
    <3>1. link.download_count < link.download_limit
      BY <1>0, <2>4 DEF Exhausted
    <3>2. Cardinality(LetIn') <= Cardinality(Sessions) /\ Cardinality(LetIn') \in Nat
      <4>1. LetIn' \subseteq Sessions
        BY DEF LetIn
      <4> QED
        BY <4>1, FS_Subset, FS_CardinalityType
    <3> QED
      BY <1>0, <2>1, <3>1, <3>2, LetInCounted DEF Overshoot
  <2> QED
    BY <2>3, <2>4
<1>2. ASSUME NEW s \in Sessions, Judge(s)
      PROVE  Overshoot'
  <2>1. phase[s] = "loaded" /\ UNCHANGED <<link, held>>
    BY <1>2 DEF Judge
  <2>2. phase'[s] = "serving" => ~ Exhausted(held[s])
    BY <1>0, <1>2 DEF Judge, IsValidAt
  <2>3. phase'[s] \in {"serving", "idle"} /\ \A u \in Sessions : u # s => phase'[u] = phase[u]
    BY <1>0, <1>2 DEF Judge
  <2>4. LetIn' \subseteq LetIn
    BY <2>1, <2>2, <2>3 DEF LetIn
  <2> QED
    BY <2>1, <2>4, OvershootUnchanged
<1>3. ASSUME NEW s \in Sessions, Count(s)
      PROVE  Overshoot'
  <2>1. /\ link'.download_limit = link.download_limit
        /\ link'.download_count = link.download_count + 1
    BY <1>3, CountRecord DEF Count, TypeOK
  <2>2. phase[s] = "serving" /\ phase' = [phase EXCEPT ![s] = "idle"] /\ UNCHANGED held
    BY <1>3 DEF Count
  <2>3. s \in LetIn /\ LetIn' = LetIn \ {s}
    BY <1>0, <2>2 DEF LetIn
  <2>4. Cardinality(LetIn') = Cardinality(LetIn) - 1
    BY <2>3, LetInCounted
  <2> QED
    BY <1>0, <2>1, <2>3, <2>4, LetInCounted DEF Overshoot
<1>4. ASSUME NEW s \in Sessions, Abort(s)
      PROVE  Overshoot'
  <2>1. LetIn' \subseteq LetIn
    BY <1>0, <1>4 DEF Abort, LetIn
  <2> QED
    BY <1>4, <2>1, OvershootUnchanged DEF Abort
<1>5. CASE Tick \/ StepBack
  <2>1. LetIn' \subseteq LetIn
    BY <1>5 DEF Tick, StepBack, LetIn
  <2> QED
    BY <1>5, <2>1, OvershootUnchanged DEF Tick, StepBack
<1>6. CASE UNCHANGED vars
  <2>1. LetIn' \subseteq LetIn
    BY <1>6 DEF vars, LetIn
  <2> QED
    BY <1>6, <2>1, OvershootUnchanged DEF vars
<1> QED
  BY <1>1, <1>2, <1>3, <1>4, <1>5, <1>6 DEF Next

\* Any number of sessions overrun a download limit by fewer downloads than there are
\* sessions (ShareLink::is_valid_at judging copies loaded before).
THEOREM OvershootIsBounded == Spec => []OvershootBounded
<1>1. Spec => [](TypeOK /\ Overshoot)
  BY TypeCorrect, OvershootInit, OvershootNext, PTL DEF Spec
<1>2. TypeOK /\ Overshoot => OvershootBounded
  BY LetInCounted DEF TypeOK, LinkRecords, Overshoot, OvershootBounded
<1> QED
  BY <1>1, <1>2, PTL

-------------------------------------------------------------------------------
(* Validity. *)

\* A record with the same limits, no fewer downloads, judged no earlier, is no more valid
\* (ShareLink::is_valid_at).
LEMMA ValidityOnlyEnds ==
  ASSUME NEW a \in LinkRecords, NEW b \in LinkRecords, NEW t \in Nat, NEW u \in Nat,
         a.download_limit = b.download_limit, a.expires_at = b.expires_at,
         a.download_count <= b.download_count, t <= u, ~ IsValidAt(a, t)
  PROVE  ~ IsValidAt(b, u)
<1>1. /\ a.download_count \in Nat /\ b.download_count \in Nat
      /\ b.download_limit \in Nat \cup {NoLimit} /\ b.expires_at \in Nat \cup {NoExpiry}
  BY DEF LinkRecords
<1> QED
  BY <1>1 DEF IsValidAt, Expired, Exhausted

\* An invalid link comes back only if it had expired, was below its limit, and the clock
\* is set back: a limit that is used up stays so (ShareLink::is_valid_at).
THEOREM RevivedByTheClock == Spec => RevivedByClockOnly
<1>1. TypeOK /\ [Next]_vars =>
        [~ IsValidAt(link, now) /\ IsValidAt(link', now')
           => Expired(link, now) /\ ~ Exhausted(link) /\ now' < now]_vars
  <2> SUFFICES ASSUME TypeOK, Next, ~ IsValidAt(link, now), IsValidAt(link', now')
               PROVE  Expired(link, now) /\ ~ Exhausted(link) /\ now' < now
    OBVIOUS
  <2>1. /\ link \in LinkRecords /\ link.download_count \in Nat
        /\ link.download_limit \in Nat \cup {NoLimit}
        /\ link.expires_at \in Nat \cup {NoExpiry}
    BY DEF TypeOK, LinkRecords
  <2>2. now \in Nat /\ now' \in Nat
    BY TypeOKNext DEF TypeOK
  <2>3. link' = link \/ link' = [link EXCEPT !.download_count = @ + 1]
    BY DEF Next, Load, Judge, Count, Abort, Tick, StepBack
  <2>4. /\ link.download_limit = link'.download_limit /\ link.expires_at = link'.expires_at
        /\ link'.download_count \in Nat /\ link.download_count <= link'.download_count
    <3>1. CASE link' = link
      BY <2>1, <3>1
    <3>2. CASE link' = [link EXCEPT !.download_count = @ + 1]
      <4>1. link'.download_count = link.download_count + 1
        BY <2>1, <3>2, CountRecord
      <4>2. link.download_limit = link'.download_limit /\ link.expires_at = link'.expires_at
        BY <2>1, <3>2, CountRecord
      <4> QED
        BY <2>1, <4>1, <4>2
    <3> QED
      BY <2>3, <3>1, <3>2
  <2>5. ~ Exhausted(link)
    BY <2>1, <2>4 DEF IsValidAt, Exhausted
  <2>6. Expired(link, now) /\ ~ Expired(link', now')
    BY <2>5 DEF IsValidAt
  <2> QED
    BY <2>1, <2>2, <2>4, <2>5, <2>6 DEF Expired
<1> QED
  BY <1>1, TypeCorrect, PTL DEF Spec, RevivedByClockOnly

\* A session is never turned away on an outdated copy when the record itself would let it
\* in (ShareLink::is_valid_at).
THEOREM RefusalsAreRight == Spec => RefusalIsRight
<1>1. TypeOK /\ [Next]_vars =>
        \A s \in Sessions :
          phase[s] = "loaded" /\ phase'[s] = "idle" => ~ IsValidAt(link, now)
  <2> SUFFICES ASSUME TypeOK, [Next]_vars, NEW s \in Sessions,
                      phase[s] = "loaded", phase'[s] = "idle"
               PROVE  ~ IsValidAt(link, now)
    OBVIOUS
  <2>1. phase \in [Sessions -> {"idle", "loaded", "serving"}]
    BY DEF TypeOK
  <2>2. Judge(s)
    <3>1. ASSUME NEW u \in Sessions, Load(u) \/ Judge(u) \/ Count(u) \/ Abort(u)
          PROVE  u = s /\ Judge(u)
      BY <2>1, <3>1 DEF Load, Judge, Count, Abort
    <3>2. ~ Tick /\ ~ StepBack /\ ~ UNCHANGED vars
      BY DEF Tick, StepBack, vars
    <3> QED
      BY <3>1, <3>2 DEF Next
  <2>3. ~ IsValidAt(held[s], now)
    BY <2>1, <2>2 DEF Judge
  <2>4. /\ held[s] \in LinkRecords /\ link \in LinkRecords /\ now \in Nat
        /\ held[s].download_limit = link.download_limit
        /\ held[s].expires_at = link.expires_at
        /\ held[s].download_count <= link.download_count
    BY DEF TypeOK
  <2> QED
    BY <2>3, <2>4, ValidityOnlyEnds
<1> QED
  BY <1>1, TypeCorrect, PTL DEF Spec, RefusalIsRight
===============================================================================
