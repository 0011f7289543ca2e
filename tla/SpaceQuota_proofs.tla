--------------------------- MODULE SpaceQuota_proofs ---------------------------
(***************************************************************************)
(* Proofs about SpaceQuota, for any number of sessions, any quota and any  *)
(* largest file.  A session is let in once the copy it holds admits its    *)
(* file; what the sessions let in may still add is what the overrun is     *)
(* bounded by.  When all sizes are known one session more is accounted     *)
(* for: the last to have committed, which is not let in or holds a copy    *)
(* from after that.                                                        *)
(***************************************************************************)
EXTENDS SpaceQuota, FiniteSetTheorems, TLAPS

Quota == space.storage_quota
Used == space.storage_used
N == Cardinality(Sessions)

Admits(s) ==
  IF s \in sized THEN Fits(held[s], size[s]) ELSE ~ IsQuotaExceeded(held[s])

LetIn == {s \in Sessions : phase[s] # "idle" /\ size[s] > 0 /\ Admits(s)}

Admitted == \A s \in Sessions : phase[s] = "uploading" => Admits(s)

Stored ==
  HasQuota(space) => Used + MaxSize * Cardinality(LetIn) <= Quota + MaxSize * N

Fresh == \E t \in Sessions : t \notin LetIn \/ Used <= held[t].storage_used

OneLess ==
  LET bound == Quota + MaxSize * (N - 1) IN
  \/ Used + MaxSize * Cardinality(LetIn) <= bound
  \/ \E t \in LetIn : Used + size[t] + MaxSize * (Cardinality(LetIn) - 1) <= bound

Sized ==
  HasQuota(space) /\ sized = Sessions => Fresh /\ (Quota < Used => OneLess)

QuotaInv == TypeOK /\ Admitted /\ Stored /\ Sized

-------------------------------------------------------------------------------
(* Products with the size of the largest file.                              *)
LEMMA Products ==
  ASSUME NEW m \in Nat, NEW j \in Int, NEW k \in Int
  PROVE  /\ m * k \in Int
         /\ m * (k - 1) = m * k - m
         /\ j <= k => m * j <= m * k
<1>1. m * k \in Int /\ m * (k - 1) = m * k - m
  OBVIOUS
<1>2. ASSUME j <= k
      PROVE  m * j <= m * k
  <2>1. k - j \in Nat /\ m * k = m * j + m * (k - j)
    BY <1>2
  <2>2. m * (k - j) \in Nat
    BY <2>1
  <2> QED
    BY <2>1, <2>2
<1> QED
  BY <1>1, <1>2

(* The number of sessions let in.                                           *)
LEMMA LetInCounted ==
  /\ IsFiniteSet(LetIn) /\ Cardinality(LetIn) \in Nat
  /\ N \in Nat /\ N >= 1 /\ Cardinality(LetIn) <= N
  /\ \A S \in SUBSET LetIn : Cardinality(S) \in Nat /\ Cardinality(S) <= Cardinality(LetIn)
  /\ \A s \in LetIn : Cardinality(LetIn \ {s}) = Cardinality(LetIn) - 1
<1>1. LetIn \subseteq Sessions /\ IsFiniteSet(Sessions) /\ Sessions # {}
  BY QuotaAssumption DEF LetIn
<1>2. IsFiniteSet(LetIn) /\ Cardinality(LetIn) <= N /\ N \in Nat
  BY <1>1, FS_Subset, FS_CardinalityType DEF N
<1>3. N >= 1
  BY <1>1, <1>2, FS_EmptySet DEF N
<1>4. \A S \in SUBSET LetIn : Cardinality(S) \in Nat /\ Cardinality(S) <= Cardinality(LetIn)
  BY <1>2, FS_Subset, FS_CardinalityType
<1> QED
  BY <1>2, <1>3, <1>4, FS_CardinalityType, FS_RemoveElement

(* What a copy that admits a file says of it (remaining_quota,              *)
(* is_quota_exceeded).                                                      *)
LEMMA Copies ==
  ASSUME TypeOK, HasQuota(space), NEW s \in Sessions
  PROVE  /\ Quota \in Nat /\ Used \in Nat /\ MaxSize \in Nat
         /\ size[s] \in Nat /\ size[s] <= MaxSize /\ held[s].storage_used \in Nat
         /\ Admits(s) /\ size[s] > 0 => held[s].storage_used <= Quota
         /\ Admits(s) /\ size[s] > 0 /\ s \in sized
              => held[s].storage_used + size[s] <= Quota
         /\ Admits(s) /\ s \in sized => size[s] <= Quota
<1>1. /\ Quota \in Nat /\ Used \in Nat
      /\ held[s].storage_quota = Quota /\ held[s].storage_used \in Nat
      /\ size[s] \in 0..MaxSize
  BY DEF TypeOK, HasQuota, Spaces, Quota, Used
<1>2. HasQuota(held[s])
  BY <1>1, QuotaAssumption DEF HasQuota
<1>3. CASE s \in sized
  BY <1>1, <1>2, <1>3, QuotaAssumption DEF Admits, Fits, RemainingQuota
<1>4. CASE s \notin sized
  BY <1>1, <1>2, <1>4, QuotaAssumption DEF Admits, IsQuotaExceeded
<1> QED
  BY <1>1, <1>3, <1>4, QuotaAssumption

-------------------------------------------------------------------------------
(* Types, and the decision on which each upload goes on.                    *)
LEMMA InitQuotaInv == Init => QuotaInv
<1> SUFFICES ASSUME Init
             PROVE  QuotaInv
  OBVIOUS
<1>1. TypeOK /\ Admitted /\ LetIn = {}
  <2>1. space \in Spaces /\ space.storage_used = 0
    BY QuotaAssumption DEF Init, Spaces
  <2> QED
    BY <2>1, QuotaAssumption DEF Init, TypeOK, Admitted, LetIn
<1>2. PICK s \in Sessions : TRUE
  BY QuotaAssumption
<1>3. Fresh
  BY <1>1, <1>2 DEF Fresh
<1>4. ASSUME HasQuota(space)
      PROVE  Used = 0 /\ Quota \in Nat
  BY <1>1, <1>2, <1>4, Copies DEF Init, Used
<1>5. Stored
  <2>1. MaxSize * 0 <= MaxSize * N
    BY LetInCounted, Products, QuotaAssumption
  <2>2. Cardinality(LetIn) = 0
    BY <1>1, FS_EmptySet
  <2>3. MaxSize * N \in Int
    BY LetInCounted, QuotaAssumption
  <2> QED
    BY <1>4, <2>1, <2>2, <2>3, QuotaAssumption DEF Stored
<1> QED
  BY <1>1, <1>3, <1>4, <1>5 DEF QuotaInv, Sized

LEMMA TypeOKNext == TypeOK /\ Admitted /\ [Next]_vars => TypeOK' /\ Admitted'
<1> SUFFICES ASSUME TypeOK, Admitted, [Next]_vars
             PROVE  TypeOK' /\ Admitted'
  OBVIOUS
<1>1. ASSUME NEW s \in Sessions, Load(s)
      PROVE  TypeOK' /\ Admitted'
  BY <1>1 DEF Load, TypeOK, Admitted, Admits
<1>2. ASSUME NEW s \in Sessions, JudgeSized(s)
      PROVE  TypeOK' /\ Admitted'
  <2>1. Admitted'
    BY <1>2 DEF JudgeSized, TypeOK, Admitted, Admits
  <2>2. Fits(held[s], size[s]) /\ HasQuota(space) => size[s] <= space.storage_quota
    BY <1>2, Copies DEF JudgeSized, Admits, Quota
  <2> QED
    BY <1>2, <2>1, <2>2 DEF JudgeSized, TypeOK
<1>3. ASSUME NEW s \in Sessions, JudgeStream(s)
      PROVE  TypeOK' /\ Admitted'
  BY <1>3 DEF JudgeStream, TypeOK, Admitted, Admits
<1>4. ASSUME NEW s \in Sessions, Commit(s)
      PROVE  TypeOK' /\ Admitted'
  <2>1. space' \in Spaces /\ space'.storage_quota = space.storage_quota
    BY <1>4, QuotaAssumption DEF Commit, TypeOK, Spaces
  <2> QED
    BY <1>4, <2>1 DEF Commit, TypeOK, Admitted, Admits, HasQuota
<1>5. ASSUME NEW s \in Sessions, Abort(s)
      PROVE  TypeOK' /\ Admitted'
  BY <1>5 DEF Abort, TypeOK, Admitted, Admits
<1>6. CASE Delete
  <2>1. space' \in Spaces /\ space'.storage_quota = space.storage_quota
    BY <1>6 DEF Delete, TypeOK, Spaces
  <2> QED
    BY <1>6, <2>1 DEF Delete, TypeOK, Admitted, Admits, HasQuota
<1>7. CASE UNCHANGED vars
  BY <1>7 DEF vars, TypeOK, Admitted, Admits
<1> QED
  BY <1>1, <1>2, <1>3, <1>4, <1>5, <1>6, <1>7 DEF Next

-------------------------------------------------------------------------------
(* The overrun.                                                             *)

(* A step that stores nothing and lets nobody in.                           *)
LEMMA Calm ==
  ASSUME TypeOK, TypeOK', HasQuota(space), Stored,
         Quota' = Quota, Used' <= Used,
         LetIn' \subseteq LetIn, \A t \in LetIn' : size'[t] = size[t]
  PROVE  Stored' /\ (OneLess => OneLess')
<1> DEFINE K == Cardinality(LetIn)
           L == Cardinality(LetIn')
<1>1. /\ K \in Nat /\ L \in Nat /\ L <= K /\ N \in Nat /\ N' = N
      /\ \A t \in LetIn : L <= K - 1 \/ t \in LetIn'
  <2>1. \A t \in LetIn : t \notin LetIn' => LetIn' \subseteq LetIn \ {t}
    OBVIOUS
  <2>2. \A t \in LetIn : Cardinality(LetIn \ {t}) = K - 1
    BY LetInCounted
  <2>3. \A t \in LetIn : t \notin LetIn' => L <= K - 1
    <3> SUFFICES ASSUME NEW t \in LetIn, t \notin LetIn'
                 PROVE  L <= K - 1
      OBVIOUS
    <3>1. IsFiniteSet(LetIn \ {t})
      BY LetInCounted, FS_Subset, LetIn \ {t} \subseteq LetIn
    <3> QED
      BY <2>1, <2>2, <3>1, FS_Subset
  <2> QED
    BY <2>3, LetInCounted DEF N
<1>2. /\ Quota \in Nat /\ Used \in Nat /\ Used' \in Nat /\ MaxSize \in Nat
      /\ \A t \in LetIn : size[t] \in Nat /\ size[t] <= MaxSize
  <2>1. LetIn \subseteq Sessions
    BY DEF LetIn
  <2>2. PICK s \in Sessions : TRUE
    BY QuotaAssumption
  <2>3. Used' \in Nat
    BY DEF TypeOK, Spaces, Used
  <2> QED
    BY <2>1, <2>2, <2>3, Copies
<1>3. /\ MaxSize * K \in Int /\ MaxSize * L \in Int /\ MaxSize * N \in Int
      /\ MaxSize * (N - 1) \in Int
      /\ MaxSize * (K - 1) = MaxSize * K - MaxSize
      /\ MaxSize * (L - 1) = MaxSize * L - MaxSize
      /\ MaxSize * L <= MaxSize * K
      /\ L <= K - 1 => MaxSize * L <= MaxSize * (K - 1)
  <2>1. N - 1 \in Int /\ K - 1 \in Int
    BY <1>1
  <2> HIDE DEF K, L
  <2> QED
    BY <1>1, <1>2, <2>1, Products
<1>4. HasQuota(space') /\ Stored'
  <2>1. HasQuota(space')
    BY DEF HasQuota, Quota
  <2>2. Used + MaxSize * K <= Quota + MaxSize * N
    BY DEF Stored
  <2>3. Used' + MaxSize * L <= Quota + MaxSize * N
    <3> HIDE DEF K, L
    <3> QED
      BY <1>2, <1>3, <2>2
  <2> QED
    BY <1>1, <2>1, <2>3 DEF Stored
<1>5. ASSUME OneLess
      PROVE  OneLess'
  <2> DEFINE bound == Quota + MaxSize * (N - 1)
  <2>1. CASE Used + MaxSize * K <= bound
    <3>1. Used' + MaxSize * L <= bound
      <4> HIDE DEF K, L
      <4> QED
        BY <1>2, <1>3, <2>1
    <3> QED
      BY <1>1, <3>1 DEF OneLess
  <2>2. ASSUME NEW t \in LetIn, Used + size[t] + MaxSize * (K - 1) <= bound
        PROVE  OneLess'
    <3>1. size[t] \in Nat
      BY <1>2
    <3>2. CASE L <= K - 1
      <4>1. Used' + MaxSize * L <= bound
        <5> HIDE DEF K, L
        <5> QED
          BY <1>2, <1>3, <2>2, <3>1, <3>2
      <4> QED
        BY <1>1, <4>1 DEF OneLess
    <3>3. CASE t \in LetIn'
      <4>1. Used' + size'[t] + MaxSize * (L - 1) <= bound
        <5>1. size'[t] = size[t]
          BY <3>3
        <5> HIDE DEF K, L
        <5> QED
          BY <1>2, <1>3, <2>2, <3>1, <5>1
      <4> QED
        BY <1>1, <3>3, <4>1 DEF OneLess
    <3> QED
      BY <1>1, <3>2, <3>3
  <2> QED
    BY <1>5, <2>1, <2>2 DEF OneLess
<1> QED
  BY <1>4, <1>5

(* While the quota is not overrun there is room for a file of each session. *)
LEMMA NotOverrun == TypeOK /\ HasQuota(space) /\ Used <= Quota => Stored
<1> SUFFICES ASSUME TypeOK, HasQuota(space), Used <= Quota
             PROVE  Stored
  OBVIOUS
<1>1. PICK s \in Sessions : TRUE
  BY QuotaAssumption
<1>2. Used \in Nat /\ Quota \in Nat /\ MaxSize \in Nat
  BY <1>1, Copies
<1>3. MaxSize * Cardinality(LetIn) <= MaxSize * N
      /\ MaxSize * Cardinality(LetIn) \in Int /\ MaxSize * N \in Int
  BY <1>2, LetInCounted, Products
<1> QED
  BY <1>2, <1>3 DEF Stored

(* Judging, breaking off, deleting and storing an empty file.               *)
LEMMA CalmStep ==
  ASSUME QuotaInv, TypeOK', UNCHANGED <<sized, held, size>>,
         Quota' = Quota, Used' <= Used, LetIn' \subseteq LetIn
  PROVE  Stored' /\ Sized'
<1>1. CASE ~ HasQuota(space)
  BY <1>1 DEF HasQuota, Quota, Stored, Sized
<1>2. CASE HasQuota(space)
  <2>1. Stored' /\ (OneLess => OneLess')
    BY <1>2, Calm DEF QuotaInv
  <2>2. /\ Used \in Nat /\ Used' \in Nat /\ Quota \in Nat
        /\ \A t \in Sessions : held[t].storage_used \in Nat
    BY <1>2, Copies, QuotaAssumption DEF QuotaInv, TypeOK, Spaces, Used, Quota, HasQuota
  <2>3. Fresh => Fresh'
    BY <2>2 DEF Fresh
  <2> QED
    BY <1>2, <2>1, <2>2, <2>3 DEF QuotaInv, Sized
<1> QED
  BY <1>1, <1>2

LEMMA LoadKeeps ==
  ASSUME QuotaInv, TypeOK', NEW s \in Sessions, Load(s)
  PROVE  Stored' /\ Sized'
<1>1. sized' = sized /\ Quota' = Quota /\ Used' = Used /\ space' = space
  BY DEF Load, Quota, Used
<1>2. CASE ~ HasQuota(space)
  BY <1>1, <1>2 DEF Stored, Sized
<1>3. CASE HasQuota(space)
  <2>1. Used \in Nat /\ Quota \in Nat
    BY <1>3, Copies DEF QuotaInv
  <2>2. Fresh'
    BY <1>1, <2>1 DEF Load, Fresh, QuotaInv, TypeOK, Used
  <2>3. CASE Used <= Quota
    <3>1. (TypeOK /\ HasQuota(space) /\ Used <= Quota => Stored)'
      BY NotOverrun, PTL
    <3> QED
      BY <1>1, <1>3, <2>1, <2>2, <2>3, <3>1 DEF Sized
  <2>4. CASE Quota < Used
    <3>1. held'[s] = space /\ size'[s] \in 0..MaxSize /\ phase[s] = "idle"
      BY DEF Load, QuotaInv, TypeOK
    <3>2. s \notin LetIn'
      <4>1. CASE s \in sized
        BY <1>1, <1>3, <2>1, <2>4, <3>1, <4>1, QuotaAssumption
           DEF LetIn, Admits, Fits, RemainingQuota, Quota, Used
      <4>2. CASE s \notin sized
        BY <1>1, <1>3, <2>1, <2>4, <3>1, <4>2
           DEF LetIn, Admits, IsQuotaExceeded, Quota, Used
      <4> QED
        BY <4>1, <4>2
    <3>3. /\ LetIn' \subseteq LetIn
          /\ \A t \in LetIn' : size'[t] = size[t]
      BY <1>1, <3>2 DEF LetIn, Admits, Load, QuotaInv, TypeOK
    <3>4. Stored' /\ (OneLess => OneLess')
      BY <1>1, <1>3, <2>1, <3>3, Calm DEF QuotaInv
    <3> QED
      BY <1>1, <1>3, <2>2, <2>4, <3>4 DEF QuotaInv, Sized
  <2> QED
    BY <2>1, <2>3, <2>4
<1> QED
  BY <1>2, <1>3

(* A session that was let in has stored its file.                           *)
LEMMA CommitKeeps ==
  ASSUME QuotaInv, TypeOK', NEW s \in LetIn, Commit(s), HasQuota(space)
  PROVE  Stored' /\ Sized'
<1> DEFINE K == Cardinality(LetIn)
           bound == Quota + MaxSize * (N - 1)
<1>1. /\ s \in Sessions
      /\ \A t \in LetIn : /\ t \in Sessions /\ Admits(t) /\ size[t] > 0
                          /\ size[t] \in Nat /\ size[t] <= MaxSize
      /\ Quota \in Nat /\ Used \in Nat /\ MaxSize \in Nat
  BY Copies DEF LetIn, QuotaInv
<1>2. /\ sized' = sized /\ held' = held /\ size' = size
      /\ Quota' = Quota /\ Used' = Used + size[s]
  BY <1>1 DEF Commit, Quota, Used, QuotaInv, TypeOK, Spaces
<1>3. LetIn' = LetIn \ {s}
  BY <1>1 DEF Commit, LetIn, Admits, QuotaInv, TypeOK
<1>4. /\ Cardinality(LetIn') = K - 1 /\ K \in Nat /\ K <= N /\ N \in Nat
      /\ N' = N
      /\ \A t \in Sessions : t \notin LetIn => K <= N - 1
  <2>1. ASSUME NEW t \in Sessions, t \notin LetIn
        PROVE  K <= N - 1
    <3>1. IsFiniteSet(Sessions \ {t}) /\ Cardinality(Sessions \ {t}) = N - 1
      BY QuotaAssumption, FS_RemoveElement DEF N
    <3>2. LetIn \subseteq Sessions \ {t}
      BY <2>1 DEF LetIn
    <3> QED
      BY <3>1, <3>2, FS_Subset
  <2> QED
    BY <1>3, <2>1, LetInCounted DEF N
<1>5. /\ MaxSize * K \in Int /\ MaxSize * N \in Int
      /\ MaxSize * (K - 1) = MaxSize * K - MaxSize
      /\ MaxSize * (N - 1) = MaxSize * N - MaxSize
      /\ MaxSize * ((K - 1) - 1) = MaxSize * (K - 1) - MaxSize
      /\ MaxSize * K <= MaxSize * N
      /\ K <= N - 1 => MaxSize * K <= MaxSize * (N - 1)
  <2>1. K - 1 \in Int /\ N - 1 \in Int
    BY <1>4
  <2> HIDE DEF K
  <2> QED
    BY <1>1, <1>4, <2>1, Products
<1>6. Stored'
  <2>1. Used + MaxSize * K <= Quota + MaxSize * N
    BY DEF QuotaInv, Stored
  <2>2. Used' + MaxSize * (K - 1) <= Quota + MaxSize * N
    <3> HIDE DEF K
    <3> QED
      BY <1>1, <1>2, <1>5, <2>1
  <2> QED
    BY <1>2, <1>4, <2>2 DEF Stored
<1>7. Fresh'
  BY <1>1, <1>3 DEF Fresh
<1>8. ASSUME sized = Sessions, Quota < Used'
      PROVE  OneLess'
  <2>1. \A t \in LetIn : t # s => t \in LetIn' /\ size'[t] = size[t]
    BY <1>2, <1>3
  <2>2. CASE Used' + MaxSize * (K - 1) <= bound
    BY <1>2, <1>4, <2>2 DEF OneLess
  <2>3. ASSUME NEW t \in LetIn, t # s,
               Used' + size[t] + MaxSize * ((K - 1) - 1) <= bound
        PROVE  OneLess'
    BY <1>2, <1>4, <2>1, <2>3 DEF OneLess
  <2>4. CASE Quota < Used
    <3>1. OneLess
      BY <1>8, <2>4 DEF QuotaInv, Sized
    <3>2. CASE Used + MaxSize * K <= bound
      <4>1. Used' + MaxSize * (K - 1) <= bound
        <5> HIDE DEF K
        <5> QED
          BY <1>1, <1>2, <1>5, <3>2
      <4> QED
        BY <2>2, <4>1
    <3>3. ASSUME NEW t \in LetIn, Used + size[t] + MaxSize * (K - 1) <= bound
          PROVE  OneLess'
      <4>1. CASE t = s
        BY <1>2, <2>2, <3>3, <4>1
      <4>2. CASE t # s
        <5>1. Used' + size[t] + MaxSize * ((K - 1) - 1) <= bound
          <6> HIDE DEF K
          <6> QED
            BY <1>1, <1>2, <1>5, <3>3
        <5> QED
          BY <2>3, <4>2, <5>1
      <4> QED
        BY <4>1, <4>2
    <3> QED
      BY <3>1, <3>2, <3>3 DEF OneLess
  <2>5. CASE Used <= Quota
    <3>1. PICK t \in Sessions : t \notin LetIn \/ Used <= held[t].storage_used
      BY <1>8 DEF QuotaInv, Sized, Fresh
    <3>2. CASE t \notin LetIn
      <4>1. Used' + MaxSize * (K - 1) <= bound
        <5>1. MaxSize * K <= MaxSize * (N - 1)
          BY <1>4, <1>5, <3>2
        <5> HIDE DEF K
        <5> QED
          BY <1>1, <1>2, <1>5, <2>5, <5>1
      <4> QED
        BY <2>2, <4>1
    <3>3. CASE t \in LetIn /\ Used <= held[t].storage_used
      <4>1. Used + size[t] <= Quota
        <5>1. held[t].storage_used + size[t] <= Quota /\ held[t].storage_used \in Nat
          BY <1>1, <1>8, <3>3, Copies DEF QuotaInv
        <5> QED
          BY <1>1, <3>3, <5>1
      <4>2. t # s
        BY <1>1, <1>2, <1>8, <4>1
      <4>3. Used' + size[t] + MaxSize * ((K - 1) - 1) <= bound
        <5>1. size[s] \in Nat /\ size[s] <= MaxSize /\ size[t] \in Nat
          BY <1>1, <3>3
        <5> HIDE DEF K
        <5> QED
          BY <1>1, <1>2, <1>5, <4>1, <5>1
      <4> QED
        BY <2>3, <3>3, <4>2, <4>3
    <3> QED
      BY <3>1, <3>2, <3>3
  <2> QED
    BY <1>1, <2>4, <2>5
<1> QED
  BY <1>2, <1>6, <1>7, <1>8 DEF Sized

LEMMA NextQuotaInv == QuotaInv /\ [Next]_vars => QuotaInv'
<1> SUFFICES ASSUME QuotaInv, [Next]_vars
             PROVE  QuotaInv'
  OBVIOUS
<1>1. TypeOK' /\ Admitted' /\ TypeOK /\ Admitted
  BY TypeOKNext DEF QuotaInv
<1>2. Stored' /\ Sized'
  <2>1. ASSUME NEW s \in Sessions, JudgeSized(s) \/ JudgeStream(s) \/ Abort(s)
        PROVE  Stored' /\ Sized'
    <3>1. LetIn' \subseteq LetIn
      BY <1>1, <2>1 DEF JudgeSized, JudgeStream, Abort, LetIn, Admits, TypeOK
    <3>2. UNCHANGED <<sized, space, held, size>>
      BY <2>1 DEF JudgeSized, JudgeStream, Abort
    <3>3. Quota' = Quota /\ Used' <= Used
      BY <1>1, <3>2 DEF Quota, Used, TypeOK, Spaces
    <3> QED
      BY <1>1, <3>1, <3>2, <3>3, CalmStep
  <2>2. ASSUME NEW s \in Sessions, Commit(s)
        PROVE  Stored' /\ Sized'
    <3>1. CASE ~ HasQuota(space)
      BY <1>1, <2>2, <3>1 DEF Commit, HasQuota, Stored, Sized, TypeOK, Spaces
    <3>2. CASE s \in LetIn /\ HasQuota(space)
      BY <1>1, <2>2, <3>2, CommitKeeps
    <3>3. CASE s \notin LetIn
      <4>1. size[s] = 0
        BY <1>1, <2>2, <3>3, QuotaAssumption DEF Commit, Admitted, LetIn, TypeOK
      <4>2. Quota' = Quota /\ Used' <= Used
        BY <1>1, <2>2, <4>1 DEF Commit, Quota, Used, TypeOK, Spaces
      <4>3. LetIn' \subseteq LetIn /\ UNCHANGED <<sized, held, size>>
        BY <1>1, <2>2 DEF Commit, LetIn, Admits, TypeOK
      <4> QED
        BY <1>1, <4>2, <4>3, CalmStep
    <3> QED
      BY <3>1, <3>2, <3>3
  <2>3. CASE Delete
    <3>1. Quota' = Quota /\ Used' <= Used
      BY <1>1, <2>3 DEF Delete, Quota, Used, TypeOK, Spaces
    <3>2. LetIn' \subseteq LetIn /\ UNCHANGED <<sized, held, size>>
      BY <2>3 DEF Delete, LetIn, Admits
    <3> QED
      BY <1>1, <3>1, <3>2, CalmStep
  <2>4. CASE UNCHANGED vars
    BY <2>4 DEF vars, QuotaInv, Stored, Sized, Fresh, OneLess, LetIn, Admits, Quota, Used, N
  <2> QED
    BY <1>1, <2>1, <2>2, <2>3, <2>4, LoadKeeps DEF Next
<1> QED
  BY <1>1, <1>2 DEF QuotaInv

LEMMA QuotaInvHolds == Spec => []QuotaInv
BY InitQuotaInv, NextQuotaInv, PTL DEF Spec

-------------------------------------------------------------------------------
(* A file whose size was known fits into the whole quota (remaining_quota). *)
THEOREM TypeCorrect == Spec => []TypeOK
BY QuotaInvHolds, PTL DEF QuotaInv

(* Any number of uploads and deletions overruns a quota by no more than one *)
(* file of every session, of every session but one when sizes are known     *)
(* (remaining_quota, is_quota_exceeded).                                    *)
THEOREM OvershootIsBounded == Spec => []OvershootBounded
<1>1. QuotaInv => OvershootBounded
  <2> SUFFICES ASSUME QuotaInv, HasQuota(space)
               PROVE  Used <= Quota + (IF sized = Sessions THEN N - 1 ELSE N) * MaxSize
    BY DEF OvershootBounded, Used, Quota, N
  <2> DEFINE K == Cardinality(LetIn)
  <2>1. PICK s \in Sessions : TRUE
    BY QuotaAssumption
  <2>2. Used \in Nat /\ Quota \in Nat /\ MaxSize \in Nat
    BY <2>1, Copies DEF QuotaInv
  <2>3. K \in Nat /\ N \in Nat /\ N >= 1 /\ MaxSize * K \in Nat /\ MaxSize * (N - 1) \in Nat
    BY <2>2, LetInCounted
  <2>4. CASE sized = Sessions
    <3>1. CASE Used <= Quota
      BY <2>2, <2>3, <2>4, <3>1
    <3>2. CASE Quota < Used
      <4>1. OneLess
        BY <2>4, <3>2 DEF QuotaInv, Sized
      <4>2. \A t \in LetIn : K - 1 \in Nat /\ MaxSize * (K - 1) \in Nat /\ size[t] \in Nat
        <5>1. \A t \in LetIn : K - 1 \in Nat
          <6>1. \A t \in LetIn : LetIn \ {t} \in SUBSET LetIn
            OBVIOUS
          <6> QED
            BY <6>1, LetInCounted
        <5>2. \A t \in LetIn : size[t] \in Nat
          BY Copies DEF LetIn, QuotaInv
        <5> HIDE DEF K
        <5> QED
          BY <2>2, <5>1, <5>2
      <4>3. Used <= Quota + MaxSize * (N - 1)
        <5>1. CASE Used + MaxSize * K <= Quota + MaxSize * (N - 1)
          <6> HIDE DEF K
          <6> QED
            BY <2>2, <2>3, <5>1
        <5>2. ASSUME NEW t \in LetIn,
                     Used + size[t] + MaxSize * (K - 1) <= Quota + MaxSize * (N - 1)
              PROVE  Used <= Quota + MaxSize * (N - 1)
          <6>1. size[t] \in Nat /\ MaxSize * (K - 1) \in Nat
            BY <4>2
          <6> HIDE DEF K
          <6> QED
            BY <2>2, <2>3, <5>2, <6>1
        <5> QED
          BY <4>1, <5>1, <5>2 DEF OneLess
      <4> QED
        BY <2>2, <2>3, <2>4, <4>3
    <3> QED
      BY <2>2, <3>1, <3>2
  <2>5. CASE sized # Sessions
    <3>1. Used + MaxSize * K <= Quota + MaxSize * N
      BY DEF QuotaInv, Stored
    <3> HIDE DEF K
    <3> QED
      BY <2>2, <2>3, <2>5, <3>1
  <2> QED
    BY <2>4, <2>5
<1> QED
  BY <1>1, QuotaInvHolds, PTL

(* An overrun grows only by uploads let in on a copy from before it         *)
(* (remaining_quota, is_quota_exceeded).                                    *)
THEOREM OverrunsAreOld == Spec => OverrunOnOldCopies
<1> DEFINE Grows ==
      HasQuota(space) /\ space.storage_quota < space.storage_used
        /\ space.storage_used < space'.storage_used
      => \E s \in Sessions : /\ phase[s] = "uploading" /\ phase'[s] = "idle"
                             /\ held[s].storage_used <= space.storage_quota
<1>1. QuotaInv /\ [Next]_vars => [Grows]_vars
  <2> SUFFICES ASSUME QuotaInv, [Next]_vars, HasQuota(space), Used < space'.storage_used
               PROVE  \E s \in Sessions :
                         /\ phase[s] = "uploading" /\ phase'[s] = "idle"
                         /\ held[s].storage_used <= space.storage_quota
    BY DEF Used
  <2>1. space \in Spaces /\ Used \in Nat
    BY DEF QuotaInv, TypeOK, Spaces, Used
  <2>2. ~ Delete /\ space' # space
    BY <2>1 DEF Delete, Spaces, Used
  <2>3. PICK s \in Sessions : Commit(s)
    BY <2>2 DEF Next, Load, JudgeSized, JudgeStream, Abort, vars
  <2>4. phase[s] = "uploading" /\ phase'[s] = "idle" /\ Admits(s)
    BY <2>3 DEF Commit, QuotaInv, TypeOK, Admitted
  <2>5. size[s] > 0
    BY <2>1, <2>3, QuotaAssumption DEF Commit, QuotaInv, TypeOK, Spaces, Used
  <2> QED
    BY <2>4, <2>5, Copies DEF QuotaInv, Quota
<1> QED
  BY <1>1, QuotaInvHolds, PTL DEF Spec, OverrunOnOldCopies
================================================================================
