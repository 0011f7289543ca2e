------------------------------ MODULE Paging_proofs ------------------------------
(***************************************************************************)
(* Proofs about Paging, for every width of the integers (any MaxU32), and  *)
(* about PageWalk, for any entries, page sizes and changes.                *)
(*                                                                         *)
(* The invariant of a walk speaks of positions: what lies before the next  *)
(* window and has not been received was carried there by a removal, and    *)
(* what lies behind its beginning and has been received, by an addition.   *)
(***************************************************************************)
EXTENDS PageWalk, FiniteSetTheorems, SequenceTheorems, TLAPS

USE PagingAssumption

\* Multiplication preserves order.
LEMMA TimesMonotone ==
  ASSUME NEW a \in Nat, NEW b \in Nat, NEW c \in Nat, a <= b
  PROVE  a * c <= b * c /\ a * c \in Nat
BY SMT

\* Rounded up, a quotient is the least count of full or partial pages: what is above
\* it holds nothing (u64::div_ceil).
LEMMA DivCeilBounds ==
  ASSUME NEW a \in Nat, NEW b \in Nat \ {0}, NEW p \in Nat
  PROVE  p < DivCeil(a, b) <=> p * b < a
<1> DEFINE q == a \div b
           r == a % b
<1>1. q \in Nat /\ r \in 0..(b - 1) /\ a = q * b + r
  BY SMT
<1> HIDE DEF q, r
<1>2. DivCeil(a, b) = q + (IF r = 0 THEN 0 ELSE 1)
  BY DEF DivCeil, q, r
<1>3. CASE p < q
  <2>1. (p + 1) * b <= q * b /\ (p + 1) * b = p * b + b
    BY <1>1, <1>3, TimesMonotone, SMT
  <2>2. p * b \in Nat /\ q * b \in Nat
    BY <1>1, TimesMonotone
  <2> QED
    BY <1>1, <1>2, <1>3, <2>1, <2>2
<1>4. CASE p = q
  <2>1. p * b = q * b /\ q * b \in Nat
    BY <1>1, <1>4, TimesMonotone
  <2> QED
    BY <1>1, <1>2, <1>4, <2>1
<1>5. CASE p > q
  <2>1. (q + 1) * b <= p * b /\ (q + 1) * b = q * b + b
    BY <1>1, <1>5, TimesMonotone, SMT
  <2>2. p * b \in Nat /\ q * b \in Nat
    BY <1>1, TimesMonotone
  <2> QED
    BY <1>1, <1>2, <1>5, <2>1, <2>2
<1> QED
  BY <1>1, <1>3, <1>4, <1>5

\* The product in PageRequest::offset() always fits a u64: it never wraps (or panics
\* in a build with overflow checks), whatever page number and size a client sends.
THEOREM OffsetNeverWraps ==
  ASSUME NEW page \in U32, NEW per_page \in U32
  PROVE  /\ SaturatingSub(page, 1) * per_page \in U64
         /\ Offset(page, per_page) = SaturatingSub(page, 1) * per_page
<1> DEFINE s == SaturatingSub(page, 1)
           W == (MaxU32 + 1) * (MaxU32 + 1)
<1>1. s \in Nat /\ s <= MaxU32 /\ per_page \in Nat /\ per_page <= MaxU32
  BY DEF SaturatingSub, U32
<1> HIDE DEF s
<1>2. s * per_page <= MaxU32 * per_page /\ s * per_page \in Nat
  BY <1>1, TimesMonotone
<1>3. per_page * MaxU32 <= MaxU32 * MaxU32 /\ per_page * MaxU32 = MaxU32 * per_page
  BY <1>1, TimesMonotone, SMT
<1>4. W = MaxU32 * MaxU32 + MaxU32 + MaxU32 + 1 /\ MaxU32 * MaxU32 \in Nat
  BY TimesMonotone, SMT
<1> HIDE DEF W
<1>5. MaxU32 * per_page \in Nat
  BY <1>1, TimesMonotone
<1>6. s * per_page < W /\ W \in Nat
  BY <1>2, <1>3, <1>4, <1>5
<1>7. (s * per_page) % W = s * per_page
  BY <1>2, <1>6
<1> QED
  BY <1>2, <1>6, <1>7 DEF s, W, U64, Offset, Wrap64

\* has_next() is right about every page a client may name, when pages count from 1 and
\* hold something: it is TRUE exactly when the listing goes on beyond the window that
\* offset() and limit() describe, for every total a u64 holds.
THEOREM HasNextExact ==
  ASSUME NEW page \in U32 \ {0}, NEW per_page \in U32 \ {0}, NEW total \in U64
  PROVE  HasNext(page, per_page, total)
           <=> Offset(page, per_page) + Limit(per_page) < total
<1>1. page \in Nat /\ per_page \in Nat \ {0} /\ page - 1 \in Nat
  BY DEF U32
<1>2. Offset(page, per_page) = (page - 1) * per_page
  BY <1>1, OffsetNeverWraps DEF SaturatingSub
<1>3. (page - 1) * per_page + per_page = page * per_page
  BY <1>1, SMT
<1>4. total \in Nat
  BY DEF U64
<1>5. TotalPages(total, per_page) = DivCeil(total, per_page)
  BY <1>1 DEF TotalPages
<1> QED
  BY <1>1, <1>2, <1>3, <1>4, <1>5, DivCeilBounds DEF HasNext, Limit

\* Two pages of one size have no position in common, and the windows leave no gap: a
\* page's ends where the next one's begins (PageRequest::offset, PageRequest::limit).
THEOREM WindowsTile ==
  ASSUME NEW per_page \in U32, NEW page \in U32 \ {0}
  PROVE  /\ Offset(1, per_page) = 0
         /\ \A next \in U32 :
              /\ next = page + 1 =>
                   Offset(next, per_page) = Offset(page, per_page) + Limit(per_page)
              /\ next > page =>
                   Offset(next, per_page) >= Offset(page, per_page) + Limit(per_page)
<1>1. page \in Nat /\ per_page \in Nat /\ page - 1 \in Nat /\ 1 \in U32
  BY DEF U32
<1>2. \A p \in U32 \ {0} : Offset(p, per_page) = (p - 1) * per_page
  BY OffsetNeverWraps DEF SaturatingSub, U32
<1>3. Offset(1, per_page) = 0
  BY <1>1, <1>2, SMT
<1>4. (page - 1) * per_page + per_page = page * per_page
  BY <1>1, SMT
<1>5. ASSUME NEW next \in U32, next > page
      PROVE  Offset(next, per_page) >= Offset(page, per_page) + Limit(per_page)
  <2>1. next - 1 \in Nat /\ page <= next - 1 /\ next # 0
    BY <1>1, <1>5 DEF U32
  <2>2. page * per_page <= (next - 1) * per_page
    BY <1>1, <2>1, TimesMonotone
  <2> QED
    BY <1>1, <1>2, <1>4, <2>1, <2>2 DEF Limit
<1>6. ASSUME NEW next \in U32, next = page + 1
      PROVE  Offset(next, per_page) = Offset(page, per_page) + Limit(per_page)
  <2>1. next # 0 /\ next - 1 = page
    BY <1>1, <1>6
  <2> QED
    BY <1>1, <1>2, <1>4, <1>6, <2>1 DEF Limit
<1> QED
  BY <1>3, <1>5, <1>6

\* Every position of a listing lies on one page and on no other, the pages that
\* total_pages() counts are those that hold something, and so the last of them holds the
\* last position; only a listing with more pages than u32 has numbers is not covered.
THEOREM PagesCoverListing ==
  ASSUME NEW per_page \in U32 \ {0}, NEW total \in U64, NEW i \in 1..total
  PROVE  /\ \A page \in U32 \ {0} :
              page <= TotalPages(total, per_page) <=> Offset(page, per_page) < total
         /\ \A page, other \in U32 \ {0} :
              /\ Offset(page, per_page) < i /\ i <= Offset(page, per_page) + Limit(per_page)
              /\ Offset(other, per_page) < i /\ i <= Offset(other, per_page) + Limit(per_page)
              => page = other
         /\ TotalPages(total, per_page) <= MaxU32 =>
              \E page \in U32 \ {0} :
                /\ page <= TotalPages(total, per_page)
                /\ Offset(page, per_page) < i /\ i <= Offset(page, per_page) + Limit(per_page)
<1> DEFINE n == per_page
           pages == TotalPages(total, per_page)
<1>1. n \in Nat \ {0} /\ n \in U32 /\ total \in Nat /\ i \in Nat /\ i >= 1 /\ i <= total
  BY DEF U32, U64
<1>2. \A p \in U32 \ {0} : p - 1 \in Nat /\ Offset(p, n) = (p - 1) * n /\ (p - 1) * n \in Nat
  <2> TAKE p \in U32 \ {0}
  <2>1. p \in Nat /\ p - 1 \in Nat
    BY DEF U32
  <2>2. Offset(p, n) = (p - 1) * n
    BY <1>1, <2>1, OffsetNeverWraps DEF SaturatingSub
  <2>3. (p - 1) * n \in Nat
    BY <1>1, <2>1, TimesMonotone
  <2> QED
    BY <2>1, <2>2, <2>3
<1>3. pages = DivCeil(total, n)
  BY <1>1 DEF TotalPages
<1>4. Limit(n) = n
  BY DEF Limit
<1> HIDE DEF n, pages
<1>5. DivCeil(total, n) \in Nat
  <2>1. total \div n \in Nat
    BY <1>1, SMT
  <2> QED
    BY <2>1 DEF DivCeil
<1>6. ASSUME NEW p \in U32 \ {0}
      PROVE  p <= pages <=> Offset(p, n) < total
  <2>1. p - 1 < DivCeil(total, n) <=> (p - 1) * n < total
    BY <1>1, <1>2, DivCeilBounds
  <2>2. p \in Nat
    BY DEF U32
  <2> QED
    BY <1>2, <1>3, <1>5, <2>1, <2>2
<1>7. ASSUME NEW p \in U32 \ {0}, NEW q \in U32 \ {0}, p < q,
             i <= Offset(p, n) + n, Offset(q, n) < i
      PROVE  FALSE
  <2>1. Offset(q, n) >= Offset(p, n) + Limit(n)
    BY <1>1, <1>7, WindowsTile
  <2> QED
    BY <1>1, <1>2, <1>4, <1>7, <2>1
<1>8. ASSUME NEW p \in U32 \ {0}, NEW q \in U32 \ {0},
             Offset(p, n) < i, i <= Offset(p, n) + n,
             Offset(q, n) < i, i <= Offset(q, n) + n
      PROVE  p = q
  <2>1. p \in Nat /\ q \in Nat
    BY DEF U32
  <2> QED
    BY <1>7, <1>8, <2>1
<1>9. ASSUME pages <= MaxU32
      PROVE  \E p \in U32 \ {0} : p <= pages /\ Offset(p, n) < i /\ i <= Offset(p, n) + n
  <2> DEFINE q == (i - 1) \div n
  <2>1. q \in Nat /\ i - 1 = q * n + ((i - 1) % n) /\ (i - 1) % n \in 0..(n - 1)
    BY <1>1, SMT
  <2>2. q * n \in Nat
    BY <1>1, <2>1, TimesMonotone
  <2> HIDE DEF q
  <2>3. q * n < i /\ i <= q * n + n
    BY <1>1, <2>1, <2>2
  <2>4. q < DivCeil(total, n)
    BY <1>1, <2>1, <2>2, <2>3, DivCeilBounds
  <2>5. q + 1 \in U32 \ {0} /\ q + 1 <= pages /\ (q + 1) - 1 = q
    BY <1>3, <1>5, <1>9, <2>1, <2>4 DEF U32
  <2>6. Offset(q + 1, n) = q * n
    BY <1>2, <2>5
  <2> QED
    BY <2>3, <2>5, <2>6
<1> QED
  BY <1>4, <1>6, <1>8, <1>9 DEF n, pages

-------------------------------------------------------------------------------
(* Listings as sequences.                                                  *)

\* The smaller of two numbers, as Window cuts at it.
LEMMA MinOfTwo ==
  ASSUME NEW a \in Nat, NEW b \in Nat
  PROVE  Min({a, b}) = IF a <= b THEN a ELSE b
<1>1. \A x \in {a, b} : (\A y \in {a, b} : x =< y) <=> x = IF a <= b THEN a ELSE b
  BY SMT
<1>2. Min({a, b}) \in {a, b} /\ \A y \in {a, b} : Min({a, b}) =< y
  BY <1>1 DEF Min
<1> QED
  BY <1>1, <1>2

\* An entry inserted at i pushes those from i on one position up.
LEMMA InsertAtPositions ==
  ASSUME NEW S, NEW s \in Seq(S), NEW i \in 1..(Len(s) + 1), NEW e \in S
  PROVE  /\ InsertAt(s, i, e) \in Seq(S)
         /\ Len(InsertAt(s, i, e)) = Len(s) + 1
         /\ \A j \in 1..(Len(s) + 1) :
              InsertAt(s, i, e)[j] = IF j < i THEN s[j] ELSE IF j = i THEN e ELSE s[j - 1]
<1> DEFINE a == SubSeq(s, 1, i - 1)
           c == SubSeq(s, i, Len(s))
<1>1. Len(s) \in Nat /\ \A j \in 1..Len(s) : s[j] \in S
  BY LenProperties, ElementOfSeq
<1>2. a \in Seq(S) /\ Len(a) = i - 1 /\ \A j \in 1..(i - 1) : a[j] = s[j]
  BY <1>1, SubSeqProperties
<1>3. c \in Seq(S) /\ Len(c) = Len(s) - i + 1 /\ \A j \in 1..(Len(s) - i + 1) : c[j] = s[i + j - 1]
  BY <1>1, SubSeqProperties
<1>4. <<e>> \in Seq(S) /\ Len(<<e>>) = 1 /\ <<e>>[1] = e
  OBVIOUS
<1> HIDE DEF a, c
<1>5. /\ a \o <<e>> \in Seq(S) /\ Len(a \o <<e>>) = i
      /\ \A j \in 1..i : (a \o <<e>>)[j] = IF j < i THEN s[j] ELSE e
  BY <1>2, <1>4, ConcatProperties
<1> DEFINE b == a \o <<e>>
<1>6. InsertAt(s, i, e) = b \o c
  BY DEF InsertAt, a, c
<1>7. b \in Seq(S) /\ Len(b) = i /\ \A j \in 1..i : b[j] = IF j < i THEN s[j] ELSE e
  BY <1>5
<1> HIDE DEF b
<1>8. /\ b \o c \in Seq(S) /\ Len(b \o c) = Len(b) + Len(c)
      /\ \A j \in 1..(Len(b) + Len(c)) :
           (b \o c)[j] = IF j <= Len(b) THEN b[j] ELSE c[j - Len(b)]
  BY <1>3, <1>7, ConcatProperties
<1>9. ASSUME NEW j \in 1..(Len(s) + 1)
      PROVE  (b \o c)[j] = IF j < i THEN s[j] ELSE IF j = i THEN e ELSE s[j - 1]
  <2>1. (b \o c)[j] = IF j <= i THEN b[j] ELSE c[j - i]
    BY <1>1, <1>3, <1>7, <1>8
  <2>2. CASE j <= i
    BY <1>7, <2>1, <2>2
  <2>3. CASE j > i
    <3>1. j - i \in 1..(Len(s) - i + 1) /\ i + (j - i) - 1 = j - 1
      BY <1>1, <2>3
    <3> QED
      BY <1>1, <1>3, <2>1, <2>3, <3>1
  <2>4. j <= i \/ j > i
    BY <1>1
  <2> QED
    BY <2>2, <2>3, <2>4, Zenon
<1> QED
  BY <1>1, <1>3, <1>6, <1>7, <1>8, <1>9

\* An entry removed at i lets those behind it move one position down.
LEMMA RemoveAtPositions ==
  ASSUME NEW S, NEW s \in Seq(S), NEW i \in 1..Len(s)
  PROVE  /\ RemoveAt(s, i) \in Seq(S)
         /\ Len(RemoveAt(s, i)) = Len(s) - 1
         /\ \A j \in 1..(Len(s) - 1) : RemoveAt(s, i)[j] = IF j < i THEN s[j] ELSE s[j + 1]
<1> DEFINE a == SubSeq(s, 1, i - 1)
           c == SubSeq(s, i + 1, Len(s))
<1>1. Len(s) \in Nat /\ \A j \in 1..Len(s) : s[j] \in S
  BY LenProperties, ElementOfSeq
<1>2. a \in Seq(S) /\ Len(a) = i - 1 /\ \A j \in 1..(i - 1) : a[j] = s[j]
  BY <1>1, SubSeqProperties
<1>3. c \in Seq(S) /\ Len(c) = Len(s) - i /\ \A j \in 1..(Len(s) - i) : c[j] = s[i + j]
  BY <1>1, SubSeqProperties
<1> HIDE DEF a, c
<1>4. /\ a \o c \in Seq(S) /\ Len(a \o c) = Len(a) + Len(c)
      /\ \A j \in 1..(Len(a) + Len(c)) :
           (a \o c)[j] = IF j <= Len(a) THEN a[j] ELSE c[j - Len(a)]
  BY <1>2, <1>3, ConcatProperties
<1>5. RemoveAt(s, i) = a \o c
  BY DEF RemoveAt, a, c
<1>6. ASSUME NEW j \in 1..(Len(s) - 1)
      PROVE  (a \o c)[j] = IF j < i THEN s[j] ELSE s[j + 1]
  <2>1. (a \o c)[j] = IF j <= i - 1 THEN a[j] ELSE c[j - (i - 1)]
    BY <1>1, <1>2, <1>3, <1>4
  <2>2. CASE j < i
    BY <1>1, <1>2, <2>1, <2>2
  <2>3. CASE j >= i
    <3>1. j - (i - 1) \in 1..(Len(s) - i) /\ i + (j - (i - 1)) = j + 1
      BY <1>1, <2>3
    <3> QED
      BY <1>1, <1>3, <2>1, <2>3, <3>1
  <2>4. j < i \/ j >= i
    BY <1>1
  <2> QED
    BY <2>2, <2>3, <2>4, Zenon
<1> QED
  BY <1>1, <1>2, <1>3, <1>4, <1>5, <1>6

\* The last position of s up to k.
Cut(s, k) == IF k <= Len(s) THEN k ELSE Len(s)

\* What a window holds: the entries from o + 1 on, no more than l of them.
LEMMA WindowPositions ==
  ASSUME NEW S, NEW s \in Seq(S), NEW o \in Nat, NEW l \in Nat
  PROVE  /\ Cut(s, o + l) \in Nat /\ Cut(s, o + l) <= Len(s)
         /\ Window(s, o, l) = SubSeq(s, o + 1, Cut(s, o + l))
         /\ Window(s, o, l) \in Seq(S)
         /\ Len(Window(s, o, l)) = IF o < Cut(s, o + l) THEN Cut(s, o + l) - o ELSE 0
         /\ \A j \in 1..(Cut(s, o + l) - o) : Window(s, o, l)[j] = s[o + j]
<1> DEFINE m == Cut(s, o + l)
<1>1. Len(s) \in Nat /\ \A j \in 1..Len(s) : s[j] \in S
  BY LenProperties, ElementOfSeq
<1>2. Window(s, o, l) = SubSeq(s, o + 1, m)
  <2>1. o + l \in Nat
    OBVIOUS
  <2>2. Min({o + l, Len(s)}) = m
    BY <1>1, <2>1, MinOfTwo DEF Cut
  <2> QED
    BY <2>2, Zenon DEF Window
<1>3. m \in Nat /\ m <= Len(s) /\ \A j \in (o + 1)..m : s[j] \in S
  BY <1>1 DEF Cut
<1> HIDE DEF m
<1>4. /\ SubSeq(s, o + 1, m) \in Seq(S)
      /\ Len(SubSeq(s, o + 1, m)) = IF o + 1 <= m THEN m - (o + 1) + 1 ELSE 0
      /\ \A j \in 1..(m - (o + 1) + 1) : SubSeq(s, o + 1, m)[j] = s[o + 1 + j - 1]
  BY <1>3, SubSeqProperties
<1>5. /\ Window(s, o, l) \in Seq(S)
      /\ Len(Window(s, o, l)) = IF o < m THEN m - o ELSE 0
      /\ \A j \in 1..(m - o) : Window(s, o, l)[j] = s[o + j]
  BY <1>2, <1>3, <1>4
<1> QED
  BY <1>2, <1>3, <1>5 DEF m

\* The window of the first k entries.
LEMMA FirstWindow ==
  ASSUME NEW S, NEW s \in Seq(S), NEW k \in Nat
  PROVE  /\ Window(s, 0, k) = SubSeq(s, 1, Cut(s, k)) /\ Window(s, 0, k) \in Seq(S)
         /\ Len(Window(s, 0, k)) = Cut(s, k)
         /\ \A j \in 1..Cut(s, k) : Window(s, 0, k)[j] = s[j]
<1> DEFINE w == Window(s, 0, k)
           m == Cut(s, 0 + k)
<1>1. 0 + 1 = 1 /\ m = Cut(s, k)
  BY DEF Cut
<1>2. /\ m \in Nat /\ w = SubSeq(s, 0 + 1, m) /\ w \in Seq(S)
      /\ Len(w) = IF 0 < m THEN m - 0 ELSE 0
      /\ \A j \in 1..(m - 0) : w[j] = s[0 + j]
  <2>1. ASSUME NEW z \in Nat
        PROVE  /\ Cut(s, z + k) \in Nat /\ Window(s, z, k) = SubSeq(s, z + 1, Cut(s, z + k))
               /\ Window(s, z, k) \in Seq(S)
               /\ Len(Window(s, z, k)) = IF z < Cut(s, z + k) THEN Cut(s, z + k) - z ELSE 0
               /\ \A j \in 1..(Cut(s, z + k) - z) : Window(s, z, k)[j] = s[z + j]
    BY WindowPositions
  <2>2. 0 \in Nat
    OBVIOUS
  <2> QED
    BY <2>1, <2>2, Zenon
<1> HIDE DEF w, m
<1>3. m - 0 = m /\ Len(w) = m /\ \A j \in 1..m : w[j] = s[j]
  BY <1>2
<1> QED
  BY <1>1, <1>2, <1>3 DEF w

\* A sequence without repetitions has as many entries as positions.
LEMMA InjectiveRange ==
  ASSUME NEW S, NEW s \in Seq(S), IsInjective(s)
  PROVE  IsFiniteSet(Range(s)) /\ Cardinality(Range(s)) = Len(s)
<1>1. Len(s) \in Nat /\ DOMAIN s = 1..Len(s) /\ s \in [1..Len(s) -> S]
  BY LenProperties
<1>2. s \in Bijection(1..Len(s), Range(s))
  BY <1>1 DEF Range, IsInjective, Bijection, Injection, Surjection
<1>3. ExistsBijection(1..Len(s), Range(s))
  BY <1>2 DEF ExistsBijection
<1> QED
  BY <1>1, <1>3, FS_CountingElements, FS_NatBijection

\* What SetToSeq makes of a finite set: each member once, and nothing else.
LEMMA SetToSeqListing ==
  ASSUME NEW S, IsFiniteSet(S)
  PROVE  SetToSeq(S) \in Seq(S) /\ IsInjective(SetToSeq(S)) /\ Range(SetToSeq(S)) \subseteq S
<1>1. Cardinality(S) \in Nat /\ ExistsBijection(1..Cardinality(S), S)
  BY FS_CardinalityType
<1>2. \E f \in [1..Cardinality(S) -> S] : IsInjective(f)
  BY <1>1 DEF ExistsBijection, Bijection, Injection
<1>3. SetToSeq(S) \in [1..Cardinality(S) -> S] /\ IsInjective(SetToSeq(S))
  BY <1>2 DEF SetToSeq
<1>4. SetToSeq(S) \in Seq(S)
  BY <1>1, <1>3, SeqDef
<1> QED
  BY <1>3, <1>4, RangeOfSeq

\* An entry that is not in the listing yet is inserted once, and nothing else changes.
LEMMA InsertAtRange ==
  ASSUME NEW S, NEW s \in Seq(S), IsInjective(s), NEW i \in 1..(Len(s) + 1),
         NEW e \in S, e \notin Range(s)
  PROVE  IsInjective(InsertAt(s, i, e)) /\ Range(InsertAt(s, i, e)) = Range(s) \cup {e}
<1> DEFINE t == InsertAt(s, i, e)
<1>1. Len(s) \in Nat /\ DOMAIN s = 1..Len(s)
  BY LenProperties
<1>2. /\ t \in Seq(S) /\ Len(t) = Len(s) + 1
      /\ \A j \in 1..(Len(s) + 1) : t[j] = IF j < i THEN s[j] ELSE IF j = i THEN e ELSE s[j - 1]
  BY InsertAtPositions
<1> HIDE DEF t
<1>3. DOMAIN t = 1..(Len(s) + 1)
  BY <1>2, LenProperties
<1>4. /\ \A j \in 1..Len(s) : s[j] # e
      /\ \A j, k \in 1..Len(s) : s[j] = s[k] => j = k
  BY <1>1 DEF Range, IsInjective
<1>5. \A j, k \in 1..(Len(s) + 1) : t[j] = t[k] => j = k
  <2> SUFFICES ASSUME NEW j \in 1..(Len(s) + 1), NEW k \in 1..(Len(s) + 1), j < k
               PROVE  t[j] # t[k]
    BY <1>1
  <2>1. CASE k < i
    BY <1>1, <1>2, <1>4, <2>1
  <2>2. CASE k = i
    BY <1>1, <1>2, <1>4, <2>2
  <2>3. CASE k > i
    <3>1. t[k] = s[k - 1] /\ k - 1 \in 1..Len(s)
      BY <1>1, <1>2, <2>3
    <3>2. CASE j < i
      BY <1>1, <1>2, <1>4, <2>3, <3>1, <3>2
    <3>3. CASE j = i
      BY <1>1, <1>2, <1>4, <3>1, <3>3
    <3>4. CASE j > i
      <4>1. t[j] = s[j - 1] /\ j - 1 \in 1..Len(s) /\ j - 1 # k - 1
        BY <1>1, <1>2, <3>4
      <4> QED
        BY <1>4, <3>1, <4>1
    <3> QED
      BY <1>1, <3>2, <3>3, <3>4
  <2> QED
    BY <1>1, <2>1, <2>2, <2>3
<1>6. ASSUME NEW x \in Range(t)
      PROVE  x \in Range(s) \cup {e}
  <2>1. PICK j \in 1..(Len(s) + 1) : x = t[j]
    BY <1>3 DEF Range
  <2>2. j = i \/ (j < i /\ j \in 1..Len(s)) \/ (j > i /\ j - 1 \in 1..Len(s))
    BY <1>1
  <2>3. x = e \/ \E k \in 1..Len(s) : x = s[k]
    BY <1>1, <1>2, <2>1, <2>2
  <2> QED
    BY <1>1, <2>3 DEF Range
<1>7. ASSUME NEW k \in 1..Len(s)
      PROVE  s[k] \in Range(t)
  <2>1. CASE k < i
    <3>1. t[k] = s[k] /\ k \in 1..(Len(s) + 1)
      BY <1>1, <1>2, <2>1
    <3> QED
      BY <1>3, <3>1 DEF Range
  <2>2. CASE k >= i
    <3>1. k + 1 \in 1..(Len(s) + 1) /\ ~ (k + 1 < i) /\ k + 1 # i /\ (k + 1) - 1 = k
      BY <1>1, <2>2
    <3>2. t[k + 1] = s[k]
      BY <1>2, <3>1
    <3> QED
      BY <1>3, <3>1, <3>2 DEF Range
  <2> QED
    BY <1>1, <2>1, <2>2
<1>8. e \in Range(t)
  BY <1>1, <1>2, <1>3 DEF Range
<1>9. IsInjective(t)
  BY <1>3, <1>5 DEF IsInjective
<1>10. \A x \in Range(s) : x \in Range(t)
  BY <1>1, <1>7 DEF Range
<1>11. Range(t) = Range(s) \cup {e}
  BY <1>6, <1>8, <1>10
<1> QED
  BY <1>9, <1>11 DEF t

\* An entry removed from a listing without repetitions is gone, and no other is.
LEMMA RemoveAtRange ==
  ASSUME NEW S, NEW s \in Seq(S), IsInjective(s), NEW i \in 1..Len(s)
  PROVE  IsInjective(RemoveAt(s, i)) /\ Range(RemoveAt(s, i)) = Range(s) \ {s[i]}
<1> DEFINE t == RemoveAt(s, i)
<1>1. Len(s) \in Nat /\ DOMAIN s = 1..Len(s)
  BY LenProperties
<1>2. /\ t \in Seq(S) /\ Len(t) = Len(s) - 1
      /\ \A j \in 1..(Len(s) - 1) : t[j] = IF j < i THEN s[j] ELSE s[j + 1]
  BY RemoveAtPositions
<1> HIDE DEF t
<1>3. DOMAIN t = 1..(Len(s) - 1)
  BY <1>2, LenProperties
<1>4. \A j, k \in 1..Len(s) : s[j] = s[k] => j = k
  BY <1>1 DEF IsInjective
<1>5. \A j \in 1..(Len(s) - 1) : \E k \in 1..Len(s) :
        k # i /\ t[j] = s[k] /\ k = IF j < i THEN j ELSE j + 1
  BY <1>1, <1>2
<1>6. ASSUME NEW j \in 1..(Len(s) - 1), NEW k \in 1..(Len(s) - 1), t[j] = t[k]
      PROVE  j = k
  <2>1. PICK a \in 1..Len(s) : t[j] = s[a] /\ a = IF j < i THEN j ELSE j + 1
    BY <1>5
  <2>2. PICK b \in 1..Len(s) : t[k] = s[b] /\ b = IF k < i THEN k ELSE k + 1
    BY <1>5
  <2>3. a = b
    BY <1>4, <1>6, <2>1, <2>2
  <2> QED
    BY <1>1, <2>1, <2>2, <2>3
<1>7. \A x \in Range(t) : x \in Range(s) /\ x # s[i]
  BY <1>1, <1>3, <1>4, <1>5 DEF Range
<1>8. ASSUME NEW k \in 1..Len(s), k # i
      PROVE  s[k] \in Range(t)
  <2>1. CASE k < i
    <3>1. t[k] = s[k] /\ k \in 1..(Len(s) - 1)
      BY <1>1, <1>2, <2>1
    <3> QED
      BY <1>3, <3>1 DEF Range
  <2>2. CASE k > i
    <3>1. k - 1 \in 1..(Len(s) - 1) /\ ~ (k - 1 < i) /\ (k - 1) + 1 = k
      BY <1>1, <2>2
    <3>2. t[k - 1] = s[k]
      BY <1>2, <3>1
    <3> QED
      BY <1>3, <3>1, <3>2 DEF Range
  <2> QED
    BY <1>1, <1>8, <2>1, <2>2
<1>9. \A x \in Range(s) : x # s[i] => x \in Range(t)
  BY <1>1, <1>8 DEF Range
<1>10. Range(t) = Range(s) \ {s[i]}
  BY <1>7, <1>9
<1>11. IsInjective(t)
  BY <1>3, <1>6 DEF IsInjective
<1> QED
  BY <1>10, <1>11 DEF t

\* A window of a listing without repetitions has none, and holds what its positions say.
LEMMA WindowRange ==
  ASSUME NEW S, NEW s \in Seq(S), IsInjective(s), NEW o \in Nat, NEW l \in Nat
  PROVE  /\ IsInjective(Window(s, o, l))
         /\ \A x : x \in Range(Window(s, o, l))
                     <=> \E i \in 1..Len(s) : s[i] = x /\ o < i /\ i <= o + l
<1> DEFINE m == Cut(s, o + l)
           w == Window(s, o, l)
<1>1. Len(s) \in Nat /\ DOMAIN s = 1..Len(s)
  BY LenProperties
<1>2. /\ w \in Seq(S) /\ Len(w) = IF o < m THEN m - o ELSE 0
      /\ \A j \in 1..(m - o) : w[j] = s[o + j]
  BY WindowPositions
<1>3. m \in Nat /\ m <= Len(s) /\ m <= o + l
      /\ \A i \in 1..Len(s) : i <= o + l => i <= m
  BY <1>1 DEF Cut
<1> HIDE DEF m, w
<1>4. DOMAIN w = 1..(m - o)
  <2>1. DOMAIN w = 1..Len(w)
    BY <1>2, LenProperties
  <2> QED
    BY <1>2, <1>3, <2>1
<1>5. \A j \in 1..(m - o) : o + j \in 1..Len(s) /\ o < o + j /\ o + j <= o + l
  BY <1>1, <1>3
<1>6. \A j, k \in 1..Len(s) : s[j] = s[k] => j = k
  BY <1>1 DEF IsInjective
<1>7. ASSUME NEW j \in 1..(m - o), NEW k \in 1..(m - o), w[j] = w[k]
      PROVE  j = k
  <2>1. o + j = o + k
    BY <1>2, <1>5, <1>6, <1>7
  <2> QED
    BY <1>3, <2>1
<1>8. ASSUME NEW x, x \in Range(w)
      PROVE  \E i \in 1..Len(s) : s[i] = x /\ o < i /\ i <= o + l
  BY <1>2, <1>4, <1>5, <1>8 DEF Range
<1>9. ASSUME NEW i \in 1..Len(s), o < i, i <= o + l
      PROVE  s[i] \in Range(w)
  <2>1. i - o \in 1..(m - o) /\ o + (i - o) = i
    BY <1>1, <1>3, <1>9
  <2>2. w[i - o] = s[i]
    BY <1>2, <2>1
  <2> QED
    BY <1>4, <2>1, <2>2 DEF Range
<1>10. IsInjective(w)
  BY <1>4, <1>7 DEF IsInjective
<1> QED
  BY <1>8, <1>9, <1>10 DEF w

-------------------------------------------------------------------------------
(***************************************************************************)
(* The invariant of a walk.  Asked is the number of positions the client   *)
(* has asked for so far; the next window begins behind it.                 *)
(***************************************************************************)
Asked == (request.page - 1) * request.per_page

WalkType ==
  /\ listing \in Seq(Entries) /\ IsInjective(listing)
  /\ got \in Seq(Entries)
  /\ request \in [page : 0..(MaxU32 + 1), per_page : PageSizes]
  /\ more \in BOOLEAN
  /\ fresh \subseteq Entries /\ Range(atStart) \subseteq Entries
  /\ \A x \in fresh : x \notin Range(listing) /\ x \notin Range(got) /\ x \notin Range(atStart)

\* What was there from the start, is where the client will not ask again, and has not
\* been received; when the walk is over the client asks nowhere again.
Behind ==
  {x \in Range(atStart) \ Range(got) :
     \E i \in 1..Len(listing) : listing[i] = x /\ (Walked \/ i <= Asked)}

\* What has been received and lies where the client may still ask.
Ahead == {x \in Range(got) : \E i \in 1..Len(listing) : listing[i] = x /\ i > Asked}

Untouched ==
  Added = {} /\ Removed = {} =>
    /\ got = Window(listing, 0, Asked)
    /\ Walked => Len(listing) <= Asked

BehindRemoved == Cardinality(Behind) <= Cardinality(Removed)

AheadAdded ==
  Len(got) + Cardinality(Ahead) <= Cardinality(Range(got)) + Cardinality(Added)

WalkInv ==
  /\ WalkType
  /\ request.page >= 1
  /\ BehindRemoved
  /\ AheadAdded
  /\ Untouched

-------------------------------------------------------------------------------
(* One step at a time.                                                     *)

\* Page numbers and sizes in the code's range give an offset and a limit that are naturals.
LEMMA RequestTypes ==
  ASSUME WalkType, request.page \in U32
  PROVE  /\ request.page \in Nat /\ request.per_page \in U32 /\ request.per_page \in Nat
         /\ Offset(request.page, request.per_page) \in Nat
         /\ Limit(request.per_page) = request.per_page
<1>1. request.per_page \in U32
  BY PageWalkAssumption DEF WalkType
<1>2. Offset(request.page, request.per_page) \in U64
  BY <1>1, OffsetNeverWraps
<1> QED
  BY <1>1, <1>2 DEF U32, U64, Limit

\* Whatever is asked for, an answer holds listed entries only.
LEMMA FetchType == WalkType /\ Fetch => WalkType'
<1> SUFFICES ASSUME WalkType, Fetch
             PROVE  WalkType'
  OBVIOUS
<1> DEFINE w == Window(listing, Offset(request.page, request.per_page), Limit(request.per_page))
<1>1. /\ request.page \in U32 /\ got' = got \o w
      /\ more' = HasNext(request.page, request.per_page, Len(listing))
      /\ request' = [request EXCEPT !.page = @ + 1]
      /\ UNCHANGED <<listing, fresh, atStart>>
  BY DEF Fetch
<1>2. listing \in Seq(Entries) /\ IsInjective(listing) /\ got \in Seq(Entries)
  BY DEF WalkType
<1>3. w \in Seq(Entries) /\ \A x \in Range(w) : x \in Range(listing)
  <2>1. DOMAIN listing = 1..Len(listing)
    BY <1>2, LenProperties
  <2>2. /\ Offset(request.page, request.per_page) \in Nat
        /\ Limit(request.per_page) \in Nat
    BY <1>1, RequestTypes
  <2>3. w \in Seq(Entries)
    BY <1>2, <2>2, WindowPositions
  <2>4. \A x \in Range(w) : \E i \in 1..Len(listing) : listing[i] = x
    BY <1>2, <2>2, WindowRange
  <2> QED
    BY <2>1, <2>3, <2>4 DEF Range
<1> HIDE DEF w
<1>4. got' \in Seq(Entries) /\ Range(got') = Range(got) \cup Range(w)
  BY <1>1, <1>2, <1>3, ConcatProperties, RangeConcatenation
<1>5. request' \in [page : 0..(MaxU32 + 1), per_page : PageSizes]
  BY <1>1 DEF WalkType, U32
<1>6. more' \in BOOLEAN
  BY <1>1 DEF HasNext
<1> QED
  BY <1>1, <1>2, <1>3, <1>4, <1>5, <1>6 DEF WalkType

\* What an addition does: the entry is new to everybody, and those from i on move up.
InsertedAt(e, i) ==
  /\ e \in fresh /\ e \in Entries /\ e \notin Range(listing) /\ i \in 1..(Len(listing) + 1)
  /\ listing' \in Seq(Entries) /\ Len(listing') = Len(listing) + 1
  /\ \A j \in 1..(Len(listing) + 1) :
       listing'[j] = IF j < i THEN listing[j] ELSE IF j = i THEN e ELSE listing[j - 1]
  /\ IsInjective(listing') /\ Range(listing') = Range(listing) \cup {e}
  /\ fresh' = fresh \ {e}
  /\ UNCHANGED <<request, more, got, atStart>>

LEMMA AddEntryStep ==
  ASSUME WalkType, AddEntry
  PROVE  \E e \in fresh, i \in 1..(Len(listing) + 1) : InsertedAt(e, i)
<1> DEFINE e == CHOOSE x \in fresh : TRUE
<1>1. e \in fresh
  BY DEF AddEntry
<1>2. PICK i \in 1..(Len(listing) + 1) : listing' = InsertAt(listing, i, e)
  BY DEF AddEntry
<1>3. fresh' = fresh \ {e} /\ UNCHANGED <<request, more, got, atStart>>
  BY DEF AddEntry
<1> HIDE DEF e
<1>4. e \in Entries /\ e \notin Range(listing) /\ listing \in Seq(Entries) /\ IsInjective(listing)
  BY <1>1 DEF WalkType
<1>5. IsInjective(listing') /\ Range(listing') = Range(listing) \cup {e}
  BY <1>2, <1>4, InsertAtRange
<1>6. /\ InsertAt(listing, i, e) \in Seq(Entries)
      /\ Len(InsertAt(listing, i, e)) = Len(listing) + 1
      /\ \A j \in 1..(Len(listing) + 1) : InsertAt(listing, i, e)[j] =
           IF j < i THEN listing[j] ELSE IF j = i THEN e ELSE listing[j - 1]
  BY <1>4, InsertAtPositions
<1>7. InsertedAt(e, i)
  BY <1>1, <1>2, <1>3, <1>4, <1>5, <1>6, Zenon DEF InsertedAt
<1> QED
  BY <1>1, <1>7

LEMMA AddEntryType == WalkType /\ AddEntry => WalkType'
<1> SUFFICES ASSUME WalkType, AddEntry
             PROVE  WalkType'
  OBVIOUS
<1>1. PICK e \in fresh, i \in 1..(Len(listing) + 1) : InsertedAt(e, i)
  BY AddEntryStep
<1> QED
  BY <1>1 DEF InsertedAt, WalkType

\* What a removal does: the entry is gone, and those behind it move down.
RemovedAt(i) ==
  /\ i \in 1..Len(listing) /\ listing[i] \in Range(listing) /\ listing[i] \in Entries
  /\ listing' \in Seq(Entries) /\ Len(listing') = Len(listing) - 1
  /\ \A j \in 1..(Len(listing) - 1) :
       listing'[j] = IF j < i THEN listing[j] ELSE listing[j + 1]
  /\ IsInjective(listing') /\ Range(listing') = Range(listing) \ {listing[i]}
  /\ UNCHANGED <<fresh, request, more, got, atStart>>

LEMMA RemoveEntryStep ==
  ASSUME WalkType, RemoveEntry
  PROVE  \E i \in 1..Len(listing) : RemovedAt(i)
<1>1. PICK i \in 1..Len(listing) : listing' = RemoveAt(listing, i)
  BY DEF RemoveEntry
<1>2. listing \in Seq(Entries) /\ IsInjective(listing)
  BY DEF WalkType
<1>3. IsInjective(listing') /\ Range(listing') = Range(listing) \ {listing[i]}
  BY <1>1, <1>2, RemoveAtRange
<1>4. listing[i] \in Range(listing) /\ listing[i] \in Entries
  <2>1. DOMAIN listing = 1..Len(listing)
    BY <1>2, LenProperties
  <2> QED
    BY <1>2, <2>1, ElementOfSeq DEF Range
<1>5. /\ RemoveAt(listing, i) \in Seq(Entries)
      /\ Len(RemoveAt(listing, i)) = Len(listing) - 1
      /\ \A j \in 1..(Len(listing) - 1) : RemoveAt(listing, i)[j] =
           IF j < i THEN listing[j] ELSE listing[j + 1]
  BY <1>2, RemoveAtPositions
<1>6. UNCHANGED <<fresh, request, more, got, atStart>>
  BY DEF RemoveEntry
<1>7. RemovedAt(i)
  BY <1>1, <1>3, <1>4, <1>5, <1>6, Zenon DEF RemovedAt
<1> QED
  BY <1>7

LEMMA RemoveEntryType == WalkType /\ RemoveEntry => WalkType'
<1> SUFFICES ASSUME WalkType, RemoveEntry
             PROVE  WalkType'
  OBVIOUS
<1>1. PICK i \in 1..Len(listing) : RemovedAt(i)
  BY RemoveEntryStep
<1> QED
  BY <1>1 DEF RemovedAt, WalkType

\* A walk begins with a listing that has no repetitions, and nothing received.
LEMMA WalkTypeInit == Init => WalkType
<1> SUFFICES ASSUME Init
             PROVE  WalkType
  OBVIOUS
<1>1. PICK S \in SUBSET Entries : listing = SetToSeq(S)
  BY DEF Init
<1>2. IsFiniteSet(S)
  BY PageWalkAssumption, FS_Subset
<1>3. listing \in Seq(S) /\ IsInjective(listing) /\ Range(listing) \subseteq S
  BY <1>1, <1>2, SetToSeqListing
<1>4. listing \in Seq(Entries)
  BY <1>3, SeqMonotonic
<1>5. <<>> \in Seq(Entries) /\ Range(<<>>) = {}
  BY EmptySeq DEF Range
<1>6. request \in [page : 0..(MaxU32 + 1), per_page : PageSizes]
  <2>1. FirstPages \subseteq 0..(MaxU32 + 1)
    BY PageWalkAssumption DEF U32
  <2> QED
    BY <2>1 DEF Init
<1> QED
  BY <1>3, <1>4, <1>5, <1>6 DEF Init, WalkType

LEMMA WalkTypeNext == WalkType /\ [Next]_vars => WalkType'
<1>1. WalkType /\ UNCHANGED vars => WalkType'
  BY DEF WalkType, vars
<1> QED
  BY <1>1, FetchType, AddEntryType, RemoveEntryType DEF Next

\* The bookkeeping of a walk keeps its types, and an entry is listed once at most, whoever
\* adds and removes and whatever the client asks for (PageRequest, PageResponse).
THEOREM WalkTypeCorrect == Spec => []TypeOK
<1>1. WalkType => TypeOK
  <2> SUFFICES ASSUME WalkType
               PROVE  TypeOK
    OBVIOUS
  <2>1. Range(listing) \subseteq Entries /\ Range(got) \subseteq Entries
    BY RangeOfSeq DEF WalkType
  <2> QED
    BY <2>1 DEF WalkType, TypeOK
<1> QED
  BY <1>1, WalkTypeInit, WalkTypeNext, PTL DEF Spec

\* What a request for a page from 1 on, and its answer, do (PageRequest::offset,
\* PageResponse::has_next): the next window begins where this one ends, and has_next()
\* ends the walk no sooner than when nothing is left.
LEMMA FetchStep ==
  ASSUME WalkType, request.page >= 1, Fetch
  PROVE  /\ Asked \in Nat /\ request.per_page \in Nat
         /\ Asked' = Asked + request.per_page /\ Asked' \in Nat
         /\ request'.page >= 1
         /\ got' = got \o Window(listing, Asked, request.per_page)
         /\ Walked' => Len(listing) <= Asked'
         /\ UNCHANGED <<listing, fresh, atStart>>
<1> DEFINE p == request.page
           n == request.per_page
<1>1. /\ p \in U32 /\ got' = got \o Window(listing, Offset(p, n), Limit(n))
      /\ more' = HasNext(p, n, Len(listing))
      /\ request' = [request EXCEPT !.page = @ + 1]
      /\ UNCHANGED <<listing, fresh, atStart>>
  BY DEF Fetch
<1>2. request'.page = p + 1 /\ request'.per_page = n
  BY <1>1 DEF WalkType
<1>3. p \in Nat \ {0} /\ p \in U32 \ {0} /\ n \in U32 /\ n \in Nat /\ Limit(n) = n
  BY <1>1, RequestTypes
<1>4. Asked = (p - 1) * n /\ Asked' = ((p + 1) - 1) * n
  BY <1>2 DEF Asked
<1>5. listing \in Seq(Entries) /\ Len(listing) \in Nat
  BY LenProperties DEF WalkType
<1> HIDE DEF p, n
<1>6. Offset(p, n) = (p - 1) * n
  BY <1>3, OffsetNeverWraps DEF SaturatingSub
<1>7. (p - 1) * n \in Nat /\ p * n = (p - 1) * n + n /\ (p + 1) - 1 = p
  BY <1>3, TimesMonotone, SMT
<1>8. Walked' => Len(listing) <= p * n
  <2> SUFFICES ASSUME Walked'
               PROVE  Len(listing) <= p * n
    OBVIOUS
  <2>1. ~ HasNext(p, n, Len(listing)) /\ n > 0
    BY <1>1, <1>2 DEF Walked, n
  <2>2. TotalPages(Len(listing), n) = DivCeil(Len(listing), n)
    BY <2>1, <1>3 DEF TotalPages
  <2>3. ~ (p < DivCeil(Len(listing), n))
    BY <2>1, <2>2 DEF HasNext
  <2> QED
    BY <1>3, <1>5, <1>7, <2>1, <2>3, DivCeilBounds
<1>9. Asked' = Asked + n /\ Asked \in Nat /\ Asked' \in Nat /\ p + 1 >= 1
  BY <1>3, <1>4, <1>7
<1> QED
  BY <1>1, <1>2, <1>3, <1>4, <1>6, <1>7, <1>8, <1>9 DEF p, n

\* The number of positions asked for is a natural number.
LEMMA AskedType ==
  ASSUME WalkType, request.page >= 1
  PROVE  Asked \in Nat
<1>1. request.page \in Nat /\ request.page - 1 \in Nat
  BY DEF WalkType
<1>2. request.per_page \in Nat
  <2>1. PageSizes \subseteq Nat
    BY PageWalkAssumption DEF U32
  <2> QED
    BY <2>1 DEF WalkType
<1> QED
  BY <1>1, <1>2, TimesMonotone DEF Asked

\* Sets of entries are finite, and compare like numbers.
LEMMA EntrySets ==
  ASSUME NEW U \in SUBSET Entries
  PROVE  /\ IsFiniteSet(U) /\ Cardinality(U) \in Nat
         /\ \A T \in SUBSET U : Cardinality(T) \in Nat /\ Cardinality(T) <= Cardinality(U)
         /\ \A x : x \notin U => Cardinality(U \cup {x}) = Cardinality(U) + 1
         /\ \A x : Cardinality(U \cup {x}) <= Cardinality(U) + 1
<1>1. IsFiniteSet(U) /\ Cardinality(U) \in Nat
  BY PageWalkAssumption, FS_Subset, FS_CardinalityType
<1>2. \A T \in SUBSET U : Cardinality(T) \in Nat /\ Cardinality(T) <= Cardinality(U)
  BY <1>1, FS_Subset, FS_CardinalityType
<1>3. \A x : Cardinality(U \cup {x}) = IF x \in U THEN Cardinality(U) ELSE Cardinality(U) + 1
  BY <1>1, FS_AddElement
<1>4. \A x : x \notin U => Cardinality(U \cup {x}) = Cardinality(U) + 1
  BY <1>3
<1>5. \A x : Cardinality(U \cup {x}) <= Cardinality(U) + 1
  <2> TAKE x
  <2>1. CASE x \in U
    BY <1>1, <1>3, <2>1
  <2>2. CASE x \notin U
    BY <1>1, <1>3, <2>2
  <2> QED
    BY <2>1, <2>2
<1> QED
  BY <1>1, <1>2, <1>4, <1>5

\* One member more is one more to count.
LEMMA OneMore ==
  ASSUME NEW U \in SUBSET Entries, NEW y, NEW T \in SUBSET Entries, T \subseteq U \cup {y}
  PROVE  Cardinality(T) <= Cardinality(U) + 1
<1>1. Cardinality(T) \in Nat /\ Cardinality(U) \in Nat
  BY EntrySets
<1>2. CASE y \in Entries
  <2>1. U \cup {y} \in SUBSET Entries /\ T \in SUBSET (U \cup {y})
    BY <1>2
  <2>2. Cardinality(T) <= Cardinality(U \cup {y}) /\ Cardinality(U \cup {y}) \in Nat
    BY <2>1, EntrySets
  <2>3. Cardinality(U \cup {y}) <= Cardinality(U) + 1
    BY EntrySets
  <2> QED
    BY <1>1, <2>2, <2>3
<1>3. CASE y \notin Entries
  <2>1. T \in SUBSET U
    BY <1>3
  <2>2. Cardinality(T) <= Cardinality(U)
    BY <2>1, EntrySets
  <2> QED
    BY <1>1, <2>2
<1> QED
  BY <1>2, <1>3

\* All that is counted are entries.
LEMMA WalkSets ==
  ASSUME WalkType
  PROVE  /\ Behind \in SUBSET Entries /\ Ahead \in SUBSET Entries
         /\ Added \in SUBSET Entries /\ Removed \in SUBSET Entries
         /\ Range(got) \in SUBSET Entries
<1>1. Range(got) \in SUBSET Entries
  BY RangeOfSeq DEF WalkType
<1>2. Range(atStart) \subseteq Entries
  BY DEF WalkType
<1> QED
  BY <1>1, <1>2 DEF Behind, Ahead, Added, Removed

\* What a window passes over has been received: a request leaves nothing behind.
LEMMA FetchMissed ==
  ASSUME WalkType, request.page >= 1, Fetch, BehindRemoved
  PROVE  BehindRemoved'
<1> DEFINE w == Window(listing, Asked, request.per_page)
<1>1. /\ Asked \in Nat /\ request.per_page \in Nat
      /\ Asked' = Asked + request.per_page /\ Asked' \in Nat
      /\ got' = got \o w
      /\ Walked' => Len(listing) <= Asked'
      /\ UNCHANGED <<listing, fresh, atStart>>
  BY FetchStep
<1>2. listing \in Seq(Entries) /\ IsInjective(listing) /\ got \in Seq(Entries)
  BY DEF WalkType
<1>3. /\ w \in Seq(Entries)
      /\ \A i \in 1..Len(listing) : Asked < i /\ i <= Asked' => listing[i] \in Range(w)
  BY <1>1, <1>2, WindowPositions, WindowRange
<1> HIDE DEF w
<1>4. Range(got') = Range(got) \cup Range(w)
  BY <1>1, <1>2, <1>3, RangeConcatenation
<1>5. Len(listing) \in Nat
  BY <1>2, LenProperties
<1>6. ASSUME NEW x \in Behind'
      PROVE  x \in Behind
  <2>1. x \in Range(atStart) /\ x \notin Range(got) /\ x \notin Range(w)
    BY <1>1, <1>4 DEF Behind
  <2>2. PICK i \in 1..Len(listing) : listing[i] = x /\ (Walked' \/ i <= Asked')
    BY <1>1 DEF Behind
  <2>3. i <= Asked'
    BY <1>1, <1>5, <2>2
  <2>4. i <= Asked
    BY <1>1, <1>3, <2>1, <2>2, <2>3
  <2> QED
    BY <2>1, <2>2, <2>4 DEF Behind
<1>7. Behind' \in SUBSET Behind /\ Removed' = Removed
  BY <1>1, <1>6 DEF Removed
<1>8. Cardinality(Behind') \in Nat /\ Cardinality(Behind') <= Cardinality(Behind)
      /\ Cardinality(Behind) \in Nat /\ Cardinality(Removed) \in Nat
  BY <1>7, WalkSets, EntrySets
<1> QED
  BY <1>7, <1>8 DEF BehindRemoved

\* An addition pushes no entry behind the client.
LEMMA AddMissed ==
  ASSUME WalkType, request.page >= 1, AddEntry, BehindRemoved
  PROVE  BehindRemoved'
<1>1. PICK e \in fresh, i \in 1..(Len(listing) + 1) : InsertedAt(e, i)
  BY AddEntryStep
<1>2. Len(listing) \in Nat
  BY LenProperties DEF WalkType
<1>3. /\ e \in fresh /\ Range(listing') = Range(listing) \cup {e} /\ fresh' = fresh \ {e}
      /\ Len(listing') = Len(listing) + 1
      /\ \A j \in 1..(Len(listing) + 1) :
           listing'[j] = IF j < i THEN listing[j] ELSE IF j = i THEN e ELSE listing[j - 1]
      /\ UNCHANGED <<request, more, got, atStart>>
  BY <1>1 DEF InsertedAt
<1>4. Asked' = Asked /\ Asked \in Nat /\ Walked' = Walked
  BY <1>3, AskedType DEF Asked, Walked
<1>5. ASSUME NEW x \in Behind'
      PROVE  x \in Behind
  <2>1. x \in Range(atStart) /\ x \notin Range(got) /\ x # e
    BY <1>3 DEF Behind, WalkType
  <2>2. PICK j \in 1..(Len(listing) + 1) : listing'[j] = x /\ (Walked \/ j <= Asked)
    BY <1>3, <1>4 DEF Behind
  <2>3. CASE j < i
    <3>1. j \in 1..Len(listing) /\ listing[j] = x
      BY <1>2, <1>3, <2>2, <2>3
    <3> QED
      BY <2>1, <2>2, <3>1 DEF Behind
  <2>4. CASE j > i
    <3>1. j - 1 \in 1..Len(listing) /\ listing[j - 1] = x /\ (Walked \/ j - 1 <= Asked)
      BY <1>2, <1>3, <1>4, <2>2, <2>4
    <3> QED
      BY <2>1, <3>1 DEF Behind
  <2>5. j < i \/ j > i
    BY <1>2, <1>3, <2>1, <2>2
  <2> QED
    BY <2>3, <2>4, <2>5
<1>6. Behind' \in SUBSET Behind /\ Removed' = Removed
  BY <1>3, <1>5 DEF Removed
<1>7. Cardinality(Behind') \in Nat /\ Cardinality(Behind') <= Cardinality(Behind)
      /\ Cardinality(Behind) \in Nat /\ Cardinality(Removed) \in Nat
  BY <1>6, WalkSets, EntrySets
<1> QED
  BY <1>6, <1>7 DEF BehindRemoved

\* A removal lets one entry slip behind the client, the first of the next window, and
\* is itself one removal more.
LEMMA RemoveMissed ==
  ASSUME WalkType, request.page >= 1, RemoveEntry, BehindRemoved
  PROVE  BehindRemoved'
<1>1. PICK i \in 1..Len(listing) : RemovedAt(i)
  BY RemoveEntryStep
<1>2. Len(listing) \in Nat
  BY LenProperties DEF WalkType
<1>3. /\ listing[i] \in Range(listing) /\ listing[i] \in Entries
      /\ Range(listing') = Range(listing) \ {listing[i]}
      /\ Len(listing') = Len(listing) - 1
      /\ \A j \in 1..(Len(listing) - 1) :
           listing'[j] = IF j < i THEN listing[j] ELSE listing[j + 1]
      /\ UNCHANGED <<fresh, request, more, got, atStart>>
  BY <1>1 DEF RemovedAt
<1>4. Asked' = Asked /\ Asked \in Nat /\ Walked' = Walked
  BY <1>3, AskedType DEF Asked, Walked
<1>5. ASSUME NEW x \in Behind'
      PROVE  x \in Behind \cup {listing[Asked + 1]}
  <2>1. x \in Range(atStart) /\ x \notin Range(got)
    BY <1>3 DEF Behind
  <2>2. PICK j \in 1..(Len(listing) - 1) : listing'[j] = x /\ (Walked \/ j <= Asked)
    BY <1>3, <1>4 DEF Behind
  <2>3. CASE j < i
    <3>1. j \in 1..Len(listing) /\ listing[j] = x
      BY <1>2, <1>3, <2>2, <2>3
    <3> QED
      BY <2>1, <2>2, <3>1 DEF Behind
  <2>4. CASE j >= i
    <3>1. j + 1 \in 1..Len(listing) /\ listing[j + 1] = x
      BY <1>2, <1>3, <2>2, <2>4
    <3>2. Walked \/ j + 1 <= Asked \/ j = Asked
      BY <1>2, <1>4, <2>2
    <3> QED
      BY <2>1, <3>1, <3>2 DEF Behind
  <2>5. j < i \/ j >= i
    BY <1>2
  <2> QED
    BY <2>3, <2>4, <2>5
<1>6. /\ Behind' \in SUBSET (Behind \cup {listing[Asked + 1]})
      /\ Removed' = Removed \cup {listing[i]} /\ listing[i] \notin Removed
  BY <1>3, <1>5 DEF Removed, WalkType
<1>7. Behind \in SUBSET Entries /\ Behind' \in SUBSET Entries /\ Removed \in SUBSET Entries
  <2>1. Behind' \subseteq Range(atStart)
    BY <1>3 DEF Behind
  <2> QED
    BY <2>1, WalkSets DEF WalkType
<1>8. Cardinality(Removed') = Cardinality(Removed) + 1
  BY <1>6, <1>7, EntrySets
<1>9. Cardinality(Behind') <= Cardinality(Behind) + 1
  BY <1>6, <1>7, OneMore
<1>10. Cardinality(Behind) \in Nat /\ Cardinality(Removed) \in Nat /\ Cardinality(Behind') \in Nat
  BY <1>7, EntrySets
<1> QED
  BY <1>8, <1>9, <1>10 DEF BehindRemoved

\* What a request brings again was ahead, and is not any more.
LEMMA FetchRepeats ==
  ASSUME WalkType, request.page >= 1, Fetch, AheadAdded
  PROVE  AheadAdded'
<1> DEFINE w == Window(listing, Asked, request.per_page)
           again == Range(w) \cap Range(got)
<1>1. /\ Asked \in Nat /\ request.per_page \in Nat
      /\ Asked' = Asked + request.per_page /\ Asked' \in Nat
      /\ got' = got \o w
      /\ UNCHANGED <<listing, fresh, atStart>>
  BY FetchStep
<1>2. listing \in Seq(Entries) /\ IsInjective(listing) /\ got \in Seq(Entries)
  BY DEF WalkType
<1>3. /\ w \in Seq(Entries) /\ IsInjective(w)
      /\ \A x : x \in Range(w)
                  <=> \E i \in 1..Len(listing) : listing[i] = x /\ Asked < i /\ i <= Asked'
  <2>1. w \in Seq(Entries)
    BY <1>1, <1>2, WindowPositions
  <2>2. /\ IsInjective(w)
        /\ \A x : x \in Range(w)
                    <=> \E i \in 1..Len(listing) :
                          listing[i] = x /\ Asked < i /\ i <= Asked + request.per_page
    <3>1. Asked \in Nat /\ request.per_page \in Nat
      BY <1>1
    <3> QED
      BY <1>2, <3>1, WindowRange
  <2> QED
    BY <1>1, <2>1, <2>2
<1> HIDE DEF w
<1>4. Range(got') = Range(got) \cup Range(w) /\ Len(got') = Len(got) + Len(w)
  BY <1>1, <1>2, <1>3, RangeConcatenation, ConcatProperties
<1>5. Range(w) \in SUBSET Entries /\ Cardinality(Range(w)) = Len(w) /\ IsFiniteSet(Range(w))
  BY <1>3, InjectiveRange, RangeOfSeq
<1>6. Len(listing) \in Nat /\ \A i, j \in 1..Len(listing) : listing[i] = listing[j] => i = j
  BY <1>2, LenProperties DEF IsInjective
<1>7. ASSUME NEW x \in Ahead'
      PROVE  x \in Ahead /\ x \notin Range(w)
  <2>1. PICK i \in 1..Len(listing) : listing[i] = x /\ i > Asked'
    BY <1>1 DEF Ahead
  <2>2. x \notin Range(w)
    <3>1. \A k \in 1..Len(listing) : listing[k] = x => k > Asked'
      BY <1>6, <2>1
    <3>2. \A k \in 1..Len(listing) : ~ (listing[k] = x /\ Asked < k /\ k <= Asked')
      BY <1>1, <1>6, <3>1
    <3> QED
      BY <1>3, <3>2
  <2>3. x \in Range(got)
    BY <1>4, <2>2 DEF Ahead
  <2>4. i > Asked
    BY <1>1, <1>6, <2>1
  <2> QED
    BY <2>1, <2>2, <2>3, <2>4 DEF Ahead
<1>8. again \subseteq Ahead
  BY <1>3 DEF Ahead
<1>9. Ahead' \cup again \in SUBSET Ahead /\ Ahead' \cap again = {}
  BY <1>7, <1>8
<1>10. /\ Ahead \in SUBSET Entries /\ Range(got) \in SUBSET Entries /\ Added \in SUBSET Entries
       /\ Ahead' \in SUBSET Entries /\ again \in SUBSET Entries
  BY <1>9, WalkSets
<1>11. /\ IsFiniteSet(Ahead') /\ IsFiniteSet(again) /\ IsFiniteSet(Range(got))
       /\ Cardinality(Ahead') \in Nat /\ Cardinality(again) \in Nat
       /\ Cardinality(Range(got)) \in Nat /\ Cardinality(Added) \in Nat
       /\ Cardinality(Ahead) \in Nat
       /\ Cardinality(Ahead' \cup again) <= Cardinality(Ahead)
  BY <1>9, <1>10, EntrySets
<1>12. Cardinality(Ahead' \cup again) = Cardinality(Ahead') + Cardinality(again)
  <2>1. Cardinality(Ahead' \cup again)
          = Cardinality(Ahead') + Cardinality(again) - Cardinality(Ahead' \cap again)
    BY <1>11, FS_Union
  <2>2. Cardinality(Ahead' \cap again) = 0
    BY <1>9, FS_EmptySet
  <2> QED
    BY <1>11, <2>1, <2>2
<1>13. Cardinality(Range(got'))
         = Cardinality(Range(got)) + Len(w) - Cardinality(again)
  <2>1. Range(got) \cap Range(w) = again
    OBVIOUS
  <2> QED
    BY <1>4, <1>5, <1>11, <2>1, FS_Union
<1>14. Added' = Added
  BY <1>1 DEF Added
<1>15. Len(got) \in Nat /\ Len(w) \in Nat
  BY <1>2, <1>3, LenProperties
<1> HIDE DEF again
<1> QED
  BY <1>4, <1>11, <1>12, <1>13, <1>14, <1>15 DEF AheadAdded

\* An addition pushes one received entry ahead of the client, the last of the previous
\* window, and is itself one addition more.
LEMMA AddRepeats ==
  ASSUME WalkType, request.page >= 1, AddEntry, AheadAdded
  PROVE  AheadAdded'
<1>1. PICK e \in fresh, i \in 1..(Len(listing) + 1) : InsertedAt(e, i)
  BY AddEntryStep
<1>2. Len(listing) \in Nat
  BY LenProperties DEF WalkType
<1>3. /\ e \in fresh /\ e \in Entries /\ fresh' = fresh \ {e}
      /\ Len(listing') = Len(listing) + 1
      /\ \A j \in 1..(Len(listing) + 1) :
           listing'[j] = IF j < i THEN listing[j] ELSE IF j = i THEN e ELSE listing[j - 1]
      /\ UNCHANGED <<request, more, got, atStart>>
  BY <1>1 DEF InsertedAt
<1>4. Asked' = Asked /\ Asked \in Nat
  BY <1>3, AskedType DEF Asked
<1> DEFINE y == listing[Asked]
<1>5. ASSUME NEW x \in Ahead'
      PROVE  x \in Ahead \cup {y}
  <2>1. x \in Range(got) /\ x # e
    BY <1>3 DEF Ahead, WalkType
  <2>2. PICK j \in 1..(Len(listing) + 1) : listing'[j] = x /\ j > Asked
    BY <1>3, <1>4 DEF Ahead
  <2>3. CASE j < i
    <3>1. j \in 1..Len(listing) /\ listing[j] = x
      BY <1>2, <1>3, <2>2, <2>3
    <3> QED
      BY <2>1, <2>2, <3>1 DEF Ahead
  <2>4. CASE j > i
    <3>1. j - 1 \in 1..Len(listing) /\ listing[j - 1] = x
      BY <1>2, <1>3, <2>2, <2>4
    <3>2. j - 1 > Asked \/ j - 1 = Asked
      BY <1>2, <1>4, <2>2
    <3> QED
      BY <2>1, <3>1, <3>2 DEF Ahead
  <2>5. j < i \/ j > i
    BY <1>2, <1>3, <2>1, <2>2
  <2> QED
    BY <2>3, <2>4, <2>5
<1> HIDE DEF y
<1>6. Ahead' \in SUBSET (Ahead \cup {y})
  BY <1>5
<1>7. Added' = Added \cup {e} /\ e \notin Added
  BY <1>3 DEF Added, WalkType
<1>8. /\ Ahead \in SUBSET Entries /\ Ahead' \in SUBSET Entries /\ Added \in SUBSET Entries
      /\ Range(got) \in SUBSET Entries
  <2>1. Ahead' \subseteq Range(got)
    BY <1>3 DEF Ahead
  <2> QED
    BY <2>1, WalkSets
<1>9. Cardinality(Ahead') <= Cardinality(Ahead) + 1
  BY <1>6, <1>8, OneMore
<1>10. /\ Cardinality(Ahead) \in Nat /\ Cardinality(Ahead') \in Nat
       /\ Cardinality(Added) \in Nat /\ Cardinality(Added') = Cardinality(Added) + 1
       /\ Cardinality(Range(got)) \in Nat
  BY <1>7, <1>8, EntrySets
<1>11. Len(got) \in Nat /\ got' = got
  BY <1>3, LenProperties DEF WalkType
<1> QED
  BY <1>9, <1>10, <1>11 DEF AheadAdded

\* A removal pushes no received entry ahead of the client.
LEMMA RemoveRepeats ==
  ASSUME WalkType, request.page >= 1, RemoveEntry, AheadAdded
  PROVE  AheadAdded'
<1>1. PICK i \in 1..Len(listing) : RemovedAt(i)
  BY RemoveEntryStep
<1>2. Len(listing) \in Nat
  BY LenProperties DEF WalkType
<1>3. /\ Len(listing') = Len(listing) - 1
      /\ \A j \in 1..(Len(listing) - 1) :
           listing'[j] = IF j < i THEN listing[j] ELSE listing[j + 1]
      /\ UNCHANGED <<fresh, request, more, got, atStart>>
  BY <1>1 DEF RemovedAt
<1>4. Asked' = Asked /\ Asked \in Nat
  BY <1>3, AskedType DEF Asked
<1>5. ASSUME NEW x \in Ahead'
      PROVE  x \in Ahead
  <2>1. x \in Range(got)
    BY <1>3 DEF Ahead
  <2>2. PICK j \in 1..(Len(listing) - 1) : listing'[j] = x /\ j > Asked
    BY <1>3, <1>4 DEF Ahead
  <2>3. CASE j < i
    <3>1. j \in 1..Len(listing) /\ listing[j] = x
      BY <1>2, <1>3, <2>2, <2>3
    <3> QED
      BY <2>1, <2>2, <3>1 DEF Ahead
  <2>4. CASE j >= i
    <3>1. j + 1 \in 1..Len(listing) /\ listing[j + 1] = x /\ j + 1 > Asked
      BY <1>2, <1>3, <1>4, <2>2, <2>4
    <3> QED
      BY <2>1, <3>1 DEF Ahead
  <2>5. j < i \/ j >= i
    BY <1>2
  <2> QED
    BY <2>3, <2>4, <2>5
<1>6. Ahead' \in SUBSET Ahead /\ Added' = Added /\ got' = got
  BY <1>3, <1>5 DEF Added
<1>7. /\ Cardinality(Ahead) \in Nat /\ Cardinality(Ahead') \in Nat
      /\ Cardinality(Ahead') <= Cardinality(Ahead)
      /\ Cardinality(Range(got)) \in Nat /\ Cardinality(Added) \in Nat
  BY <1>6, WalkSets, EntrySets
<1>8. Len(got) \in Nat
  BY LenProperties DEF WalkType
<1> QED
  BY <1>6, <1>7, <1>8 DEF AheadAdded

\* Two windows of which one begins where the other ends are one window.
LEMMA WindowsJoin ==
  ASSUME NEW S, NEW s \in Seq(S), NEW o \in Nat, NEW l \in Nat
  PROVE  Window(s, 0, o) \o Window(s, o, l) = Window(s, 0, o + l)
<1> DEFINE a == Window(s, 0, o)
           b == Window(s, o, l)
           c == Window(s, 0, o + l)
           n == Len(s)
<1>1. n \in Nat
  BY LenProperties
<1>2. /\ a \in Seq(S) /\ Len(a) = (IF o <= n THEN o ELSE n)
      /\ \A j \in 1..Len(a) : a[j] = s[j]
  <2>1. a \in Seq(S) /\ Len(a) = Cut(s, o) /\ \A j \in 1..Cut(s, o) : a[j] = s[j]
    BY FirstWindow
  <2> QED
    BY <2>1 DEF Cut
<1>3. /\ b \in Seq(S) /\ Len(b) = (IF o + l <= n THEN l ELSE IF o <= n THEN n - o ELSE 0)
      /\ \A j \in 1..Len(b) : b[j] = s[o + j]
  <2> DEFINE m == Cut(s, o + l)
  <2>1. /\ b \in Seq(S) /\ Len(b) = (IF o < m THEN m - o ELSE 0)
        /\ \A j \in 1..(m - o) : b[j] = s[o + j]
    BY WindowPositions
  <2>2. m = IF o + l <= n THEN o + l ELSE n
    BY DEF Cut
  <2> HIDE DEF m, b, n
  <2>3. Len(b) = (IF o + l <= n THEN l ELSE IF o <= n THEN n - o ELSE 0)
    BY <1>1, <2>1, <2>2
  <2>4. \A j \in 1..Len(b) : j \in 1..(m - o)
    BY <1>1, <2>1, <2>2
  <2> QED
    BY <2>1, <2>3, <2>4
<1>4. /\ c \in Seq(S) /\ Len(c) = (IF o + l <= n THEN o + l ELSE n)
      /\ \A j \in 1..Len(c) : c[j] = s[j]
  <2>1. o + l \in Nat
    OBVIOUS
  <2>2. c \in Seq(S) /\ Len(c) = Cut(s, o + l) /\ \A j \in 1..Cut(s, o + l) : c[j] = s[j]
    BY <2>1, FirstWindow
  <2> QED
    BY <2>2 DEF Cut
<1> HIDE DEF a, b, c, n
<1>5. /\ a \o b \in Seq(S) /\ Len(a \o b) = Len(a) + Len(b)
      /\ \A j \in 1..(Len(a) + Len(b)) :
           (a \o b)[j] = IF j <= Len(a) THEN a[j] ELSE b[j - Len(a)]
  BY <1>2, <1>3, ConcatProperties
<1>6. Len(a) + Len(b) = Len(c) /\ Len(a) \in Nat /\ Len(b) \in Nat /\ (Len(b) > 0 => Len(a) = o)
  BY <1>1, <1>2, <1>3, <1>4
<1>7. ASSUME NEW j \in 1..Len(c)
      PROVE  (a \o b)[j] = c[j]
  <2>1. CASE j <= Len(a)
    <3>1. j \in 1..Len(a)
      BY <1>6, <2>1
    <3> QED
      BY <1>2, <1>4, <1>5, <1>6, <2>1, <3>1
  <2>2. CASE j > Len(a)
    <3>1. j - Len(a) \in 1..Len(b) /\ Len(a) = o /\ o + (j - Len(a)) = j /\ ~ (j <= Len(a))
      BY <1>6, <2>2
    <3>2. (a \o b)[j] = b[j - Len(a)]
      BY <1>5, <1>6, <3>1
    <3> QED
      BY <1>3, <1>4, <3>1, <3>2
  <2>3. j <= Len(a) \/ j > Len(a)
    BY <1>6
  <2> QED
    BY <2>1, <2>2, <2>3
<1>8. a \o b = c
  BY <1>4, <1>5, <1>6, <1>7, SeqEqual
<1> QED
  BY <1>8 DEF a, b, c

\* Windows of an untouched listing add up to its beginning.
LEMMA FetchUntouched ==
  ASSUME WalkType, request.page >= 1, Fetch, Untouched
  PROVE  Untouched'
<1>1. /\ Asked \in Nat /\ request.per_page \in Nat /\ Asked' = Asked + request.per_page
      /\ got' = got \o Window(listing, Asked, request.per_page)
      /\ Walked' => Len(listing) <= Asked'
      /\ UNCHANGED <<listing, fresh, atStart>>
  BY FetchStep
<1>2. Window(listing, 0, Asked) \o Window(listing, Asked, request.per_page)
        = Window(listing, 0, Asked')
  BY <1>1, WindowsJoin DEF WalkType
<1>3. Added' = Added /\ Removed' = Removed /\ Window(listing, 0, Asked)' = Window(listing, 0, Asked')
  BY <1>1 DEF Added, Removed, Window
<1> QED
  BY <1>1, <1>2, <1>3 DEF Untouched

\* An addition or a removal is seen for ever.
LEMMA TouchSeen ==
  ASSUME WalkType, AddEntry \/ RemoveEntry
  PROVE  Untouched'
<1>1. CASE AddEntry
  <2>1. PICK e \in fresh, i \in 1..(Len(listing) + 1) : InsertedAt(e, i)
    BY <1>1, AddEntryStep
  <2>2. e \in Added'
    BY <2>1 DEF InsertedAt, Added, WalkType
  <2> QED
    BY <2>2 DEF Untouched
<1>2. CASE RemoveEntry
  <2>1. PICK i \in 1..Len(listing) : RemovedAt(i)
    BY <1>2, RemoveEntryStep
  <2>2. listing[i] \in Removed'
    BY <2>1 DEF RemovedAt, Removed, WalkType
  <2> QED
    BY <2>2 DEF Untouched
<1> QED
  BY <1>1, <1>2

-------------------------------------------------------------------------------
(* The walk as a whole.                                                    *)

\* A client that begins with page 1 has asked for nothing yet.
LEMMA WalkInvInit ==
  ASSUME FirstPages = {1}, Init
  PROVE  WalkInv
<1>1. WalkType
  BY WalkTypeInit
<1>2. request.page = 1 /\ request.per_page \in Nat
  <2>1. PageSizes \subseteq Nat
    BY PageWalkAssumption DEF U32
  <2> QED
    BY <2>1 DEF Init
<1>3. Asked = 0
  BY <1>2, SMT DEF Asked
<1>4. got = <<>> /\ Range(got) = {} /\ Len(got) = 0 /\ ~ Walked
  BY DEF Init, Range, Walked
<1>5. Behind = {} /\ Ahead = {}
  BY <1>3, <1>4, SMT DEF Behind, Ahead
<1>6. Cardinality({}) = 0 /\ Cardinality(Removed) \in Nat /\ Cardinality(Added) \in Nat
  BY <1>1, WalkSets, EntrySets, FS_EmptySet
<1>7. Window(listing, 0, Asked) = <<>>
  <2>1. listing \in Seq(Entries) /\ Len(listing) \in Nat
    BY <1>1, LenProperties DEF WalkType
  <2>2. Window(listing, 0, Asked) \in Seq(Entries) /\ Len(Window(listing, 0, Asked)) = Cut(listing, Asked)
    BY <1>3, <2>1, FirstWindow
  <2>3. Len(Window(listing, 0, Asked)) = 0
    BY <1>3, <2>1, <2>2 DEF Cut
  <2> QED
    BY <2>2, <2>3, EmptySeq
<1>8. Untouched
  BY <1>4, <1>7 DEF Untouched
<1>9. BehindRemoved
  BY <1>5, <1>6 DEF BehindRemoved
<1>10. AheadAdded
  <2>1. Cardinality(Ahead) = 0 /\ Cardinality(Range(got)) = 0 /\ Len(got) = 0
    BY <1>4, <1>5, <1>6, Zenon
  <2> QED
    BY <1>6, <2>1 DEF AheadAdded
<1>11. request.page >= 1
  BY <1>2
<1> QED
  BY <1>1, <1>8, <1>9, <1>10, <1>11, Zenon DEF WalkInv

LEMMA WalkInvNext == WalkInv /\ [Next]_vars => WalkInv'
<1> SUFFICES ASSUME WalkInv, [Next]_vars
             PROVE  WalkInv'
  OBVIOUS
<1>1. WalkType /\ request.page >= 1 /\ BehindRemoved /\ AheadAdded /\ Untouched
  BY DEF WalkInv
<1>2. WalkType'
  BY <1>1, WalkTypeNext
<1>3. CASE Fetch
  <2>1. request'.page >= 1
    BY <1>1, <1>3, FetchStep
  <2>2. BehindRemoved' /\ AheadAdded' /\ Untouched'
    BY <1>1, <1>3, FetchMissed, FetchRepeats, FetchUntouched
  <2> QED
    BY <1>2, <2>1, <2>2 DEF WalkInv
<1>4. CASE AddEntry
  <2>1. request' = request
    BY <1>4 DEF AddEntry
  <2>2. BehindRemoved' /\ AheadAdded' /\ Untouched'
    BY <1>1, <1>4, AddMissed, AddRepeats, TouchSeen
  <2> QED
    BY <1>1, <1>2, <2>1, <2>2 DEF WalkInv
<1>5. CASE RemoveEntry
  <2>1. request' = request
    BY <1>5 DEF RemoveEntry
  <2>2. BehindRemoved' /\ AheadAdded' /\ Untouched'
    BY <1>1, <1>5, RemoveMissed, RemoveRepeats, TouchSeen
  <2> QED
    BY <1>1, <1>2, <2>1, <2>2 DEF WalkInv
<1>6. CASE UNCHANGED vars
  BY <1>6 DEF WalkInv, vars, WalkType, BehindRemoved, AheadAdded, Untouched,
              Behind, Ahead, Added, Removed, Walked, Asked, Window
<1> QED
  BY <1>3, <1>4, <1>5, <1>6 DEF Next

LEMMA WalkInvAlways ==
  ASSUME FirstPages = {1}
  PROVE  Spec => []WalkInv
<1>1. Init => WalkInv
  BY WalkInvInit
<1> QED
  BY <1>1, WalkInvNext, PTL DEF Spec

\* A client that begins with page 1 and follows has_next() to the end has missed, of the
\* entries that were there all along, no more than were removed meanwhile, whatever the
\* size of the listing and of the pages (PageRequest::offset, PageResponse::has_next).
THEOREM MissedAreRemoved ==
  ASSUME FirstPages = {1}
  PROVE  Spec => []MissedAtMostRemoved
<1>1. WalkInv => MissedAtMostRemoved
  <2> SUFFICES ASSUME WalkInv, Walked
               PROVE  Cardinality((Range(atStart) \cap Range(listing)) \ Range(got))
                        <= Cardinality(Removed)
    BY DEF MissedAtMostRemoved
  <2> DEFINE M == (Range(atStart) \cap Range(listing)) \ Range(got)
  <2>1. DOMAIN listing = 1..Len(listing)
    BY LenProperties DEF WalkInv, WalkType
  <2>2. M \in SUBSET Behind
    BY <2>1 DEF Behind, Range
  <2>3. /\ Cardinality(M) <= Cardinality(Behind) /\ Cardinality(M) \in Nat
        /\ Cardinality(Behind) \in Nat /\ Cardinality(Removed) \in Nat
    BY <2>2, WalkSets, EntrySets DEF WalkInv
  <2>4. Cardinality(Behind) <= Cardinality(Removed)
    BY DEF WalkInv, BehindRemoved
  <2> QED
    BY <2>3, <2>4
<1> QED
  BY <1>1, WalkInvAlways, PTL

\* Such a client receives an entry again no more often than entries were added meanwhile:
\* the windows of offset() and limit() do not overlap.
THEOREM RepeatsAreAdded ==
  ASSUME FirstPages = {1}
  PROVE  Spec => []RepeatsAtMostAdded
<1>1. WalkInv => RepeatsAtMostAdded
  <2> SUFFICES ASSUME WalkInv
               PROVE  RepeatsAtMostAdded
    OBVIOUS
  <2>1. /\ Cardinality(Ahead) \in Nat /\ Cardinality(Added) \in Nat
        /\ Cardinality(Range(got)) \in Nat
    BY WalkSets, EntrySets DEF WalkInv
  <2>2. Len(got) \in Nat
    BY LenProperties DEF WalkInv, WalkType
  <2> QED
    BY <2>1, <2>2 DEF WalkInv, AheadAdded, RepeatsAtMostAdded
<1> QED
  BY <1>1, WalkInvAlways, PTL

\* While nobody touches the listing, such a client holds a prefix of it, in its order, and
\* all of it when has_next() ends the walk.
THEOREM QuietWalkIsFaithful ==
  ASSUME FirstPages = {1}
  PROVE  Spec => []FaithfulWhileQuiet
<1>1. WalkInv => FaithfulWhileQuiet
  <2> SUFFICES ASSUME WalkInv, Added = {}, Removed = {}
               PROVE  IsPrefix(got, listing) /\ (Walked => got = listing)
    BY DEF FaithfulWhileQuiet
  <2>1. listing \in Seq(Entries) /\ got \in Seq(Entries) /\ Len(listing) \in Nat
    BY LenProperties DEF WalkInv, WalkType
  <2>2. Asked \in Nat
    BY AskedType DEF WalkInv
  <2>3. got = Window(listing, 0, Asked) /\ (Walked => Len(listing) <= Asked)
    BY DEF WalkInv, Untouched
  <2>4. got = SubSeq(listing, 1, Cut(listing, Asked)) /\ Len(got) = Cut(listing, Asked)
    BY <2>1, <2>2, <2>3, FirstWindow
  <2>5. SubSeq(got, 1, Len(got)) = got /\ SubSeq(listing, 1, Len(listing)) = listing
    BY <2>1, SubSeqFull
  <2>6. Len(got) <= Len(listing)
    BY <2>1, <2>2, <2>4 DEF Cut
  <2>7. SubSeq(got, 1, Len(got)) = SubSeq(listing, 1, Len(got))
    BY <2>4, <2>5
  <2>8. Walked => Cut(listing, Asked) = Len(listing)
    BY <2>1, <2>2, <2>3 DEF Cut
  <2>9. Walked => got = listing
    BY <2>4, <2>5, <2>8
  <2> QED
    BY <2>6, <2>7, <2>9 DEF IsPrefix
<1> QED
  BY <1>1, WalkInvAlways, PTL

\* What has_next() promises, "Return `true` if there is a next page" (types.rs), it keeps
\* to a client that begins with page 1: when it says so, the listing goes on.  Only page 0,
\* which the code accepts too, is announced a page that is not there.
THEOREM NextPageIsThere ==
  ASSUME FirstPages = {1}
  PROVE  Spec => NextPageExists
<1> DEFINE Announced == Offset(request.page, request.per_page) + Limit(request.per_page)
                          < Len(listing)
<1>1. ASSUME WalkInv, Next, request' # request, more'
      PROVE  Announced
  <2> DEFINE p == request.page
             n == request.per_page
  <2>1. Fetch
    BY <1>1 DEF Next, AddEntry, RemoveEntry
  <2>2. p \in U32 /\ HasNext(p, n, Len(listing))
    BY <1>1, <2>1 DEF Fetch
  <2>3. p \in U32 \ {0} /\ p \in Nat /\ n \in U32 /\ n \in Nat /\ Limit(n) = n
    BY <1>1, <2>2, RequestTypes DEF WalkInv, U32
  <2>4. Len(listing) \in Nat
    BY <1>1, LenProperties DEF WalkInv, WalkType
  <2> HIDE DEF p, n
  <2>5. n # 0 /\ p < DivCeil(Len(listing), n)
    BY <2>2, <2>3 DEF HasNext, TotalPages
  <2>6. p * n < Len(listing)
    BY <2>3, <2>4, <2>5, DivCeilBounds
  <2>7. Offset(p, n) = (p - 1) * n
    BY <2>3, OffsetNeverWraps DEF SaturatingSub, U32
  <2>8. (p - 1) * n + n = p * n
    BY <2>3, SMT
  <2> QED
    BY <2>3, <2>6, <2>7, <2>8 DEF p, n
<1>2. WalkInv /\ [Next]_vars => (request' # request /\ more' => Announced) \/ UNCHANGED vars
  BY <1>1
<1>3. UNCHANGED vars => request' = request
  BY DEF vars
<1>4. WalkInv /\ [Next]_vars => [request' # request /\ more' => Announced]_vars
  BY <1>2, <1>3
<1> QED
  BY <1>4, WalkInvAlways, PTL DEF Spec, NextPageExists
===============================================================================
