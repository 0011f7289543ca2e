--------------------------------- MODULE Paging ---------------------------------
(***************************************************************************)
(* The arithmetic of pagination: PageRequest and PageResponse (types.rs).  *)
(*                                                                         *)
(* Page numbers and page sizes are u32, totals and offsets are u64; the    *)
(* product that gives an offset is computed in u64 and would wrap there.   *)
(***************************************************************************)
EXTENDS Integers

CONSTANT MaxU32    \* u32::MAX; TLC gives it a small value

ASSUME PagingAssumption == MaxU32 \in Nat \ {0}

U32 == 0..MaxU32
U64 == 0..((MaxU32 + 1) * (MaxU32 + 1) - 1)

Wrap64(n) == n % ((MaxU32 + 1) * (MaxU32 + 1))

SaturatingSub(a, b) == IF a >= b THEN a - b ELSE 0

DivCeil(a, b) == (a \div b) + (IF a % b = 0 THEN 0 ELSE 1)

(* PageRequest *)

\* Slip: page numbers taken to count from 0.
OffsetZeroBased(page, per_page) == Wrap64(page * per_page)

Offset(page, per_page) == Wrap64(SaturatingSub(page, 1) * per_page)

\* Slip: one row more than asked for, to see whether another page follows.
LimitLookahead(per_page) == per_page + 1

Limit(per_page) == per_page

(* PageResponse *)

\* Slip: the last, partial page is not counted.
TotalPagesFloor(total, per_page) == IF per_page = 0 THEN 0 ELSE total \div per_page

TotalPages(total, per_page) ==
  IF per_page = 0 THEN 0 ELSE DivCeil(total, per_page)

\* Slip: asks whether there is more than one page, not whether one follows this one.
HasNextIgnoringPage(page, per_page, total) == total > per_page

HasNext(page, per_page, total) == page < TotalPages(total, per_page)
===============================================================================
