-------------------------------- MODULE PageWalk --------------------------------
(***************************************************************************)
(* A client walks a directory listing page by page while other users add   *)
(* and remove entries: VfsService::list_children with the PageRequest and  *)
(* PageResponse of types.rs.                                               *)
(*                                                                         *)
(* A page is named by its number, not by what it starts after, so between  *)
(* two requests the entries move under the window.  The listing service is *)
(* external: it answers a request from one state of the listing, with the  *)
(* window that OFFSET and LIMIT cut out and the total of that moment.      *)
(***************************************************************************)
EXTENDS Paging, SequencesExt

CONSTANTS
  Entries,      \* the entries that are ever listed
  Changes,      \* what other users do meanwhile: "insert", "remove"
  FirstPages,   \* the page numbers clients begin with
  PageSizes     \* the page sizes clients ask for

ASSUME PageWalkAssumption ==
  /\ IsFiniteSet(Entries)
  /\ Changes \subseteq {"insert", "remove"}
  /\ FirstPages \subseteq U32 /\ PageSizes \subseteq U32

VARIABLES
  listing,   \* the children of the directory, in the service's order
  fresh,     \* the entries that have not been listed yet
  request,   \* the client's next PageRequest
  more,      \* what has_next() said of the last PageResponse; TRUE before the first
  got,       \* the entries the client has received, in order
  atStart    \* history: the listing when the walk began

vars == <<listing, fresh, request, more, got, atStart>>

(***************************************************************************)
(* What the service's query returns for an offset and a limit.             *)
(***************************************************************************)
Window(s, offset, limit) == SubSeq(s, offset + 1, Min({offset + limit, Len(s)}))

Init ==
  /\ \E S \in SUBSET Entries : listing = SetToSeq(S)
  /\ fresh = Entries \ Range(listing)
  /\ request \in [page : FirstPages, per_page : PageSizes]
  /\ more = TRUE
  /\ got = <<>>
  /\ atStart = listing

\* Slip: the client counts on past the last page number.
FetchPastU32 ==
  /\ more
  /\ got' = got \o Window(listing, Offset(request.page, request.per_page),
                          Limit(request.per_page))
  /\ more' = HasNext(request.page, request.per_page, Len(listing))
  /\ request' = [request EXCEPT !.page = @ + 1]
  /\ UNCHANGED <<listing, fresh, atStart>>

(***************************************************************************)
(* One request and its answer.  has_next() of the answer decides whether   *)
(* the client asks again; it cannot when u32 has no further page number.   *)
(***************************************************************************)
Fetch ==
  /\ more /\ request.page \in U32
  /\ got' = got \o Window(listing, Offset(request.page, request.per_page),
                          Limit(request.per_page))
  /\ more' = HasNext(request.page, request.per_page, Len(listing))
  /\ request' = [request EXCEPT !.page = @ + 1]
  /\ UNCHANGED <<listing, fresh, atStart>>

\* Entries differ only in their places, so which of the fresh ones is added is all the same.
AddEntry ==
  /\ "insert" \in Changes /\ fresh # {}
  /\ LET e == CHOOSE e \in fresh : TRUE
     IN  /\ \E i \in 1..(Len(listing) + 1) : listing' = InsertAt(listing, i, e)
         /\ fresh' = fresh \ {e}
  /\ UNCHANGED <<request, more, got, atStart>>

RemoveEntry ==
  /\ "remove" \in Changes
  /\ \E i \in 1..Len(listing) : listing' = RemoveAt(listing, i)
  /\ UNCHANGED <<fresh, request, more, got, atStart>>

Next == Fetch \/ AddEntry \/ RemoveEntry

\* The client keeps asking; nobody is obliged to change the listing.
Spec == Init /\ [][Next]_vars /\ WF_vars(Fetch)

-------------------------------------------------------------------------------
(* Properties. *)

Added == Entries \ (fresh \cup Range(atStart))
Removed == Entries \ (fresh \cup Range(listing))

\* The walk is over and the client has asked for pages that hold something.
Walked == ~ more /\ request.per_page > 0

(* The walk's bookkeeping keeps its types, and an entry is listed at most   *)
(* once (PageRequest, PageResponse).                                        *)
TypeOK ==
  /\ IsInjective(listing) /\ Range(listing) \subseteq Entries \ fresh
  /\ request \in [page : 0..(MaxU32 + 1), per_page : PageSizes]
  /\ more \in BOOLEAN
  /\ Range(got) \subseteq Entries \ fresh

(* A client that follows has_next() to the end has missed, of the entries   *)
(* that were there all along, no more than have been removed meanwhile: the *)
(* windows of offset() and limit() leave no gap, and has_next() never stops *)
(* the client early.                                                        *)
MissedAtMostRemoved ==
  Walked => Cardinality((Range(atStart) \cap Range(listing)) \ Range(got))
              <= Cardinality(Removed)

(* A client receives entries again no more often than entries were added    *)
(* meanwhile: the windows of offset() and limit() do not overlap.           *)
RepeatsAtMostAdded ==
  Len(got) - Cardinality(Range(got)) <= Cardinality(Added)

(* While nobody touches the listing, the client holds a prefix of it, in    *)
(* its order, and all of it when has_next() ends the walk.                  *)
FaithfulWhileQuiet ==
  Added = {} /\ Removed = {} => IsPrefix(got, listing) /\ (Walked => got = listing)

(* Once entries are no longer added, has_next() says FALSE one day and the  *)
(* client stops asking, unless the listing once had more pages than u32 has *)
(* numbers for them.                                                        *)
WalkEnds ==
  <>[][~ AddEntry]_vars
    => <>(~ more \/ TotalPages(Len(listing), request.per_page) > MaxU32)

(* What types.rs says of has_next(), "Return `true` if there is a next      *)
(* page": when it does, the listing goes on beyond the page just returned.  *)
NextPageExists ==
  [][request' # request /\ more' =>
       Offset(request.page, request.per_page) + Limit(request.per_page) < Len(listing)]_vars
===============================================================================
