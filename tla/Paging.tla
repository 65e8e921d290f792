------------------------------- MODULE Paging -------------------------------
(***************************************************************************)
(* The pages that list_projects and list_notifications answer with.  A     *)
(* listing is a set of rows by creation time, newest first; ids stand for  *)
(* the times, which are distinct.  A page is a SELECT with OFFSET and      *)
(* LIMIT, its frame is worked out from a COUNT, a statement of its own.    *)
(* list_tasks does the same, by due date first, so that it may have ties.  *)
(***************************************************************************)
EXTENDS Naturals, FiniteSets

(* How many rows of S come before n.                                       *)
Rank(S, n) == Cardinality({m \in S : m > n})

(* Mutant: OFFSET is page * page_size.                                     *)
PageSkippingOne(S, page, size) ==
    {n \in S : page * size <= Rank(S, n) /\ Rank(S, n) < (page + 1) * size}

(* Mutant: LIMIT is page_size + 1.                                         *)
PageOverlapping(S, page, size) ==
    {n \in S : (page - 1) * size <= Rank(S, n) /\ Rank(S, n) <= page * size}

PageOf(S, page, size) ==
    {n \in S : (page - 1) * size <= Rank(S, n) /\ Rank(S, n) < page * size}

(* math.ceil(total / page_size), 0 for an empty listing.                   *)
TotalPages(total, size) == (total + size - 1) \div size

HasNext(total, page, size) == page < TotalPages(total, size)
=============================================================================
