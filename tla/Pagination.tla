------------------------------ MODULE Pagination ------------------------------
(***************************************************************************)
(* Pages of a list that may change between one page and the next           *)
(* (packages/federation/src/pagination.ts).  A cursor is the key of the    *)
(* last item delivered; an item is <<key, id>>, its id telling apart those *)
(* of one key.                                                             *)
(***************************************************************************)
EXTENDS Naming

NoCursor == <<>>   \* the first page is asked for, or the last was delivered

Earlier(i, j) == Before(i[1], j[1]) \/ (i[1] = j[1] /\ i[2] < j[2])

After(items, cursor) == {i \in items : cursor = NoCursor \/ Before(cursor, i[1])}
FirstOf(items, size) == {i \in items : Cardinality({j \in items : Earlier(j, i)}) < size}

\* Mutant: the cursor names the first item of the next page, and is passed over.
PaginateSkipping(items, cursor, size) ==
  LET rest == After(items, cursor)
      page == FirstOf(rest, size)
  IN [items |-> page,
      next |-> IF page = rest THEN NoCursor
               ELSE (CHOOSE i \in rest \ page : FirstOf(rest \ page, 1) = {i})[1]]

\* The items after the cursor, cut at the size of a page.
Paginate(items, cursor, size) ==
  LET rest == After(items, cursor)
      page == FirstOf(rest, size)
      last == CHOOSE i \in page : \A j \in page : ~Earlier(i, j)
  IN [items |-> page,
      next |-> IF page = rest THEN NoCursor ELSE last[1]]

=============================================================================
