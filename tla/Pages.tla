-------------------------------- MODULE Pages --------------------------------
(***************************************************************************)
(* The lists of the API, page after page.  A list is a query with a limit: *)
(* a page has the rows from an item on, in the order of the items, and     *)
(* tells how many are left.  The client asks for the next page with the    *)
(* item behind the last one it has; rows may have come or gone meanwhile.  *)
(***************************************************************************)
EXTENDS Integers, Sequences, SequencesExt, FiniteSetsExt

\* the defaults of Pagination, with the highest limit; from 0 is no item
AllItems == [asc |-> TRUE, from |-> 0, limit |-> 2049]

\* of the rows, each with its item
Page(rows, p) ==
  LET all  == SelectSeq(IF p.asc THEN rows ELSE Reverse(rows),
                        LAMBDA r : \/ p.from = 0
                                   \/ p.asc /\ r.item >= p.from
                                   \/ ~p.asc /\ r.item <= p.from)
      some == SubSeq(all, 1, Min({p.limit, Len(all)}))
  IN  [items |-> some, pending |-> Len(all) - Len(some)]

\* the rows that a condition takes, with their places as items
Items(rows, Where(_)) ==
  SelectSeq([i \in DOMAIN rows |-> [item |-> i, row |-> rows[i]]], LAMBDA x : Where(x.row))

Rows(items) == [i \in DOMAIN items |-> items[i].row]

\* a client that follows the pages from the first one
Walk(Ask(_), asc, limit, steps) ==
  LET Follow(w, n) ==
        IF w.done THEN w
        ELSE LET page == Ask([asc |-> asc, from |-> w.from, limit |-> limit])
             IN  [got  |-> w.got \o page.items,
                  done |-> page.pending = 0,
                  from |-> IF page.items = <<>> THEN w.from
                           ELSE Last(page.items).item + IF asc THEN 1 ELSE -1]
  IN  FoldLeft(Follow, [got |-> <<>>, done |-> FALSE, from |-> 0], [n \in 1..steps |-> n]).got

\* one side of a transfer or the other, else both that are asked for
Sides(from, to, null, either, qFrom, qTo) ==
  IF either # null THEN either \in {from, to}
                   ELSE qFrom \in {null, from} /\ qTo \in {null, to}
=============================================================================
