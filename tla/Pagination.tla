----------------------------- MODULE Pagination -----------------------------
(***************************************************************************)
(* The pages of a list (schemas/common.py and the OFFSET and LIMIT of the  *)
(* list queries).  The rows of the list are positions in commit order; the *)
(* list is sorted by created_at, the newest first.                         *)
(***************************************************************************)
EXTENDS Integers, FiniteSets

CONSTANT MAX_PAGE_SIZE

ASSUME PageSizeAssumption == MAX_PAGE_SIZE \in Nat \ {0}

AtLeastOne(n) == IF n < 1 THEN 1 ELSE n

normalize_pagination(page, page_size) ==
    LET size == IF AtLeastOne(page_size) > MAX_PAGE_SIZE THEN MAX_PAGE_SIZE
                ELSE AtLeastOne(page_size)
    IN  [size |-> size, offset |-> (AtLeastOne(page) - 1) * size]

(* Faulty variant: the last page is counted only when it is full.          *)
TotalPages_Floor(total, size) ==
    IF size = 0 THEN 0 ELSE total \div size

(* total_pages of the answer.                                              *)
TotalPages(total, size) ==
    IF size = 0 THEN 0 ELSE (total + size - 1) \div size

(* How many rows of the list come no later than row i.                     *)
Rank(rows, i) == Cardinality({j \in rows : j >= i})

(* SELECT ... ORDER BY created_at DESC OFFSET p.offset LIMIT p.size        *)
Page(rows, p) == {i \in rows : Rank(rows, i) \in p.offset + 1 .. p.offset + p.size}
=============================================================================
