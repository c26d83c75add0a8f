------------------------------- MODULE Paging -------------------------------
(***************************************************************************)
(* The page arithmetic of list_companies in app/api/companies.py: pages    *)
(* are numbered from 1, positions in the sorted listing, too.              *)
(***************************************************************************)
EXTENDS Integers

\* Fault: an empty listing has no page.
Pages_None(total, perPage) == (total + perPage - 1) \div perPage

\* Fault: the last page is only counted when it is full.
Pages_Full(total, perPage) == IF total < perPage THEN 1 ELSE total \div perPage

\* max(1, (total + per_page - 1) // per_page)
Pages(total, perPage) ==
    LET n == (total + perPage - 1) \div perPage
    IN  IF n > 1 THEN n ELSE 1

\* Fault: the last position of the page before comes again.
Offset_Overlap(page, perPage) == IF page = 1 THEN 0 ELSE (page - 1) * perPage - 1

\* offset((page - 1) * per_page)
Offset(page, perPage) == (page - 1) * perPage

\* offset and limit: the positions of the listing that a page shows.
OnPage(i, page, perPage) == Offset(page, perPage) < i /\ i <= Offset(page, perPage) + perPage
=============================================================================
