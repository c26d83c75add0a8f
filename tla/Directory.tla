----------------------------- MODULE Directory -----------------------------
(***************************************************************************)
(* The company directory, list_companies in app/api/companies.py, as a     *)
(* client sees it who walks through its pages while the companies change.  *)
(*                                                                         *)
(* Every page takes two statements, one for the total and one for the      *)
(* rows, and each sees the companies as they are when it runs.  Rows that  *)
(* agree on the sort column come in any order, a new one each time.        *)
(* Companies are numbers in the order of their names, which are unique.    *)
(* Those that a search does not match are no part of the model.  Answers   *)
(* from the cache are in ResponseCache; here every page is a miss.         *)
(***************************************************************************)
EXTENDS Paging, FiniteSets, SequencesExt

CONSTANTS
    Companies,      \* the companies that match the search, 1 .. n
    Reports,        \* values of top_level_report_count
    Scores,         \* values of ethical_score, as whole numbers
    PerPages,       \* values of per_page
    MaxChanges      \* bound: changes of a company during a walk

ASSUME DirectoryAssumption ==
    /\ Companies \subseteq Nat /\ IsFiniteSet(Companies)
    /\ Reports \subseteq Int /\ Scores \subseteq Int
    /\ PerPages \subseteq Nat \ {0}
    /\ MaxChanges \in Nat

VARIABLES
    reports,        \* company -> top_level_report_count
    score,          \* company -> ethical_score
    walk,           \* where the client is, and what it has been shown
    changes,        \* history: kinds of changes since the walk began
    steps,          \* history: their number
    stayed,         \* history: companies listed at every moment of the walk
    tied            \* history: did two listed companies agree on the sort column?

history == <<changes, steps, stayed, tied>>
vars    == <<reports, score, walk, history>>

Sorts == {"reports_desc", "score_desc", "score_asc", "name_asc", "name_desc"}

At(stages) == walk.pc \in stages

\* base_filter
Listed == {c \in Companies : reports[c] > 0}

\* ORDER BY
SortKey(sort, c) ==
    CASE sort = "reports_desc" -> -reports[c]
      [] sort = "score_desc"   -> -score[c]
      [] sort = "score_asc"    -> score[c]
      [] sort = "name_asc"     -> c
      [] sort = "name_desc"    -> -c

Ordered(sort, s) ==
    \A i, j \in DOMAIN s : i < j => SortKey(sort, s[i]) <= SortKey(sort, s[j])

\* What the query may return without offset and limit.
Listings(sort) == {s \in SetToSeqs(Listed) : Ordered(sort, s)}

\* OFFSET and LIMIT: the rows at the positions of the page.
Rows(listing, page, perPage) ==
    LET positions == {i \in DOMAIN listing : OnPage(i, page, perPage)}
    IN  [i \in 1 .. Cardinality(positions) |-> listing[Offset(page, perPage) + i]]

Ties == \E c, d \in Listed : c # d /\ SortKey(walk.sort, c) = SortKey(walk.sort, d)

-----------------------------------------------------------------------------
\* A client asks for the first page, for any sort order and size of pages.
Begin(sort, perPage) ==
    /\ At({"start", "over"})
    /\ walk' = [pc |-> "count", sort |-> sort, perPage |-> perPage,
                page |-> 1, pages |-> 1, shown |-> <<>>]
    /\ changes' = {} /\ steps' = 0 /\ stayed' = Listed /\ tied' = FALSE
    /\ UNCHANGED <<reports, score>>

\* count_query, and the number of pages that the answer will carry.
Count ==
    /\ At({"count"})
    /\ walk' = [walk EXCEPT !.pc = "fetch",
                            !.pages = Pages(Cardinality(Listed), walk.perPage)]
    /\ UNCHANGED <<reports, score, history>>

\* The rows of the page, and the answer.
Fetch ==
    /\ At({"fetch"})
    /\ \E listing \in Listings(walk.sort) :
          walk' = [walk EXCEPT !.pc = "answered",
                               !.shown = @ \o Rows(listing, walk.page, walk.perPage)]
    /\ tied' = (tied \/ Ties)
    /\ UNCHANGED <<reports, score, changes, steps, stayed>>

\* The client goes on as long as there are pages by the last answer.
NextPage ==
    /\ At({"answered"})
    /\ walk' = IF walk.page < walk.pages
               THEN [walk EXCEPT !.pc = "count", !.page = @ + 1]
               ELSE [walk EXCEPT !.pc = "over"]
    /\ UNCHANGED <<reports, score, history>>

Kind(c, n, s) ==
    CASE reports[c] <= 0 /\ n > 0 -> {IF At({"fetch"}) THEN "slipped" ELSE "joined"}
      [] reports[c] > 0 /\ n <= 0 -> {"left"}
      [] reports[c] > 0 /\ n > 0  ->
            IF \/ walk.sort = "reports_desc" /\ n # reports[c]
               \/ walk.sort \in {"score_desc", "score_asc"} /\ s # score[c]
            THEN {"moved"} ELSE {}
      [] OTHER -> {}

\* The reports API or a worker writes another count or score.
Change(c, n, s) ==
    /\ At({"count", "fetch", "answered"})
    /\ steps < MaxChanges
    /\ <<n, s>> # <<reports[c], score[c]>>
    /\ reports' = [reports EXCEPT ![c] = n]
    /\ score' = [score EXCEPT ![c] = s]
    /\ changes' = changes \cup Kind(c, n, s)
    /\ steps' = steps + 1
    /\ stayed' = stayed \cap Listed'
    /\ UNCHANGED <<walk, tied>>

Init ==
    /\ reports \in [Companies -> Reports]
    /\ score \in [Companies -> Scores]
    /\ \E sort \in Sorts, perPage \in PerPages :
          walk = [pc |-> "start", sort |-> sort, perPage |-> perPage,
                  page |-> 1, pages |-> 1, shown |-> <<>>]
    /\ changes = {} /\ steps = 0 /\ stayed = {} /\ tied = FALSE

Next ==
    \/ \E sort \in Sorts, perPage \in PerPages : Begin(sort, perPage)
    \/ Count \/ Fetch \/ NextPage
    \/ \E c \in Companies, n \in Reports, s \in Scores : Change(c, n, s)

Spec == Init /\ [][Next]_vars

-----------------------------------------------------------------------------
(* Properties *)

TypeOK ==
    /\ reports \in [Companies -> Reports]
    /\ score \in [Companies -> Scores]
    /\ walk.pc \in {"start", "count", "fetch", "answered", "over"}
    /\ {walk.page, walk.pages} \subseteq Nat \ {0}
    /\ walk.sort \in Sorts /\ walk.perPage \in PerPages
    /\ Range(walk.shown) \subseteq Companies
    /\ changes \subseteq {"joined", "slipped", "left", "moved"}
    /\ stayed \subseteq Companies /\ tied \in BOOLEAN

Seen == Range(walk.shown)

\* Companies that leave the listing shift the others to the front: they may hide
\* some from the client, but none is shown twice.
NothingTwice == changes \subseteq {"left"} /\ ~tied => IsInjective(walk.shown)

\* Companies that join shift the others to the back: some may be shown twice, but
\* none is missed, as long as they do not join between total and rows, where the
\* last of the listing may be pushed to a page that the total does not know of.
\* Without any change the pages therefore show the listing, each company once.
NothingMissed ==
    At({"over"}) /\ changes \subseteq {"joined"} /\ ~tied => stayed \subseteq Seen
=============================================================================
