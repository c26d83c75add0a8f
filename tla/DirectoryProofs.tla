--------------------------- MODULE DirectoryProofs --------------------------
(***************************************************************************)
(* Theorems about list_companies: the page arithmetic, for a listing of    *)
(* any length and pages of any size, and what a client sees who walks      *)
(* through the pages, for any number of companies, values and changes.     *)
(***************************************************************************)
EXTENDS Directory, FiniteSetTheorems, SequenceTheorems, TLAPS

(* Pages *)

\* What // computes: the quotient rounded down.
LEMMA Quotient ==
    ASSUME NEW n \in Nat, NEW d \in Nat \ {0}
    PROVE  /\ n \div d \in Nat
           /\ (n \div d) * d <= n
           /\ n < (n \div d) * d + d
  BY SMT

\* Multiplying by the size of a page keeps the order of page numbers.
LEMMA TimesMonotone ==
    ASSUME NEW j \in Int, NEW k \in Int, NEW d \in Nat \ {0}, j <= k
    PROVE  j * d <= k * d
<1>1. k * d - j * d = (k - j) * d
  BY SMT
<1>2. (k - j) * d >= 0
  BY SMT
<1>3. j * d \in Int /\ k * d \in Int
  BY SMT
<1> QED
  BY <1>1, <1>2, <1>3, SMT

\* The first position behind a page is the one its successor starts after.
LEMMA NextOffset ==
    ASSUME NEW p \in Int, NEW d \in Nat \ {0}
    PROVE  (p - 1) * d \in Int /\ p * d \in Int /\ (p - 1) * d + d = p * d
  BY SMT

\* A page that starts within the listing is one of those that Pages counts, and
\* the pages that Pages counts start within the listing, but for an empty one.
LEMMA PageStarts ==
    ASSUME NEW total \in Nat, NEW perPage \in Nat \ {0}, NEW p \in Nat \ {0}
    PROVE  /\ Offset(p, perPage) \in Nat
           /\ Offset(p, perPage) < total => p <= Pages(total, perPage)
           /\ p <= Pages(total, perPage) /\ total > 0 => Offset(p, perPage) < total
<1> DEFINE n == (total + perPage - 1) \div perPage
<1>1. /\ n \in Nat
      /\ n * perPage <= total + perPage - 1
      /\ total + perPage - 1 < n * perPage + perPage
  BY Quotient
<1>2. n * perPage \in Int
  BY <1>1
<1>3. /\ (p - 1) * perPage \in Int /\ p * perPage \in Int
      /\ (p - 1) * perPage + perPage = p * perPage
  BY NextOffset
<1>4. 0 * perPage <= (p - 1) * perPage
  BY TimesMonotone
<1>5. Pages(total, perPage) = IF n > 1 THEN n ELSE 1
  BY DEF Pages
<1>6. Offset(p, perPage) = (p - 1) * perPage
  BY DEF Offset
<1> HIDE DEF n
<1>7. ASSUME (p - 1) * perPage < total
      PROVE  p <= n
  <2> SUFFICES ASSUME n <= p - 1 PROVE FALSE
    BY <1>1
  <2>1. n * perPage <= (p - 1) * perPage
    BY <1>1, TimesMonotone
  <2> QED
    BY <1>1, <1>2, <1>3, <1>7, <2>1
<1>8. ASSUME p <= n
      PROVE  (p - 1) * perPage < total
  <2>1. p * perPage <= n * perPage
    BY <1>1, <1>8, TimesMonotone
  <2> QED
    BY <1>1, <1>2, <1>3, <2>1
<1>9. ASSUME p <= 1, total > 0
      PROVE  (p - 1) * perPage < total
  <2>1. p - 1 = 0
    BY <1>9
  <2> QED
    BY <2>1, <1>9
<1> QED
  BY <1>1, <1>3, <1>4, <1>5, <1>6, <1>7, <1>8, <1>9

\* Each company of the listing is on exactly one of the pages that the answer
\* counts: nothing falls between two pages or behind the last.
THEOREM OnOnePage ==
    ASSUME NEW total \in Nat, NEW perPage \in Nat \ {0}, NEW i \in 1 .. total
    PROVE  \E p \in 1 .. Pages(total, perPage) :
              /\ OnPage(i, p, perPage)
              /\ \A r \in 1 .. Pages(total, perPage) : OnPage(i, r, perPage) => r = p
<1> DEFINE d == (i - 1) \div perPage
           p == d + 1
<1>1. d \in Nat /\ d * perPage <= i - 1 /\ i - 1 < d * perPage + perPage
  BY Quotient
<1> HIDE DEF d
<1>2. Offset(p, perPage) = d * perPage /\ d * perPage \in Int
  BY <1>1 DEF Offset
<1>3. OnPage(i, p, perPage)
  BY <1>1, <1>2 DEF OnPage
<1>4. p \in Nat \ {0} /\ Offset(p, perPage) < total
  BY <1>1, <1>2
<1>5. Pages(total, perPage) \in Int
  <2>1. (total + perPage - 1) \div perPage \in Nat
    BY Quotient
  <2> QED
    BY <2>1 DEF Pages
<1>6. p \in 1 .. Pages(total, perPage)
  BY <1>4, <1>5, PageStarts
<1>7. ASSUME NEW r \in 1 .. Pages(total, perPage), OnPage(i, r, perPage)
      PROVE  r = p
  <2>1. /\ (r - 1) * perPage \in Int /\ r * perPage \in Int
        /\ (r - 1) * perPage + perPage = r * perPage
    BY <1>5, NextOffset
  <2>2. (r - 1) * perPage < i /\ i <= r * perPage
    BY <1>7, <2>1 DEF OnPage, Offset
  <2>3. CASE r <= d
    <3>1. r * perPage <= d * perPage
      BY <1>1, <1>5, <2>3, TimesMonotone
    <3> QED
      BY <1>1, <1>2, <2>1, <2>2, <3>1
  <2>4. CASE p <= r - 1
    <3>1. p * perPage <= (r - 1) * perPage
      BY <1>1, <1>5, <2>4, TimesMonotone
    <3>2. p * perPage = d * perPage + perPage
      BY <1>1, NextOffset
    <3> QED
      BY <1>1, <1>2, <2>1, <2>2, <3>1, <3>2
  <2> QED
    BY <1>1, <1>5, <2>3, <2>4
<1> QED
  BY <1>3, <1>6, <1>7

\* No page that the answer counts is empty, unless the whole listing is.
THEOREM NoPageIsEmpty ==
    ASSUME NEW total \in Nat \ {0}, NEW perPage \in Nat \ {0},
           NEW p \in 1 .. Pages(total, perPage)
    PROVE  \E i \in 1 .. total : OnPage(i, p, perPage)
<1>1. (total + perPage - 1) \div perPage \in Nat
  BY Quotient
<1>2. Pages(total, perPage) \in Int
  BY <1>1 DEF Pages
<1>3. Offset(p, perPage) \in Nat /\ Offset(p, perPage) < total
  BY <1>2, PageStarts
<1>4. Offset(p, perPage) + 1 \in 1 .. total
  BY <1>3
<1>5. OnPage(Offset(p, perPage) + 1, p, perPage)
  BY <1>3 DEF OnPage
<1> QED
  BY <1>4, <1>5

-----------------------------------------------------------------------------
(* What a walk through the pages has shown *)

\* The companies that the current order puts before c, c included: their number is
\* the position at which c is listed, when no two agree on the sort column.
Before(c) == {d \in Listed : SortKey(walk.sort, d) <= SortKey(walk.sort, c)}
Rank(c)   == Cardinality(Before(c))

\* The last position of the pages that the client has been shown.
Shown ==
    IF At({"count", "fetch"}) THEN Offset(walk.page, walk.perPage)
    ELSE Offset(walk.page + 1, walk.perPage)

\* As long as companies only leave: those that were shown and are still listed are
\* at the positions of the pages shown.
NoneAhead ==
    changes \subseteq {"left"} /\ ~tied =>
        /\ IsInjective(walk.shown)
        /\ \A c \in Seen \cap Listed : Rank(c) <= Shown

\* As long as companies only join, and not between total and rows: those that stay
\* and were not shown are behind the pages shown, and the pages that the answer
\* counts are enough for all.
NoneBehind ==
    changes \subseteq {"joined"} /\ ~tied =>
        /\ \A c \in stayed : c \in Seen \/ Rank(c) > Shown
        /\ At({"fetch"}) => Cardinality(Listed) <= Offset(walk.pages + 1, walk.perPage)
        /\ At({"answered"}) /\ walk.page >= walk.pages => stayed \subseteq Seen
        /\ At({"over"}) => stayed \subseteq Seen

Walk == [pc      : {"start", "count", "fetch", "answered", "over"},
         sort    : Sorts,
         perPage : PerPages,
         page    : Nat \ {0},
         pages   : Nat \ {0},
         shown   : Seq(Companies)]

Inv ==
    /\ reports \in [Companies -> Reports]
    /\ score \in [Companies -> Scores]
    /\ walk \in Walk
    /\ changes \subseteq {"joined", "slipped", "left", "moved"}
    /\ tied \in BOOLEAN
    /\ stayed \subseteq Listed
    /\ NoneAhead
    /\ NoneBehind

LEMMA ListedFinite ==
    /\ Listed \subseteq Companies /\ IsFiniteSet(Listed) /\ Cardinality(Listed) \in Nat
<1>1. Listed \subseteq Companies
  BY DEF Listed
<1>2. IsFiniteSet(Listed)
  BY <1>1, FS_Subset, DirectoryAssumption
<1> QED
  BY <1>1, <1>2, FS_CardinalityType

\* The sort column is a number.
LEMMA KeyType ==
    ASSUME reports \in [Companies -> Reports], score \in [Companies -> Scores],
           NEW sort \in Sorts, NEW c \in Companies
    PROVE  SortKey(sort, c) \in Int
<1>1. reports[c] \in Int /\ score[c] \in Int /\ c \in Int
  <2>1. reports[c] \in Reports /\ score[c] \in Scores
    OBVIOUS
  <2>2. reports[c] \in Int /\ score[c] \in Int /\ c \in Nat
    BY <2>1, DirectoryAssumption, Zenon
  <2> QED
    BY <2>2
<1>2. CASE sort \in {"reports_desc", "score_desc", "score_asc"}
  BY <1>1, <1>2 DEF SortKey
<1>3. CASE sort \in {"name_asc", "name_desc"}
  BY <1>1, <1>3 DEF SortKey
<1> QED
  BY <1>2, <1>3 DEF Sorts

LEMMA RankType ==
    ASSUME NEW c
    PROVE  /\ Before(c) \subseteq Listed /\ IsFiniteSet(Before(c)) /\ Rank(c) \in Nat
           /\ Rank(c) <= Cardinality(Listed)
<1>1. Before(c) \subseteq Listed
  BY DEF Before
<1> QED
  BY <1>1, ListedFinite, FS_Subset, FS_CardinalityType DEF Rank

LEMMA NextRankType ==
    ASSUME NEW c
    PROVE  Rank(c)' \in Nat
<1>1. Before(c)' \subseteq Companies
  BY DEF Before, Listed
<1> QED
  BY <1>1, FS_Subset, FS_CardinalityType, DirectoryAssumption DEF Rank

\* A listed company is itself among those not behind it.
LEMMA RankPositive ==
    ASSUME Inv, NEW c \in Listed
    PROVE  Rank(c) > 0
<1>1. SortKey(walk.sort, c) \in Int
  BY KeyType, ListedFinite DEF Inv, Walk
<1>2. c \in Before(c)
  BY <1>1 DEF Before
<1> QED
  BY <1>2, RankType, FS_EmptySet DEF Rank

\* The query returns every listed company once, in order.
LEMMA ListingIs ==
    ASSUME Inv, NEW listing \in Listings(walk.sort)
    PROVE  /\ listing \in [1 .. Cardinality(Listed) -> Listed]
           /\ \A i, j \in 1 .. Cardinality(Listed) : i # j => listing[i] # listing[j]
           /\ \A i, j \in 1 .. Cardinality(Listed) :
                 i < j => SortKey(walk.sort, listing[i]) <= SortKey(walk.sort, listing[j])
           /\ \A c \in Listed : \E i \in 1 .. Cardinality(Listed) : listing[i] = c
<1> DEFINE N == Cardinality(Listed)
<1>1. listing \in SetToSeqs(Listed) /\ Ordered(walk.sort, listing)
  BY DEF Listings
<1>2. /\ listing \in [1 .. N -> Listed]
      /\ \A i, j \in 1 .. N : i # j => listing[i] # listing[j]
  BY <1>1 DEF SetToSeqs
<1>3. \A i, j \in 1 .. N :
         i < j => SortKey(walk.sort, listing[i]) <= SortKey(walk.sort, listing[j])
  BY <1>1, <1>2 DEF Ordered
<1>4. listing \in Injection(1 .. N, Listed)
  BY <1>2 DEF Injection, IsInjective
<1>5. Cardinality(1 .. N) = N
  BY ListedFinite, FS_Interval
<1>6. listing \in Surjection(1 .. N, Listed)
  BY <1>4, <1>5, ListedFinite, FS_Injection
<1>7. \A c \in Listed : \E i \in 1 .. N : listing[i] = c
  BY <1>6 DEF Surjection
<1> QED
  BY <1>2, <1>3, <1>7

\* Without ties a company's rank is its position, in whatever order the query
\* returns the rows.
LEMMA RankIsPosition ==
    ASSUME Inv, NEW listing \in Listings(walk.sort), ~Ties,
           NEW i \in 1 .. Cardinality(Listed)
    PROVE  Rank(listing[i]) = i
<1> DEFINE N == Cardinality(Listed)
           key(c) == SortKey(walk.sort, c)
<1>1. /\ listing \in [1 .. N -> Listed] /\ N \in Nat
      /\ \A j, k \in 1 .. N : j # k => listing[j] # listing[k]
      /\ \A j, k \in 1 .. N : j < k => key(listing[j]) <= key(listing[k])
      /\ \A c \in Listed : \E j \in 1 .. N : listing[j] = c
  BY ListingIs, ListedFinite
<1>2. \A c \in Listed : key(c) \in Int
  BY KeyType, ListedFinite DEF Inv, Walk
<1>3. \A c, d \in Listed : c # d => key(c) # key(d)
  BY DEF Ties
<1> HIDE DEF key
<1>4. \A j \in 1 .. N : key(listing[j]) <= key(listing[i]) <=> j <= i
  <2>1. ASSUME NEW j \in 1 .. N, j <= i
        PROVE  key(listing[j]) <= key(listing[i])
    <3>1. CASE j = i
      BY <1>1, <1>2, <3>1
    <3>2. CASE j < i
      BY <1>1, <3>2
    <3> QED
      BY <1>1, <2>1, <3>1, <3>2
  <2>2. ASSUME NEW j \in 1 .. N, i < j
        PROVE  ~(key(listing[j]) <= key(listing[i]))
    <3>1. key(listing[i]) <= key(listing[j]) /\ key(listing[i]) # key(listing[j])
      BY <1>1, <1>3, <2>2
    <3>2. key(listing[i]) \in Int /\ key(listing[j]) \in Int
      BY <1>1, <1>2
    <3> QED
      BY <3>1, <3>2
  <2> QED
    BY <1>1, <2>1, <2>2
<1>5. Before(listing[i]) = {d \in Listed : key(d) <= key(listing[i])}
  BY DEF Before, key
<1> DEFINE f == [j \in 1 .. i |-> listing[j]]
<1>6. f \in Bijection(1 .. i, Before(listing[i]))
  <2>1. f \in [1 .. i -> Before(listing[i])]
    BY <1>1, <1>4, <1>5
  <2>2. \A j, k \in 1 .. i : f[j] = f[k] => j = k
    BY <1>1
  <2>3. \A d \in Before(listing[i]) : \E j \in 1 .. i : f[j] = d
    <3>1. SUFFICES ASSUME NEW d \in Listed, key(d) <= key(listing[i])
                   PROVE  \E j \in 1 .. i : f[j] = d
      BY <1>5
    <3>2. PICK j \in 1 .. N : listing[j] = d
      BY <1>1
    <3>3. j \in 1 .. i
      BY <1>1, <1>4, <3>1, <3>2
    <3> QED
      BY <3>2, <3>3
  <2> HIDE DEF f
  <2> QED
    BY <2>1, <2>2, <2>3 DEF Bijection, Injection, Surjection, IsInjective
<1>7. ExistsBijection(1 .. i, Before(listing[i]))
  BY <1>6 DEF ExistsBijection
<1> QED
  BY <1>1, <1>7, FS_CountingElements DEF Rank

\* The rows of a page are those at its positions in the listing.
RowsOfPage(N, S, listing, page, perPage) ==
    \E m \in Nat :
       /\ Offset(page, perPage) \in Nat
       /\ Rows(listing, page, perPage) \in [1 .. m -> S]
       /\ \A i \in 1 .. m :
             Rows(listing, page, perPage)[i] = listing[Offset(page, perPage) + i]
       /\ \A i \in 1 .. m : /\ Offset(page, perPage) + i \in 1 .. N
                            /\ OnPage(Offset(page, perPage) + i, page, perPage)
       /\ \A j \in 1 .. N : OnPage(j, page, perPage) =>
             \E i \in 1 .. m : j = Offset(page, perPage) + i

LEMMA RowsAre ==
    ASSUME NEW N \in Nat, NEW S, NEW listing \in [1 .. N -> S],
           NEW page \in Nat \ {0}, NEW perPage \in Nat \ {0}
    PROVE  RowsOfPage(N, S, listing, page, perPage)
<1> DEFINE off == Offset(page, perPage)
           P == {i \in DOMAIN listing : OnPage(i, page, perPage)}
<1>1. off \in Nat
  BY PageStarts
<1>2. \A i \in Nat : i \in P <=> i \in 1 .. N /\ off < i /\ i <= off + perPage
  BY DEF OnPage
<1>3. P \subseteq Nat
  OBVIOUS
<1>4. Rows(listing, page, perPage) = [i \in 1 .. Cardinality(P) |-> listing[off + i]]
  BY DEF Rows
<1>5. \A j : OnPage(j, page, perPage) <=> off < j /\ j <= off + perPage
  BY DEF OnPage
<1> HIDE DEF off, P
<1> DEFINE top == IF N < off + perPage THEN N ELSE off + perPage
           m == IF N < off THEN 0 ELSE top - off
<1>6. top \in Nat /\ m \in Nat
  BY <1>1
<1>7. P = (off + 1) .. top
  <2>1. ASSUME NEW i \in Nat
        PROVE  i \in P <=> i \in (off + 1) .. top
    BY <1>1, <1>2
  <2>2. (off + 1) .. top \subseteq Nat
    BY <1>1, <1>6
  <2> QED
    BY <1>3, <2>1, <2>2, Zenon
<1>8. Cardinality(P) = m
  <2>1. Cardinality((off + 1) .. top) = IF off + 1 > top THEN 0 ELSE top - (off + 1) + 1
    BY <1>1, <1>6, FS_Interval
  <2> QED
    BY <1>1, <1>7, <2>1
<1>9. \A i \in 1 .. m : off + i \in 1 .. N /\ off < off + i /\ off + i <= off + perPage
  BY <1>1
<1>10. \A j \in 1 .. N : off < j /\ j <= off + perPage => j - off \in 1 .. m /\ j = off + (j - off)
  BY <1>1
<1>11. \A i \in 1 .. m : off + i \in 1 .. N /\ OnPage(off + i, page, perPage)
  BY <1>5, <1>9
<1>12. \A j \in 1 .. N : OnPage(j, page, perPage) => \E i \in 1 .. m : j = off + i
  BY <1>5, <1>10
<1> HIDE DEF m
<1>13. Rows(listing, page, perPage) = [i \in 1 .. m |-> listing[off + i]]
  BY <1>4, <1>8
<1>14. /\ Rows(listing, page, perPage) \in [1 .. m -> S]
       /\ \A i \in 1 .. m : Rows(listing, page, perPage)[i] = listing[off + i]
  BY <1>11, <1>13
<1> QED
  BY <1>1, <1>6, <1>11, <1>12, <1>14 DEF off, RowsOfPage

\* The next page starts where this one ends.
LEMMA OffsetGrows ==
    ASSUME NEW p \in Nat \ {0}, NEW d \in Nat \ {0}
    PROVE  Offset(p + 1, d) = Offset(p, d) + d
<1>1. Offset(p + 1, d) = (p + 1 - 1) * d /\ Offset(p, d) = (p - 1) * d
  BY DEF Offset
<1>2. p + 1 - 1 = p
  OBVIOUS
<1>3. Offset(p + 1, d) = p * d
  BY <1>1, <1>2, Zenon
<1> QED
  BY <1>1, <1>3, NextOffset

LEMMA OffsetMonotone ==
    ASSUME NEW p \in Nat \ {0}, NEW r \in Nat \ {0}, NEW d \in Nat \ {0}, p <= r
    PROVE  Offset(p + 1, d) <= Offset(r + 1, d)
<1>1. p + 1 - 1 <= r + 1 - 1 /\ p + 1 - 1 \in Int /\ r + 1 - 1 \in Int
  OBVIOUS
<1>2. (p + 1 - 1) * d <= (r + 1 - 1) * d
  BY <1>1, TimesMonotone
<1>3. Offset(p + 1, d) = (p + 1 - 1) * d /\ Offset(r + 1, d) = (r + 1 - 1) * d
  BY DEF Offset
<1> QED
  BY <1>2, <1>3, Zenon

\* Two sequences without repetitions that share nothing have none when joined.
LEMMA JoinedInjective ==
    ASSUME NEW S, NEW s \in Seq(S), NEW t \in Seq(S), IsInjective(s),
           \A i, j \in 1 .. Len(t) : i # j => t[i] # t[j],
           \A i \in 1 .. Len(s), j \in 1 .. Len(t) : s[i] # t[j]
    PROVE  IsInjective(s \o t)
<1>1. Len(s) \in Nat /\ Len(t) \in Nat /\ DOMAIN (s \o t) = 1 .. Len(s) + Len(t)
  OBVIOUS
<1>2. \A i \in 1 .. Len(s) : (s \o t)[i] = s[i]
  OBVIOUS
<1>3. \A i \in 1 .. Len(s) + Len(t) :
         i \notin 1 .. Len(s) => i - Len(s) \in 1 .. Len(t) /\ (s \o t)[i] = t[i - Len(s)]
  OBVIOUS
<1>4. \A i, j \in 1 .. Len(s) : s[i] = s[j] => i = j
  BY DEF IsInjective
<1>5. ASSUME NEW i \in 1 .. Len(s) + Len(t), NEW j \in 1 .. Len(s) + Len(t),
             (s \o t)[i] = (s \o t)[j]
      PROVE  i = j
  <2>1. CASE i \in 1 .. Len(s) /\ j \in 1 .. Len(s)
    BY <1>2, <1>4, <1>5, <2>1
  <2>2. CASE i \notin 1 .. Len(s) /\ j \notin 1 .. Len(s)
    <3>1. /\ i - Len(s) \in 1 .. Len(t) /\ j - Len(s) \in 1 .. Len(t)
          /\ t[i - Len(s)] = t[j - Len(s)]
      BY <1>3, <1>5, <2>2
    <3>2. i - Len(s) = j - Len(s)
      BY <3>1
    <3> QED
      BY <1>1, <3>2
  <2>3. CASE i \in 1 .. Len(s) /\ j \notin 1 .. Len(s)
    BY <1>2, <1>3, <1>5, <2>3
  <2>4. CASE i \notin 1 .. Len(s) /\ j \in 1 .. Len(s)
    BY <1>2, <1>3, <1>5, <2>4
  <2> QED
    BY <2>1, <2>2, <2>3, <2>4
<1> QED
  BY <1>1, <1>5 DEF IsInjective

\* Once every company is shown, the pages are: a page number beyond the last has
\* all positions before its start.
LEMMA EnoughPages ==
    ASSUME NEW total \in Nat, NEW perPage \in Nat \ {0}
    PROVE  /\ Pages(total, perPage) \in Nat \ {0}
           /\ total <= Offset(Pages(total, perPage) + 1, perPage)
<1>1. (total + perPage - 1) \div perPage \in Nat
  BY Quotient
<1>2. Pages(total, perPage) \in Nat \ {0}
  BY <1>1 DEF Pages
<1>3. Pages(total, perPage) + 1 \in Nat \ {0} /\ ~(Pages(total, perPage) + 1 <= Pages(total, perPage))
  BY <1>2
<1>4. /\ Offset(Pages(total, perPage) + 1, perPage) \in Nat
      /\ ~(Offset(Pages(total, perPage) + 1, perPage) < total)
  BY <1>3, PageStarts
<1> QED
  BY <1>2, <1>4

LEMMA ShownType ==
    ASSUME Inv
    PROVE  Shown \in Nat
<1>1. walk.page \in Nat \ {0} /\ walk.page + 1 \in Nat \ {0} /\ walk.perPage \in Nat \ {0}
  <2>1. walk.page \in Nat \ {0} /\ walk.perPage \in PerPages
    BY DEF Inv, Walk
  <2>2. walk.perPage \in Nat \ {0}
    BY <2>1, DirectoryAssumption, Zenon
  <2> QED
    BY <2>1, <2>2
<1> QED
  BY <1>1, PageStarts DEF Shown

-----------------------------------------------------------------------------
(* The steps *)

\* What the invariant is at the first page of a new walk.
LEMMA BeginInv ==
    ASSUME Inv, NEW sort \in Sorts, NEW perPage \in PerPages, Begin(sort, perPage)
    PROVE  Inv'
<1>1. /\ walk' = [pc |-> "count", sort |-> sort, perPage |-> perPage,
                  page |-> 1, pages |-> 1, shown |-> <<>>]
      /\ reports' = reports /\ score' = score
      /\ changes' = {} /\ stayed' = Listed /\ tied' = FALSE
  BY DEF Begin
<1>2. walk' \in Walk
  BY <1>1 DEF Walk
<1>3. /\ walk'.pc = "count" /\ walk'.sort = sort /\ walk'.perPage = perPage
      /\ walk'.page = 1 /\ walk'.shown = <<>>
  BY <1>1
<1>4. Shown' = 0
  <2>1. Shown' = Offset(1, perPage)
    BY <1>3 DEF Shown, At
  <2>2. perPage \in Nat \ {0}
    BY DirectoryAssumption, Zenon
  <2> QED
    BY <2>1, <2>2 DEF Offset
<1>5. Listed' = Listed
  BY <1>1 DEF Listed
<1>6. Seen' = {} /\ IsInjective(walk'.shown)
  BY <1>3 DEF Seen, Range, IsInjective
<1>7. \A c \in Listed' : Rank(c)' > 0
  <2>1. ASSUME NEW c \in Listed'
        PROVE  Rank(c)' > 0
    <3>1. c \in Companies /\ SortKey(sort, c)' \in Int
      <4>1. c \in Companies
        BY <1>5, ListedFinite
      <4>2. SortKey(sort, c) \in Int
        BY <4>1, KeyType DEF Inv
      <4>3. SortKey(sort, c)' = SortKey(sort, c)
        BY <1>1 DEF SortKey
      <4> QED
        BY <4>1, <4>2, <4>3
    <3>2. c \in Before(c)'
      BY <1>3, <3>1 DEF Before
    <3>3. Before(c)' \subseteq Listed
      BY <1>5 DEF Before
    <3>4. IsFiniteSet(Before(c)') /\ Cardinality(Before(c)') \in Nat
      BY <3>3, ListedFinite, FS_Subset, FS_CardinalityType
    <3> QED
      BY <3>2, <3>4, FS_EmptySet DEF Rank
  <2> QED
    BY <2>1
<1>8. NoneAhead'
  BY <1>6 DEF NoneAhead
<1>9. NoneBehind'
  BY <1>1, <1>3, <1>4, <1>5, <1>7 DEF NoneBehind, At
<1> QED
  BY <1>1, <1>2, <1>5, <1>8, <1>9 DEF Inv

\* Ranks depend on the companies and the sort order alone.
LEMMA SameRanks ==
    ASSUME reports' = reports, score' = score, walk'.sort = walk.sort
    PROVE  /\ Listed' = Listed
           /\ \A c : Rank(c)' = Rank(c)
<1>1. Listed' = Listed
  BY DEF Listed
<1>2. \A c : Before(c)' = Before(c)
  BY <1>1 DEF Before, SortKey
<1> QED
  BY <1>1, <1>2 DEF Rank

LEMMA CountInv ==
    ASSUME Inv, Count
    PROVE  Inv'
<1>1. /\ walk.pc = "count" /\ walk \in Walk
      /\ walk' = [walk EXCEPT !.pc = "fetch", !.pages = Pages(Cardinality(Listed), walk.perPage)]
      /\ UNCHANGED <<reports, score, changes, stayed, tied>>
  BY DEF Count, At, Inv, history
<1>2. /\ walk'.pc = "fetch" /\ walk'.pages = Pages(Cardinality(Listed), walk.perPage)
      /\ walk'.sort = walk.sort /\ walk'.perPage = walk.perPage
      /\ walk'.page = walk.page /\ walk'.shown = walk.shown
  BY <1>1 DEF Walk
<1>3. walk.perPage \in Nat \ {0}
  <2>1. walk.perPage \in PerPages
    BY <1>1 DEF Walk
  <2> QED
    BY <2>1, DirectoryAssumption, Zenon
<1>4. /\ walk'.pages \in Nat \ {0}
      /\ Cardinality(Listed) <= Offset(walk'.pages + 1, walk.perPage)
  BY <1>2, <1>3, ListedFinite, EnoughPages
<1>5. walk' \in Walk
  BY <1>1, <1>2, <1>4 DEF Walk
<1>6. Listed' = Listed /\ \A c : Rank(c)' = Rank(c)
  BY <1>1, <1>2, SameRanks
<1>7. Shown' = Shown /\ Seen' = Seen
  BY <1>1, <1>2 DEF Shown, Seen, At
<1>8. NoneAhead'
  BY <1>1, <1>2, <1>6, <1>7 DEF Inv, NoneAhead
<1>9. NoneBehind'
  BY <1>1, <1>2, <1>4, <1>6, <1>7 DEF Inv, NoneBehind, At
<1> QED
  BY <1>1, <1>5, <1>6, <1>8, <1>9 DEF Inv

\* The pages shown stay the same when the client asks for the next.
LEMMA NextPageInv ==
    ASSUME Inv, NextPage
    PROVE  Inv'
<1>1. /\ walk.pc = "answered" /\ walk \in Walk
      /\ walk' = IF walk.page < walk.pages
                 THEN [walk EXCEPT !.pc = "count", !.page = walk.page + 1]
                 ELSE [walk EXCEPT !.pc = "over"]
      /\ UNCHANGED <<reports, score, changes, stayed, tied>>
  BY DEF NextPage, At, Inv, history
<1>2. /\ walk'.sort = walk.sort /\ walk'.perPage = walk.perPage /\ walk'.pages = walk.pages
      /\ walk'.shown = walk.shown /\ walk' \in Walk
      /\ \/ walk'.pc = "count" /\ walk'.page = walk.page + 1
         \/ walk'.pc = "over" /\ walk'.page = walk.page /\ ~(walk.page < walk.pages)
  <2>1. CASE walk.page < walk.pages
    <3>1. walk' = [walk EXCEPT !.pc = "count", !.page = walk.page + 1]
      BY <1>1, <2>1
    <3>2. walk.page + 1 \in Nat \ {0}
      BY <1>1 DEF Walk
    <3> QED
      BY <1>1, <3>1, <3>2 DEF Walk
  <2>2. CASE ~(walk.page < walk.pages)
    <3>1. walk' = [walk EXCEPT !.pc = "over"]
      BY <1>1, <2>2
    <3> QED
      BY <1>1, <2>2, <3>1 DEF Walk
  <2> QED
    BY <2>1, <2>2
<1>3. walk.page \in Int /\ walk.pages \in Int
  BY <1>1 DEF Walk
<1>4. Listed' = Listed /\ \A c : Rank(c)' = Rank(c)
  BY <1>1, <1>2, SameRanks
<1>5. Shown' = Shown /\ Seen' = Seen
  BY <1>1, <1>2 DEF Shown, Seen, At
<1>6. NoneAhead'
  BY <1>1, <1>2, <1>4, <1>5 DEF Inv, NoneAhead
<1>7. NoneBehind'
  <2>1. walk'.pc = "over" => walk.page >= walk.pages
    BY <1>2, <1>3
  <2> QED
    BY <1>1, <1>2, <1>4, <1>5, <2>1 DEF Inv, NoneBehind, At
<1> QED
  BY <1>1, <1>2, <1>4, <1>6, <1>7 DEF Inv

-----------------------------------------------------------------------------
(* Changes during the walk *)

LEMMA ChangeFacts ==
    ASSUME Inv, NEW c \in Companies, NEW n \in Reports, NEW s \in Scores, Change(c, n, s)
    PROVE  /\ reports' \in [Companies -> Reports] /\ score' \in [Companies -> Scores]
           /\ reports'[c] = n /\ score'[c] = s
           /\ \A d \in Companies \ {c} : reports'[d] = reports[d] /\ score'[d] = score[d]
           /\ changes' = changes \cup Kind(c, n, s)
           /\ stayed' = stayed \cap Listed'
           /\ walk' = walk /\ tied' = tied
           /\ n \in Int /\ reports[c] \in Int
<1>1. n \in Int /\ reports[c] \in Int
  <2>1. reports[c] \in Reports
    BY DEF Inv
  <2> QED
    BY <2>1, DirectoryAssumption, Zenon
<1> QED
  BY <1>1 DEF Inv, Change

\* The sort columns of the others stay, and that of c unless its change is a move.
LEMMA KeysStay ==
    ASSUME Inv, NEW c \in Companies, NEW n \in Reports, NEW s \in Scores, Change(c, n, s),
           "moved" \notin changes'
    PROVE  /\ \A d \in Companies \ {c} :
                 /\ SortKey(walk.sort, d)' = SortKey(walk.sort, d)
                 /\ d \in Listed' <=> d \in Listed
           /\ c \in Listed /\ c \in Listed' => SortKey(walk.sort, c)' = SortKey(walk.sort, c)
           /\ c \in Listed' <=> n > 0
           /\ c \in Listed <=> reports[c] > 0
<1>1. /\ reports'[c] = n /\ score'[c] = s /\ walk' = walk
      /\ \A d \in Companies \ {c} : reports'[d] = reports[d] /\ score'[d] = score[d]
      /\ changes' = changes \cup Kind(c, n, s)
      /\ n \in Int /\ reports[c] \in Int
  BY ChangeFacts
<1>2. \A d \in Companies \ {c} : /\ SortKey(walk.sort, d)' = SortKey(walk.sort, d)
                                 /\ d \in Listed' <=> d \in Listed
  BY <1>1 DEF SortKey, Listed
<1>3. (c \in Listed' <=> n > 0) /\ (c \in Listed <=> reports[c] > 0)
  BY <1>1 DEF Listed
<1>4. ASSUME n > 0, reports[c] > 0
      PROVE  SortKey(walk.sort, c)' = SortKey(walk.sort, c)
  <2>1. Kind(c, n, s) = IF \/ walk.sort = "reports_desc" /\ n # reports[c]
                           \/ walk.sort \in {"score_desc", "score_asc"} /\ s # score[c]
                        THEN {"moved"} ELSE {}
    BY <1>1, <1>4 DEF Kind
  <2>2. /\ walk.sort = "reports_desc" => n = reports[c]
        /\ walk.sort \in {"score_desc", "score_asc"} => s = score[c]
    BY <1>1, <2>1
  <2>3. CASE walk.sort = "reports_desc"
    BY <1>1, <2>2, <2>3 DEF SortKey
  <2>4. CASE walk.sort \in {"score_desc", "score_asc"}
    BY <1>1, <2>2, <2>4 DEF SortKey
  <2>5. CASE walk.sort \in {"name_asc", "name_desc"}
    BY <1>1, <2>5 DEF SortKey
  <2> QED
    BY <2>3, <2>4, <2>5 DEF Inv, Walk, Sorts
<1> QED
  BY <1>2, <1>3, <1>4

\* What the kinds of a change say.
LEMMA KindSays ==
    ASSUME Inv, NEW c \in Companies, NEW n \in Reports, NEW s \in Scores, Change(c, n, s)
    PROVE  /\ Kind(c, n, s) \subseteq {"joined", "slipped", "left", "moved"}
           /\ reports[c] <= 0 /\ n > 0 =>
                 IF walk.pc = "fetch" THEN "slipped" \in changes' ELSE "joined" \in changes'
           /\ reports[c] > 0 /\ n <= 0 => "left" \in changes'
<1>1. n \in Int /\ reports[c] \in Int /\ changes' = changes \cup Kind(c, n, s)
  BY ChangeFacts
<1>2. CASE reports[c] <= 0 /\ n > 0
  <2>1. Kind(c, n, s) = {IF walk.pc = "fetch" THEN "slipped" ELSE "joined"}
    BY <1>1, <1>2 DEF Kind, At
  <2> QED
    BY <1>1, <1>2, <2>1
<1>3. CASE reports[c] > 0 /\ n <= 0
  <2>1. Kind(c, n, s) = {"left"}
    BY <1>1, <1>3 DEF Kind
  <2> QED
    BY <1>1, <1>3, <2>1
<1>4. CASE reports[c] > 0 /\ n > 0
  <2>1. Kind(c, n, s) \subseteq {"moved"}
    BY <1>1, <1>4 DEF Kind
  <2> QED
    BY <1>1, <1>4, <2>1
<1>5. CASE reports[c] <= 0 /\ n <= 0
  <2>1. Kind(c, n, s) = {}
    BY <1>1, <1>5 DEF Kind
  <2> QED
    BY <1>1, <1>5, <2>1
<1> QED
  BY <1>1, <1>2, <1>3, <1>4, <1>5

\* While companies only leave, nobody's rank grows; while they only join, nobody's
\* falls.
LEMMA LeavingRanks ==
    ASSUME Inv, NEW c \in Companies, NEW n \in Reports, NEW s \in Scores, Change(c, n, s),
           changes' \subseteq {"left"}
    PROVE  /\ changes \subseteq {"left"}
           /\ Listed' \subseteq Listed
           /\ \A d \in Listed' : Rank(d)' <= Rank(d)
<1>1. changes \subseteq {"left"} /\ walk' = walk
  BY ChangeFacts
<1>2. Listed' \subseteq Listed /\ \A d \in Listed' : SortKey(walk.sort, d)' = SortKey(walk.sort, d)
  <2>1. ~(reports[c] <= 0 /\ n > 0)
    BY KindSays
  <2>2. c \in Listed' => c \in Listed
    BY <2>1, KeysStay, ChangeFacts
  <2>3. Listed' \subseteq Companies
    BY DEF Listed
  <2> QED
    BY <2>2, <2>3, KeysStay
<1>3. ASSUME NEW d \in Listed'
      PROVE  Rank(d)' <= Rank(d)
  <2>1. Before(d)' \subseteq Before(d)
    BY <1>1, <1>2 DEF Before
  <2> QED
    BY <2>1, RankType, FS_Subset DEF Rank
<1> QED
  BY <1>1, <1>2, <1>3

LEMMA JoiningRanks ==
    ASSUME Inv, NEW c \in Companies, NEW n \in Reports, NEW s \in Scores, Change(c, n, s),
           changes' \subseteq {"joined"}
    PROVE  /\ changes \subseteq {"joined"}
           /\ Listed \subseteq Listed'
           /\ walk.pc = "fetch" => Listed' = Listed
           /\ \A d \in Listed : Rank(d) <= Rank(d)'
<1>1. changes \subseteq {"joined"} /\ walk' = walk
  BY ChangeFacts
<1>2. Listed \subseteq Listed' /\ \A d \in Listed : SortKey(walk.sort, d)' = SortKey(walk.sort, d)
  <2>1. ~(reports[c] > 0 /\ n <= 0)
    BY KindSays
  <2>2. c \in Listed => c \in Listed'
    BY <2>1, KeysStay, ChangeFacts
  <2> QED
    BY <2>2, ListedFinite, KeysStay
<1>3. ASSUME walk.pc = "fetch"
      PROVE  Listed' = Listed
  <2>1. ~(reports[c] <= 0 /\ n > 0)
    BY <1>3, KindSays
  <2>2. c \in Listed' => c \in Listed
    BY <2>1, KeysStay, ChangeFacts
  <2>3. Listed' \subseteq Companies
    BY DEF Listed
  <2>4. Listed' \subseteq Listed
    BY <2>2, <2>3, KeysStay
  <2> QED
    BY <1>2, <2>4
<1>4. ASSUME NEW d \in Listed
      PROVE  Rank(d) <= Rank(d)'
  <2>1. Before(d) \subseteq Before(d)'
    BY <1>1, <1>2 DEF Before
  <2>2. IsFiniteSet(Before(d)')
    <3>1. Before(d)' \subseteq Companies
      BY DEF Before, Listed
    <3> QED
      BY <3>1, FS_Subset, DirectoryAssumption
  <2> QED
    BY <2>1, <2>2, FS_Subset DEF Rank
<1> QED
  BY <1>1, <1>2, <1>3, <1>4

\* A company that another change took from the listing has not stayed; the others
\* keep their side of the pages shown.
LEMMA ChangeInv ==
    ASSUME Inv, NEW c \in Companies, NEW n \in Reports, NEW s \in Scores, Change(c, n, s)
    PROVE  Inv'
<1>1. /\ reports' \in [Companies -> Reports] /\ score' \in [Companies -> Scores]
      /\ changes' = changes \cup Kind(c, n, s)
      /\ stayed' = stayed \cap Listed'
      /\ walk' = walk /\ tied' = tied
  BY ChangeFacts
<1>2. Shown' = Shown /\ Seen' = Seen /\ Shown \in Nat
  BY <1>1, ShownType DEF Shown, Seen, At
<1>3. changes' \subseteq {"joined", "slipped", "left", "moved"}
  BY <1>1, KindSays DEF Inv
<1>4. NoneAhead'
  <2>1. SUFFICES ASSUME changes' \subseteq {"left"}, ~tied
                 PROVE  /\ IsInjective(walk.shown)
                        /\ \A d \in Seen \cap Listed' : Rank(d)' <= Shown
    BY <1>1, <1>2 DEF NoneAhead
  <2>2. /\ changes \subseteq {"left"} /\ Listed' \subseteq Listed
        /\ \A d \in Listed' : Rank(d)' <= Rank(d)
    BY <2>1, LeavingRanks
  <2>3. /\ IsInjective(walk.shown)
        /\ \A d \in Seen \cap Listed : Rank(d) <= Shown
    BY <2>1, <2>2 DEF Inv, NoneAhead
  <2>4. ASSUME NEW d \in Seen \cap Listed'
        PROVE  Rank(d)' <= Shown
    <3>1. Rank(d)' <= Rank(d) /\ Rank(d) <= Shown
      BY <2>2, <2>3, <2>4
    <3>2. Rank(d) \in Nat /\ Rank(d)' \in Nat
      BY RankType, NextRankType
    <3> QED
      BY <1>2, <3>1, <3>2
  <2> QED
    BY <2>3, <2>4
<1>5. NoneBehind'
  <2>1. SUFFICES ASSUME changes' \subseteq {"joined"}, ~tied
                 PROVE  /\ \A d \in stayed' : d \in Seen \/ Rank(d)' > Shown
                        /\ At({"fetch"}) =>
                              Cardinality(Listed') <= Offset(walk.pages + 1, walk.perPage)
                        /\ At({"answered"}) /\ walk.page >= walk.pages => stayed' \subseteq Seen
                        /\ At({"over"}) => stayed' \subseteq Seen
    BY <1>1, <1>2 DEF NoneBehind, At
  <2>2. /\ changes \subseteq {"joined"} /\ Listed \subseteq Listed'
        /\ walk.pc = "fetch" => Listed' = Listed
        /\ \A d \in Listed : Rank(d) <= Rank(d)'
    BY <2>1, JoiningRanks
  <2>3. /\ \A d \in stayed : d \in Seen \/ Rank(d) > Shown
        /\ At({"fetch"}) => Cardinality(Listed) <= Offset(walk.pages + 1, walk.perPage)
        /\ At({"answered"}) /\ walk.page >= walk.pages => stayed \subseteq Seen
        /\ At({"over"}) => stayed \subseteq Seen
    BY <2>1, <2>2 DEF Inv, NoneBehind
  <2>4. stayed' \subseteq stayed /\ stayed \subseteq Listed
    BY <1>1 DEF Inv
  <2>5. ASSUME NEW d \in stayed', d \notin Seen
        PROVE  Rank(d)' > Shown
    <3>1. Rank(d) <= Rank(d)' /\ Rank(d) > Shown
      BY <2>2, <2>3, <2>4, <2>5
    <3>2. Rank(d) \in Nat /\ Rank(d)' \in Nat
      BY RankType, NextRankType
    <3> QED
      BY <1>2, <3>1, <3>2
  <2>6. At({"fetch"}) => Cardinality(Listed') <= Offset(walk.pages + 1, walk.perPage)
    BY <2>2, <2>3 DEF At
  <2> QED
    BY <2>3, <2>4, <2>5, <2>6
<1> QED
  BY <1>1, <1>3, <1>4, <1>5 DEF Inv

-----------------------------------------------------------------------------
(* The rows of a page *)

\* A page adds listed companies; without ties those at its positions.
LEMMA FetchFacts ==
    ASSUME Inv, Fetch
    PROVE  /\ walk.pc = "fetch" /\ walk'.pc = "answered" /\ walk' \in Walk
           /\ walk'.sort = walk.sort /\ walk'.perPage = walk.perPage
           /\ walk'.page = walk.page /\ walk'.pages = walk.pages
           /\ UNCHANGED <<reports, score, changes, stayed>>
           /\ tied' \in BOOLEAN /\ (~tied' => ~tied /\ ~Ties)
           /\ Shown \in Nat /\ Shown' = Shown + walk.perPage /\ walk.perPage \in Nat \ {0}
           /\ Seen \subseteq Seen'
           /\ \E rows \in Seq(Listed) :
                 /\ walk'.shown = walk.shown \o rows
                 /\ \A d \in Seen' : d \in Seen \/ \E i \in 1 .. Len(rows) : d = rows[i]
                 /\ \A i \in 1 .. Len(rows) : rows[i] \in Seen'
                 /\ \A i, j \in 1 .. Len(rows) : i # j => rows[i] # rows[j]
                 /\ ~Ties => /\ \A i \in 1 .. Len(rows) : Shown < Rank(rows[i])
                                                       /\ Rank(rows[i]) <= Shown'
                             /\ \A d \in Listed : Shown < Rank(d) /\ Rank(d) <= Shown' =>
                                   \E i \in 1 .. Len(rows) : d = rows[i]
<1>1. PICK listing \in Listings(walk.sort) :
         walk' = [walk EXCEPT !.pc = "answered",
                              !.shown = @ \o Rows(listing, walk.page, walk.perPage)]
  BY DEF Fetch
<1>2. /\ walk.pc = "fetch" /\ walk \in Walk
      /\ UNCHANGED <<reports, score, changes, stayed>>
  BY DEF Fetch, At, Inv
<1>3. tied' \in BOOLEAN /\ (~tied' => ~tied /\ ~Ties)
  <2>1. tied' = (tied \/ Ties) /\ tied \in BOOLEAN
    BY DEF Fetch, Inv
  <2>2. Ties \in BOOLEAN
    BY DEF Ties
  <2> QED
    BY <2>1, <2>2, Zenon
<1>4. walk.page \in Nat \ {0} /\ walk.perPage \in Nat \ {0}
  <2>1. walk.page \in Nat \ {0} /\ walk.perPage \in PerPages
    BY <1>2 DEF Walk
  <2> QED
    BY <2>1, DirectoryAssumption, Zenon
<1> DEFINE N == Cardinality(Listed)
           off == Offset(walk.page, walk.perPage)
<1>5. N \in Nat /\ Listed \subseteq Companies
  BY ListedFinite
<1>6. /\ listing \in [1 .. N -> Listed]
      /\ \A i, j \in 1 .. N : i # j => listing[i] # listing[j]
      /\ \A c \in Listed : \E i \in 1 .. N : listing[i] = c
  BY ListingIs
<1>7. PICK m \in Nat :
         /\ off \in Nat
         /\ Rows(listing, walk.page, walk.perPage) \in [1 .. m -> Listed]
         /\ \A i \in 1 .. m : Rows(listing, walk.page, walk.perPage)[i] = listing[off + i]
         /\ \A i \in 1 .. m : off + i \in 1 .. N /\ OnPage(off + i, walk.page, walk.perPage)
         /\ \A j \in 1 .. N : OnPage(j, walk.page, walk.perPage) => \E i \in 1 .. m : j = off + i
  <2>1. listing \in [1 .. N -> Listed] /\ N \in Nat
    BY <1>5, <1>6
  <2> HIDE DEF N
  <2>2. RowsOfPage(N, Listed, listing, walk.page, walk.perPage)
    BY <1>4, <2>1, RowsAre, Zenon
  <2> QED
    BY <2>2 DEF RowsOfPage
<1>8. \A j : OnPage(j, walk.page, walk.perPage) <=> off < j /\ j <= off + walk.perPage
  BY DEF OnPage
<1>9. PICK rows : rows = Rows(listing, walk.page, walk.perPage)
  OBVIOUS
<1>10. /\ rows \in Seq(Listed) /\ Len(rows) = m
       /\ \A i \in 1 .. m : rows[i] = listing[off + i]
  <2>1. rows \in [1 .. m -> Listed] /\ \A i \in 1 .. m : rows[i] = listing[off + i]
    BY <1>7, <1>9
  <2> QED
    BY <2>1
<1>11. walk.shown \in Seq(Companies) /\ rows \in Seq(Companies)
  BY <1>2, <1>5, <1>10 DEF Walk
<1>12. /\ walk'.pc = "answered" /\ walk' \in Walk /\ walk'.shown = walk.shown \o rows
       /\ walk'.sort = walk.sort /\ walk'.perPage = walk.perPage
       /\ walk'.page = walk.page /\ walk'.pages = walk.pages
  <2>1. walk' = [walk EXCEPT !.pc = "answered", !.shown = walk.shown \o rows]
    BY <1>1, <1>7, <1>9
  <2>2. walk.shown \o rows \in Seq(Companies)
    BY <1>11
  <2> QED
    BY <1>2, <2>1, <2>2 DEF Walk
<1>13. Shown = off /\ Shown' = off + walk.perPage /\ off \in Nat
  <2>1. Shown = off
    BY <1>2 DEF Shown, At
  <2>2. Shown' = Offset(walk.page + 1, walk.perPage)
    BY <1>12 DEF Shown, At
  <2>3. Offset(walk.page + 1, walk.perPage) = off + walk.perPage
    BY <1>4, OffsetGrows
  <2> QED
    BY <1>7, <2>1, <2>2, <2>3
<1> HIDE DEF off, N
<1>14. /\ \A d \in Seen' : d \in Seen \/ \E i \in 1 .. Len(rows) : d = rows[i]
       /\ \A i \in 1 .. Len(rows) : rows[i] \in Seen'
       /\ Seen \subseteq Seen'
  <2>1. /\ DOMAIN (walk.shown \o rows) = 1 .. Len(walk.shown) + Len(rows)
        /\ \A i \in 1 .. Len(walk.shown) : (walk.shown \o rows)[i] = walk.shown[i]
        /\ \A i \in 1 .. Len(rows) : (walk.shown \o rows)[Len(walk.shown) + i] = rows[i]
        /\ \A k \in 1 .. Len(walk.shown) + Len(rows) :
              k \in 1 .. Len(walk.shown) \/ k - Len(walk.shown) \in 1 .. Len(rows)
        /\ DOMAIN walk.shown = 1 .. Len(walk.shown)
        /\ Len(walk.shown) \in Nat /\ Len(rows) \in Nat
    BY <1>11
  <2>2. Seen' = {(walk.shown \o rows)[k] : k \in 1 .. Len(walk.shown) + Len(rows)}
    BY <1>12, <2>1 DEF Seen, Range
  <2>3. Seen = {walk.shown[k] : k \in 1 .. Len(walk.shown)}
    BY <2>1 DEF Seen, Range
  <2>4. ASSUME NEW k \in 1 .. Len(walk.shown) + Len(rows)
        PROVE  \/ (walk.shown \o rows)[k] \in Seen
               \/ \E i \in 1 .. Len(rows) : (walk.shown \o rows)[k] = rows[i]
    <3>1. CASE k \in 1 .. Len(walk.shown)
      BY <2>1, <2>3, <3>1
    <3>2. CASE k - Len(walk.shown) \in 1 .. Len(rows)
      <4>1. k = Len(walk.shown) + (k - Len(walk.shown))
        BY <2>1
      <4> QED
        BY <2>1, <3>2, <4>1
    <3> QED
      BY <2>1, <3>1, <3>2
  <2>5. ASSUME NEW i \in 1 .. Len(rows)
        PROVE  rows[i] \in Seen'
    <3>1. Len(walk.shown) + i \in 1 .. Len(walk.shown) + Len(rows)
      BY <2>1
    <3> QED
      BY <2>1, <2>2, <3>1
  <2>6. Seen \subseteq Seen'
    <3>1. \A k \in 1 .. Len(walk.shown) : k \in 1 .. Len(walk.shown) + Len(rows)
      BY <2>1
    <3> QED
      BY <2>1, <2>2, <2>3, <3>1
  <2> QED
    BY <2>2, <2>4, <2>5, <2>6
<1>15. \A i, j \in 1 .. Len(rows) : i # j => rows[i] # rows[j]
  <2>1. ASSUME NEW i \in 1 .. m, NEW j \in 1 .. m, i # j
        PROVE  rows[i] # rows[j]
    <3>1. off + i # off + j
      BY <1>13, <2>1
    <3>2. off + i \in 1 .. N /\ off + j \in 1 .. N
      BY <1>7, Zenon DEF off, N
    <3>3. \A k, l \in 1 .. N : k # l => listing[k] # listing[l]
      BY <1>6 DEF N
    <3>4. listing[off + i] # listing[off + j]
      BY <3>1, <3>2, <3>3
    <3> QED
      BY <1>10, <3>4
  <2> QED
    BY <1>10, <2>1
<1>16. ASSUME ~Ties
       PROVE  /\ \A i \in 1 .. Len(rows) : Shown < Rank(rows[i]) /\ Rank(rows[i]) <= Shown'
              /\ \A d \in Listed : Shown < Rank(d) /\ Rank(d) <= Shown' =>
                    \E i \in 1 .. Len(rows) : d = rows[i]
  <2>1. \A j \in 1 .. N : Rank(listing[j]) = j
    BY <1>16, RankIsPosition DEF N
  <2>2. ASSUME NEW i \in 1 .. m
        PROVE  Shown < Rank(rows[i]) /\ Rank(rows[i]) <= Shown'
    <3>1. off + i \in 1 .. N /\ OnPage(off + i, walk.page, walk.perPage)
      BY <1>7 DEF off, N
    <3> QED
      BY <1>8, <1>10, <1>13, <2>1, <3>1
  <2>3. ASSUME NEW d \in Listed, Shown < Rank(d), Rank(d) <= Shown'
        PROVE  \E i \in 1 .. m : d = rows[i]
    <3>1. PICK j \in 1 .. N : listing[j] = d
      BY <1>6 DEF N
    <3>2. OnPage(j, walk.page, walk.perPage)
      BY <1>8, <1>13, <2>1, <2>3, <3>1
    <3>3. PICK i \in 1 .. m : j = off + i
      BY <1>7, <3>2 DEF off, N
    <3> QED
      BY <1>10, <3>1, <3>3
  <2> QED
    BY <1>10, <2>2, <2>3
<1> QED
  BY <1>2, <1>3, <1>4, <1>10, <1>12, <1>13, <1>14, <1>15, <1>16

\* A page is behind what was shown and before what was not.
LEMMA FetchInv ==
    ASSUME Inv, Fetch
    PROVE  Inv'
<1>1. /\ walk.pc = "fetch" /\ walk'.pc = "answered" /\ walk' \in Walk
      /\ walk'.sort = walk.sort /\ walk'.perPage = walk.perPage
      /\ walk'.page = walk.page /\ walk'.pages = walk.pages
      /\ UNCHANGED <<reports, score, changes, stayed>>
      /\ tied' \in BOOLEAN
      /\ Shown \in Nat /\ Shown' = Shown + walk.perPage /\ walk.perPage \in Nat \ {0}
      /\ Seen \subseteq Seen'
  BY FetchFacts
<1>2. ~tied' => ~tied /\ ~Ties
  BY FetchFacts, Zenon
<1>3. PICK rows \in Seq(Listed) :
         /\ walk'.shown = walk.shown \o rows
         /\ \A d \in Seen' : d \in Seen \/ \E i \in 1 .. Len(rows) : d = rows[i]
         /\ \A i \in 1 .. Len(rows) : rows[i] \in Seen'
         /\ \A i, j \in 1 .. Len(rows) : i # j => rows[i] # rows[j]
         /\ ~Ties => /\ \A i \in 1 .. Len(rows) : Shown < Rank(rows[i])
                                               /\ Rank(rows[i]) <= Shown'
                     /\ \A d \in Listed : Shown < Rank(d) /\ Rank(d) <= Shown' =>
                           \E i \in 1 .. Len(rows) : d = rows[i]
  BY FetchFacts
<1>4. Listed' = Listed /\ \A c : Rank(c)' = Rank(c)
  BY <1>1, SameRanks
<1>5. walk.shown \in Seq(Companies) /\ rows \in Seq(Companies) /\ Listed \subseteq Companies
  <2>1. walk.shown \in Seq(Companies) /\ Listed \subseteq Companies
    BY ListedFinite DEF Inv, Walk
  <2> QED
    BY <2>1
<1>6. NoneAhead'
  <2>1. SUFFICES ASSUME changes \subseteq {"left"}, ~tied'
                 PROVE  /\ IsInjective(walk'.shown)
                        /\ \A d \in Seen' \cap Listed : Rank(d) <= Shown'
    BY <1>1, <1>4 DEF NoneAhead
  <2>2. ~tied /\ ~Ties
    BY <1>2, <2>1
  <2>3. IsInjective(walk.shown) /\ \A d \in Seen \cap Listed : Rank(d) <= Shown
    BY <2>1, <2>2 DEF Inv, NoneAhead
  <2>4. \A i \in 1 .. Len(rows) : Shown < Rank(rows[i]) /\ Rank(rows[i]) <= Shown'
    BY <1>3, <2>2
  <2>5. ASSUME NEW d \in Seen', d \in Listed
        PROVE  Rank(d) <= Shown'
    <3>1. CASE d \in Seen
      <4>1. Rank(d) <= Shown /\ Rank(d) \in Nat
        BY <2>3, <2>5, <3>1, RankType
      <4> QED
        BY <1>1, <4>1
    <3>2. CASE \E i \in 1 .. Len(rows) : d = rows[i]
      BY <2>4, <3>2
    <3> QED
      BY <1>3, <3>1, <3>2
  <2>6. ASSUME NEW k \in 1 .. Len(walk.shown), NEW i \in 1 .. Len(rows)
        PROVE  walk.shown[k] # rows[i]
    <3>1. SUFFICES ASSUME walk.shown[k] = rows[i] PROVE FALSE
      OBVIOUS
    <3>2. walk.shown[k] \in Seen
      BY <1>5 DEF Seen, Range
    <3>3. rows[i] \in Listed
      BY <1>3
    <3>4. Rank(rows[i]) <= Shown /\ Shown < Rank(rows[i]) /\ Rank(rows[i]) \in Nat
      BY <2>3, <2>4, <3>1, <3>2, <3>3, RankType
    <3> QED
      BY <1>1, <3>4
  <2>7. IsInjective(walk'.shown)
    <3>1. /\ IsInjective(walk.shown)
          /\ \A i, j \in 1 .. Len(rows) : i # j => rows[i] # rows[j]
          /\ \A k \in 1 .. Len(walk.shown), i \in 1 .. Len(rows) : walk.shown[k] # rows[i]
      BY <1>3, <2>3, <2>6
    <3>2. IsInjective(walk.shown \o rows)
      BY <1>5, <3>1, JoinedInjective
    <3> QED
      BY <1>3, <3>2
  <2> QED
    BY <2>5, <2>7
<1>7. NoneBehind'
  <2>1. SUFFICES ASSUME changes \subseteq {"joined"}, ~tied'
                 PROVE  /\ \A c \in stayed : c \in Seen' \/ Rank(c) > Shown'
                        /\ walk.page >= walk.pages => stayed \subseteq Seen'
    BY <1>1, <1>4 DEF NoneBehind, At
  <2>2. ~tied /\ ~Ties
    BY <1>2, <2>1
  <2>3. /\ \A c \in stayed : c \in Seen \/ Rank(c) > Shown
        /\ Cardinality(Listed) <= Offset(walk.pages + 1, walk.perPage)
        /\ stayed \subseteq Listed
    BY <1>1, <2>1, <2>2 DEF Inv, NoneBehind, At
  <2>4. \A d \in Listed : Shown < Rank(d) /\ Rank(d) <= Shown' => d \in Seen'
    BY <1>3, <2>2
  <2>5. ASSUME NEW c \in stayed
        PROVE  c \in Seen' \/ Rank(c) > Shown'
    <3>1. Rank(c) \in Nat
      BY RankType
    <3>2. c \in Seen \/ Rank(c) > Shown
      BY <2>3
    <3>3. c \in Listed
      BY <2>3
    <3> QED
      BY <1>1, <2>4, <3>1, <3>2, <3>3
  <2>6. ASSUME walk.page >= walk.pages, NEW c \in stayed
        PROVE  c \in Seen'
    <3>1. walk.page \in Nat \ {0} /\ walk.pages \in Nat \ {0}
      BY DEF Inv, Walk
    <3>2. Offset(walk.pages + 1, walk.perPage) <= Offset(walk.page + 1, walk.perPage)
      BY <1>1, <2>6, <3>1, OffsetMonotone
    <3>3. Shown' = Offset(walk.page + 1, walk.perPage)
      BY <1>1 DEF Shown, At
    <3>4. Offset(walk.pages + 1, walk.perPage) \in Nat
      <4>1. walk.pages + 1 \in Nat \ {0}
        BY <3>1
      <4> QED
        BY <1>1, <4>1, PageStarts
    <3>5. Rank(c) \in Nat /\ Rank(c) <= Cardinality(Listed) /\ Cardinality(Listed) \in Nat
      BY RankType, ListedFinite
    <3>6. Rank(c) <= Shown'
      BY <1>1, <2>3, <3>2, <3>3, <3>4, <3>5
    <3> QED
      BY <1>1, <2>5, <3>5, <3>6
  <2> QED
    BY <2>5, <2>6
<1> QED
  BY <1>1, <1>4, <1>6, <1>7 DEF Inv

-----------------------------------------------------------------------------
(* The theorems *)

LEMMA InitInv == Init => Inv
<1>1. SUFFICES ASSUME Init PROVE Inv
  OBVIOUS
<1>2. /\ reports \in [Companies -> Reports] /\ score \in [Companies -> Scores]
      /\ changes = {} /\ stayed = {} /\ tied = FALSE
  BY <1>1 DEF Init
<1>3. PICK sort \in Sorts, perPage \in PerPages :
         walk = [pc |-> "start", sort |-> sort, perPage |-> perPage,
                 page |-> 1, pages |-> 1, shown |-> <<>>]
  BY <1>1 DEF Init
<1>4. walk \in Walk /\ walk.pc = "start" /\ walk.shown = <<>>
  BY <1>3 DEF Walk
<1>5. NoneAhead
  BY <1>4 DEF NoneAhead, Seen, Range, IsInjective
<1>6. NoneBehind
  BY <1>2, <1>4 DEF NoneBehind, At
<1> QED
  BY <1>2, <1>4, <1>5, <1>6 DEF Inv

LEMMA StutterInv ==
    ASSUME Inv, UNCHANGED vars
    PROVE  Inv'
<1>1. UNCHANGED <<reports, score, walk, changes, stayed, tied>>
  BY DEF vars, history
<1>2. Listed' = Listed /\ \A c : Rank(c)' = Rank(c)
  BY <1>1, SameRanks
<1>3. Shown' = Shown /\ Seen' = Seen
  BY <1>1 DEF Shown, Seen, At
<1>4. NoneAhead' /\ NoneBehind'
  BY <1>1, <1>2, <1>3 DEF Inv, NoneAhead, NoneBehind, At
<1> QED
  BY <1>1, <1>2, <1>4 DEF Inv

\* Inv is inductive, for any number of companies, values, page sizes and changes.
THEOREM Invariance == Spec => []Inv
<1>1. Init => Inv
  BY InitInv
<1>2. Inv /\ [Next]_vars => Inv'
  <2> SUFFICES ASSUME Inv, [Next]_vars PROVE Inv'
    OBVIOUS
  <2>1. CASE \E sort \in Sorts, perPage \in PerPages : Begin(sort, perPage)
    BY <2>1, BeginInv
  <2>2. CASE Count
    BY <2>2, CountInv
  <2>3. CASE Fetch
    BY <2>3, FetchInv
  <2>4. CASE NextPage
    BY <2>4, NextPageInv
  <2>5. CASE \E c \in Companies, n \in Reports, s \in Scores : Change(c, n, s)
    BY <2>5, ChangeInv
  <2>6. CASE UNCHANGED vars
    BY <2>6, StutterInv
  <2> QED
    BY <2>1, <2>2, <2>3, <2>4, <2>5, <2>6 DEF Next
<1> QED
  BY <1>1, <1>2, PTL DEF Spec

\* Companies, counts, scores and what the client holds keep their types.
THEOREM TypeCorrect == Spec => []TypeOK
<1>1. Inv => TypeOK
  <2> SUFFICES ASSUME Inv PROVE TypeOK
    OBVIOUS
  <2>1. walk \in Walk
    BY DEF Inv
  <2>2. Range(walk.shown) \subseteq Companies
    BY <2>1 DEF Walk, Range
  <2>3. stayed \subseteq Companies
    BY ListedFinite DEF Inv
  <2>4. /\ walk.pc \in {"start", "count", "fetch", "answered", "over"}
        /\ {walk.page, walk.pages} \subseteq Nat \ {0}
        /\ walk.sort \in Sorts /\ walk.perPage \in PerPages
    BY <2>1 DEF Walk
  <2> QED
    BY <2>2, <2>3, <2>4 DEF Inv, TypeOK
<1> QED
  BY <1>1, Invariance, PTL

\* Whatever leaves the listing between two pages, or between total and rows, no
\* company is shown twice: a page starts at the position behind everything that was
\* shown.
THEOREM NothingIsShownTwice == Spec => []NothingTwice
<1>1. Inv => NothingTwice
  BY DEF Inv, NoneAhead, NothingTwice
<1> QED
  BY <1>1, Invariance, PTL

\* Whatever joins the listing before the total of a page is taken, a client that
\* walks to the last page has seen every company that was listed throughout.
THEOREM NothingIsMissed == Spec => []NothingMissed
<1>1. Inv => NothingMissed
  BY DEF Inv, NoneBehind, NothingMissed
<1> QED
  BY <1>1, Invariance, PTL
=============================================================================
