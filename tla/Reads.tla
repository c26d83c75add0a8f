------------------------------- MODULE Reads -------------------------------
(***************************************************************************)
(* Answers that are put together from several statements: the counts that  *)
(* vote_on_report reads after its commit, the page of a company            *)
(* (get_company) and a user's profile (get_my_profile).                    *)
(*                                                                         *)
(* Each statement sees the tables as they are when it runs, and between    *)
(* two of them others vote, report and withdraw.  What others do is taken  *)
(* from Ledger, one step per request, which ReportStore implements.  A     *)
(* session reads one server; a replica goes through the same states as     *)
(* the primary, only later, so Ledger stands for the one that is read.     *)
(* Rows are sets of ids here; their order on the page is left out.         *)
(***************************************************************************)
EXTENDS Ledger

CONSTANTS
    Readers         \* slots for requests being answered at the same time

VARIABLES
    read,           \* reader -> state of its handler, and the answer so far
    stood,          \* history: reader -> reports that exist since it began
    kept            \* history: reader -> reports on which its user has not voted since

vars == <<ledger, read, stood, kept>>

Stage == {"idle",
          "vote_counts", "vote_own", "vote_done",
          "page_claims", "page_votes", "page_subs", "page_sub_votes", "page_done",
          "profile_claims", "profile_challenges", "profile_done"}

Counts == [ethical : Nat, unethical : Nat]

NoCounts == [ethical |-> 0, unethical |-> 0]

Reader == [pc      : Stage,
           user    : Users \cup {NULL},         \* NULL: a guest
           company : Companies \cup {NULL},
           cast    : ReportIds \cup {NULL},     \* the report that was voted on
           claims  : SUBSET ReportIds,          \* rows, and the ids of the next statement
           subs    : SUBSET ReportIds,          \* sub_rows, challenge_rows
           counts  : [ReportIds -> Counts],
           own     : [ReportIds -> Value \cup {0}]]     \* user_vote

Idle == [pc |-> "idle", user |-> NULL, company |-> NULL, cast |-> NULL,
         claims |-> {}, subs |-> {},
         counts |-> [r \in ReportIds |-> NoCounts],
         own |-> [r \in ReportIds |-> 0]]

At(q, stages) == read[q].pc \in stages

-----------------------------------------------------------------------------
(* What a statement returns *)

\* Fault: the sum of the votes for their number.
CountsOf_Sums(r) == [ethical |-> Tally(votes[r]), unethical |-> -Tally(votes[r])]

\* count(*) FILTER (WHERE value = 1), count(*) FILTER (WHERE value = -1)
CountsOf(r) == [ethical |-> Cardinality(Ethical(votes[r])),
                unethical |-> Cardinality(Unethical(votes[r]))]

\* The counts of a statement's rows, added to those of the statements before.
Counted(q, rows) ==
    [r \in ReportIds |-> IF r \in rows THEN CountsOf(r) ELSE read[q].counts[r]]

\* SELECT report_id, value FROM votes WHERE user_id = ... AND report_id IN rows
Voted(q, rows) ==
    [r \in ReportIds |-> IF r \in rows THEN votes[r][read[q].user] ELSE read[q].own[r]]

\* Fault: claims without a vote are lost, as an inner join would.
ClaimsOf_Inner(c) == {r \in ReportIds : TopLevel(r) /\ reports[r].company = c /\ votes[r] # NoVotes}

\* Reports at depth 0 about the company, each with its votes or none.
ClaimsOf(c) == {r \in ReportIds : TopLevel(r) /\ reports[r].company = c}

\* Reports at depth 1 about the company whose parent is one of the ids.
SubsOf(c, ids) ==
    {s \in ReportIds : Exists(s) /\ reports[s].company = c /\ reports[s].parent \in ids}

\* Fault: only challenges to the user's own claims.
Challenged_Own(u) ==
    {s \in ReportIds : /\ Exists(s) /\ reports[s].user = u /\ reports[s].parent # NULL
                       /\ reports[reports[s].parent].user = u}

\* A user's reports at depth 0, and those at depth 1.
Claimed(u)    == {r \in ReportIds : TopLevel(r) /\ reports[r].user = u}
Challenged(u) == {s \in ReportIds : Exists(s) /\ reports[s].user = u /\ reports[s].parent # NULL}

-----------------------------------------------------------------------------
Untouched == UNCHANGED ledger

\* The history of a reader begins with its request.
Watch(q) ==
    /\ stood' = [stood EXCEPT ![q] = Standing]
    /\ kept' = [kept EXCEPT ![q] = ReportIds]

Advance(q, next) ==
    /\ read' = [read EXCEPT ![q] = next]
    /\ Untouched
    /\ UNCHANGED <<stood, kept>>

\* What a mutation of the tables does to the histories.
Witness(voter, r) ==
    /\ stood' = [q \in Readers |-> stood[q] \cap Standing']
    /\ kept' = [q \in Readers |->
                  IF read[q].user = voter /\ voter # NULL THEN kept[q] \ {r} ELSE kept[q]]

(***************************************************************************)
(* vote_on_report from its commit on.  The session begins a transaction    *)
(* anew for each statement's view.                                         *)
(***************************************************************************)
\* Fault: the counts are read in front of the commit.
Vote_CountsFirst(q, u, r, v) ==
    /\ At(q, {"idle"})
    /\ CastVote(r, u, v)
    /\ read' = [read EXCEPT ![q] =
                  [Idle EXCEPT !.pc = "vote_own", !.user = u, !.cast = r, !.claims = {r},
                               !.counts = [Idle.counts EXCEPT ![r] = CountsOf(r)]]]
    /\ stood' = [stood EXCEPT ![q] = Standing]
    /\ kept' = [p \in Readers |->
                  IF p = q THEN ReportIds
                  ELSE IF read[p].user = u THEN kept[p] \ {r} ELSE kept[p]]

Vote(q, u, r, v) ==
    /\ At(q, {"idle"})
    /\ CastVote(r, u, v)
    /\ read' = [read EXCEPT ![q] =
                  [Idle EXCEPT !.pc = "vote_counts", !.user = u, !.cast = r, !.claims = {r}]]
    /\ stood' = [stood EXCEPT ![q] = Standing]
    /\ kept' = [p \in Readers |->
                  IF p = q THEN ReportIds
                  ELSE IF read[p].user = u THEN kept[p] \ {r} ELSE kept[p]]

\* The counts of the report's votes, 0 and 0 if it has been withdrawn meanwhile.
VoteCounts(q) ==
    /\ At(q, {"vote_counts"})
    /\ Advance(q, [read[q] EXCEPT !.pc = "vote_own", !.counts = Counted(q, {read[q].cast})])

VoteOwn(q) ==
    /\ At(q, {"vote_own"})
    /\ Advance(q, [read[q] EXCEPT !.pc = "vote_done", !.own = Voted(q, {read[q].cast})])

(***************************************************************************)
(* get_company, after a miss of the cache.  The company exists.            *)
(***************************************************************************)
PageGet(q, u, c) ==
    /\ At(q, {"idle"})
    /\ read' = [read EXCEPT ![q] =
                  [Idle EXCEPT !.pc = "page_claims", !.user = u, !.company = c]]
    /\ Untouched
    /\ Watch(q)

\* Without claims no further statement is sent, without a user none for votes.
PageClaims(q) ==
    LET ids == ClaimsOf(read[q].company)
    IN  /\ At(q, {"page_claims"})
        /\ Advance(q, [read[q] EXCEPT
              !.pc = IF ids = {} THEN "page_done"
                     ELSE IF read[q].user = NULL THEN "page_subs" ELSE "page_votes",
              !.claims = ids,
              !.counts = Counted(q, ids)])

PageVotes(q) ==
    /\ At(q, {"page_votes"})
    /\ Advance(q, [read[q] EXCEPT !.pc = "page_subs", !.own = Voted(q, read[q].claims)])

PageSubs(q) ==
    LET ids == SubsOf(read[q].company, read[q].claims)
    IN  /\ At(q, {"page_subs"})
        /\ Advance(q, [read[q] EXCEPT
              !.pc = IF ids = {} \/ read[q].user = NULL THEN "page_done" ELSE "page_sub_votes",
              !.subs = ids,
              !.counts = Counted(q, ids)])

PageSubVotes(q) ==
    /\ At(q, {"page_sub_votes"})
    /\ Advance(q, [read[q] EXCEPT !.pc = "page_done", !.own = Voted(q, read[q].subs)])

(***************************************************************************)
(* get_my_profile.  The user exists; both lists carry their lengths.       *)
(***************************************************************************)
ProfileGet(q, u) ==
    /\ At(q, {"idle"})
    /\ read' = [read EXCEPT ![q] = [Idle EXCEPT !.pc = "profile_claims", !.user = u]]
    /\ Untouched
    /\ Watch(q)

ProfileClaims(q) ==
    /\ At(q, {"profile_claims"})
    /\ Advance(q, [read[q] EXCEPT !.pc = "profile_challenges", !.claims = Claimed(read[q].user)])

ProfileChallenges(q) ==
    /\ At(q, {"profile_challenges"})
    /\ Advance(q, [read[q] EXCEPT !.pc = "profile_done", !.subs = Challenged(read[q].user)])

\* The answer is sent, or the request is lost on its way there.
Respond(q) ==
    /\ ~At(q, {"idle"})
    /\ read' = [read EXCEPT ![q] = Idle]
    /\ stood' = [stood EXCEPT ![q] = {}]
    /\ kept' = [kept EXCEPT ![q] = {}]
    /\ Untouched

-----------------------------------------------------------------------------
Init ==
    /\ LedgerInit
    /\ read = [q \in Readers |-> Idle]
    /\ stood = [q \in Readers |-> {}]
    /\ kept = [q \in Readers |-> {}]

Arrive(q) ==
    \/ \E r \in ReportIds, u \in Users, v \in Value : Vote(q, u, r, v)
    \/ \E c \in Companies, u \in Users \cup {NULL} : PageGet(q, u, c)
    \/ \E u \in Users : ProfileGet(q, u)

Step(q) ==
    \/ VoteCounts(q) \/ VoteOwn(q)
    \/ PageClaims(q) \/ PageVotes(q) \/ PageSubs(q) \/ PageSubVotes(q)
    \/ ProfileClaims(q) \/ ProfileChallenges(q)
    \/ Respond(q)

\* Others' requests, whose own answers are not followed here.
Elsewhere ==
    \E r \in ReportIds :
        \/ /\ \/ \E c \in Companies, u \in Users, p \in ReportIds \cup {NULL}, t \in Texts :
                    Submit(r, c, u, p, t)
              \/ \E t \in Texts : Amend(r, t)
              \/ Withdraw(r)
              \/ Burn(r)
           /\ Witness(NULL, r)
           /\ UNCHANGED read
        \/ \E u \in Users, v \in Value : CastVote(r, u, v) /\ Witness(u, r) /\ UNCHANGED read

Next == Elsewhere \/ \E q \in Readers : Arrive(q) \/ Step(q)

Spec == Init /\ [][Next]_vars

-----------------------------------------------------------------------------
(* Properties *)

TypeOK ==
    /\ reports \in [ReportIds -> Row \cup {NULL}]
    /\ votes \in [ReportIds -> Ballot]
    /\ retired \subseteq ReportIds
    /\ read \in [Readers -> Reader]
    /\ stood \in [Readers -> SUBSET ReportIds]
    /\ kept \in [Readers -> SUBSET ReportIds]

Shown(q) == read[q].claims \cup read[q].subs

\* Every report about the company that stands during the whole request is on its
\* page, whatever is submitted, voted on, challenged or withdrawn between the
\* statements: a challenge whose claim is not asked for any more does not stand.
PageIsComplete ==
    \A q \in Readers : At(q, {"page_done"}) =>
        \A r \in stood[q] : reports[r].company = read[q].company => r \in Shown(q)

\* The same of a user's reports and the profile.
ProfileIsComplete ==
    \A q \in Readers : At(q, {"profile_done"}) =>
        \A r \in stood[q] : reports[r].user = read[q].user => r \in Shown(q)

\* The counts and the user's own vote come from different statements, and still
\* fit each other unless the report goes or the user votes on it in between.
OwnVoteIsCounted ==
    \A q \in Readers : At(q, {"vote_done", "page_done"}) /\ read[q].user # NULL =>
        \A r \in Shown(q) \cap stood[q] \cap kept[q] :
            LET vote == read[q].own[r]
            IN  /\ vote = votes[r][read[q].user]
                /\ vote = 1 => read[q].counts[r].ethical > 0
                /\ vote = -1 => read[q].counts[r].unethical > 0

-----------------------------------------------------------------------------
(* The inductive invariant behind these properties *)

\* A challenge has a claim about the same company, and stands no longer than it.
FamiliesHold ==
    /\ \A r \in Standing, p \in ReportIds : reports[r].parent = p =>
          TopLevel(p) /\ reports[p].company = reports[r].company
    /\ \A q \in Readers :
          /\ stood[q] \subseteq Standing
          /\ \A r \in stood[q], p \in ReportIds : reports[r].parent = p => p \in stood[q]

\* The rows a reader has by the stage it is at.
RowsGathered(q) ==
    /\ At(q, {"vote_counts", "vote_own", "page_votes", "page_sub_votes"}) => read[q].user # NULL
    /\ At(q, {"vote_counts", "vote_own"}) => read[q].claims = {read[q].cast}
    /\ At(q, {"vote_counts", "vote_own", "vote_done", "page_claims", "page_votes", "page_subs"}) =>
          read[q].subs = {}
    /\ At(q, {"page_votes", "page_subs", "page_sub_votes", "page_done"}) =>
          \A r \in stood[q] :
              TopLevel(r) /\ reports[r].company = read[q].company => r \in read[q].claims
    /\ At(q, {"page_sub_votes", "page_done"}) =>
          \A r \in stood[q] :
              ~TopLevel(r) /\ reports[r].company = read[q].company => r \in read[q].subs
    /\ At(q, {"profile_challenges", "profile_done"}) =>
          \A r \in stood[q] :
              TopLevel(r) /\ reports[r].user = read[q].user => r \in read[q].claims
    /\ At(q, {"profile_done"}) =>
          \A r \in stood[q] :
              ~TopLevel(r) /\ reports[r].user = read[q].user => r \in read[q].subs

\* A count in the answer has room for the vote that the reader's user has now.
Includes(counts, vote) ==
    /\ vote = 1 => counts.ethical > 0
    /\ vote = -1 => counts.unethical > 0

\* The counts and votes it has by then.
VotesGathered(q) ==
    read[q].user # NULL =>
        \A r \in stood[q] \cap kept[q] :
            LET vote == votes[r][read[q].user]
            IN  /\ /\ At(q, {"vote_own", "vote_done",
                             "page_votes", "page_subs", "page_sub_votes", "page_done"})
                   /\ r \in Shown(q)
                   => Includes(read[q].counts[r], vote)
                /\ \/ /\ At(q, {"vote_done", "page_subs", "page_sub_votes", "page_done"})
                      /\ r \in read[q].claims
                   \/ /\ At(q, {"page_done"})
                      /\ r \in read[q].subs
                   => read[q].own[r] = vote

\* It holds in every reachable state and implies the invariants above.
Inv ==
    /\ TypeOK /\ FamiliesHold
    /\ \A q \in Readers : RowsGathered(q) /\ VotesGathered(q)
=============================================================================
