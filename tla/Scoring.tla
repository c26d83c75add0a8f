------------------------------ MODULE Scoring ------------------------------
(***************************************************************************)
(* enricher/company_score.py over the tables of Ledger: the score of a     *)
(* company as the subqueries of recalculate_company_score build it, and    *)
(* the properties that its docstring gives the score.                      *)
(***************************************************************************)
EXTENDS Ledger, FiniteSetsExt

(***************************************************************************)
(* The statement, one operator per subquery.  A row carries the report it  *)
(* was grouped by, so that two groups with equal sums stay two rows.       *)
(***************************************************************************)
\* Fault: the claims of every company are summed.
ParentVotes_AllCompanies(c) ==
    {[report_id |-> r, vote_sum |-> Tally(votes[r])] : r \in {s \in ReportIds : TopLevel(s)}}

ParentVotes(c) ==
    {[report_id |-> r, vote_sum |-> Tally(votes[r])] :
        r \in {s \in ReportIds : TopLevel(s) /\ reports[s].company = c}}

SubVotes(c) ==
    {[report_id |-> s, parent_id |-> reports[s].parent, sub_vote_sum |-> Tally(votes[s])] :
        s \in {r \in ReportIds : Exists(r) /\ ~TopLevel(r) /\ reports[r].company = c}}

\* SUM(CASE WHEN sub_vote_sum > 0 THEN sub_vote_sum ELSE 0 END)
Positive(n) == IF n > 0 THEN n ELSE 0

\* Fault: unsuccessful challenges count as well (no CASE).
SubPenalty_Signed(c) ==
    LET subs == SubVotes(c)
    IN  {[parent_id |-> p,
          penalty   |-> MapThenSumSet(LAMBDA s : s.sub_vote_sum,
                                      {s \in subs : s.parent_id = p})] :
            p \in {s.parent_id : s \in subs}}

SubPenalty(c) ==
    LET subs == SubVotes(c)
    IN  {[parent_id |-> p,
          penalty   |-> MapThenSumSet(LAMBDA s : Positive(s.sub_vote_sum),
                                      {s \in subs : s.parent_id = p})] :
            p \in {s.parent_id : s \in subs}}

\* Fault: an inner join drops the claims without a challenge.
Joined_Inner(c) ==
    UNION {{[report_id |-> p.report_id, weight |-> p.vote_sum - x.penalty] :
               x \in {y \in SubPenalty(c) : y.parent_id = p.report_id}} :
           p \in ParentVotes(c)}

\* Fault: the penalty is added.
Joined_Added(c) ==
    LET penalties == SubPenalty(c)
        matches(p) == {x.penalty : x \in {y \in penalties : y.parent_id = p.report_id}}
    IN  UNION {{[report_id |-> p.report_id, weight |-> p.vote_sum + n] :
                    n \in IF matches(p) = {} THEN {0} ELSE matches(p)} :
                p \in ParentVotes(c)}

\* parent_votes LEFT JOIN sub_penalty, one joined row per match.
Joined(c) ==
    LET penalties == SubPenalty(c)
        matches(p) == {x.penalty : x \in {y \in penalties : y.parent_id = p.report_id}}
    IN  UNION {{[report_id |-> p.report_id, weight |-> p.vote_sum - n] :
                    n \in IF matches(p) = {} THEN {0} ELSE matches(p)} :
                p \in ParentVotes(c)}

\* COUNT(report_id) and SUM(vote_sum - COALESCE(penalty, 0))
TopLevelReportCount(c) == Cardinality(Joined(c))
RawScore(c) == MapThenSumSet(LAMBDA row : row.weight, Joined(c))

\* Fault: abs() is left out.
ScoreDen_Signed(raw) == raw + 5

\* normalize_ethical_score as a fraction: 100 * raw / (abs(raw) + 5).  For raw = 0
\* the function returns 0.0, which the fraction gives as well.
Magnitude(x) == IF x < 0 THEN -x ELSE x
ScoreNum(raw) == 100 * raw
ScoreDen(raw) == Magnitude(raw) + 5

-----------------------------------------------------------------------------
(* Properties *)

\* The sum of vote_sum over the claims, less the positive vote_sums of the
\* challenges: both columns are the denormalised ones, which the API shows.
ShownWeight(c) ==
    LET of(P(_)) == {r \in ReportIds : Exists(r) /\ reports[r].company = c /\ P(r)}
    IN  MapThenSumSet(LAMBDA r : reports[r].vote_sum, of(LAMBDA r : TopLevel(r)))
        - MapThenSumSet(LAMBDA r : Positive(reports[r].vote_sum), of(LAMBDA r : ~TopLevel(r)))

\* The joins neither lose nor repeat a claim or a challenge: the raw score, which
\* the statement computes from votes, is what a reader of the company's page gets
\* by hand from the vote sums shown, and the count is the number of claims.
ScoreIsShownWeight ==
    \A c \in Companies :
        /\ RawScore(c) = ShownWeight(c)
        /\ TopLevelReportCount(c) =
              Cardinality({r \in ReportIds : TopLevel(r) /\ reports[r].company = c})

\* Companies are ranked by the displayed score as by the raw one, and the
\* displayed score stays strictly between -100 and 100 (docstring of
\* normalize_ethical_score).  The fractions are compared crosswise.
ScoreBelow(x, y) == ScoreNum(x) * ScoreDen(y) < ScoreNum(y) * ScoreDen(x)

RankingPreserved ==
    \A c, d \in Companies :
        /\ RawScore(c) < RawScore(d) => ScoreBelow(RawScore(c), RawScore(d))
        /\ Magnitude(ScoreNum(RawScore(c))) < 100 * ScoreDen(RawScore(c))

\* "First few votes have a strong impact": but no single vote moves the raw
\* score by more than 2, or that of another company at all.
OneVoteOneStep ==
    [][\A r \in ReportIds, u \in Users :
          Exists(r) /\ Exists(r)' /\ votes'[r][u] # votes[r][u] =>
              \A c \in Companies :
                  LET moved == Magnitude(RawScore(c)' - RawScore(c))
                  IN  moved <= IF c = reports[r].company THEN 2 ELSE 0]_ledger

\* A challenge can only take away: an ethical vote that is cast on one, or an
\* unethical one withdrawn from it, never raises the score of the company.
ChallengesOnlySubtract ==
    [][\A r \in ReportIds, u \in Users, c \in Companies :
          /\ Exists(r) /\ ~TopLevel(r) /\ reports[r].company = c
          /\ Exists(r)' /\ votes'[r][u] > votes[r][u]
          => RawScore(c)' <= RawScore(c)]_ledger

\* Withdrawing a claim takes its effective weight, votes and penalty together,
\* out of the score: what its challenges had cost is not left behind.
PenaltyOn(r) == MapThenSumSet(LAMBDA s : Positive(Tally(votes[s])), Challenges(r))

WithdrawalIsClean ==
    [][\A r \in ReportIds, c \in Companies :
          TopLevel(r) /\ reports[r].company = c /\ ~Exists(r)' =>
              RawScore(c)' = RawScore(c) - (Tally(votes[r]) - PenaltyOn(r))]_ledger

-----------------------------------------------------------------------------
(* The inductive invariant behind these properties *)

LedgerTypeOK ==
    /\ reports \in [ReportIds -> Row \cup {NULL}]
    /\ votes \in [ReportIds -> Ballot]

\* A challenge has a claim about the same company: sub_penalty gives no row that
\* finds no partner in the join.
ChallengesHaveClaims ==
    \A r \in ReportIds, p \in ReportIds : Exists(r) /\ reports[r].parent = p =>
        TopLevel(p) /\ reports[p].company = reports[r].company

\* The vote sums are the tallies, and no vote outlives its report.
VotesHaveReports ==
    \A r \in ReportIds : IF Exists(r) THEN reports[r].vote_sum = Tally(votes[r])
                                     ELSE votes[r] = NoVotes

ScoringInv ==
    /\ LedgerTypeOK /\ ChallengesHaveClaims
    /\ IsFiniteSet(Standing)
    /\ VotesHaveReports
=============================================================================
