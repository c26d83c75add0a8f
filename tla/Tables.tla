------------------------------- MODULE Tables -------------------------------
(***************************************************************************)
(* The rows of the reports and votes tables, as app/models declares them,  *)
(* and the arithmetic of a ballot.                                         *)
(***************************************************************************)
EXTENDS Integers, FiniteSets

CONSTANTS
    Users,          \* users.id of the accounts that may act
    Companies,      \* companies.id
    ReportIds,      \* values of the reports.id sequence
    Texts,          \* text and sources of a report, as one opaque value
    NULL            \* SQL NULL: a missing row, no parent

\* models/report.py.  depth is 0 exactly when parent_id is NULL (CheckConstraint
\* valid_parent_depth), so it is not kept apart.
Row == [company  : Companies,
        user     : Users,
        parent   : ReportIds \cup {NULL},
        text     : Texts,
        vote_sum : Int]

ASSUME TablesAssumption ==
    /\ IsFiniteSet(Users)
    /\ NULL \notin Users
    /\ NULL \notin Companies
    /\ NULL \notin ReportIds
    /\ NULL \notin Texts
    /\ NULL \notin Row

\* VoteRequest.value after the handler's own check: pydantic lets 0 through,
\* vote_on_report answers 400 to it before it touches the database.
Value == {1, -1}

\* The votes on one report: UNIQUE (report_id, user_id) and value IN (1, -1)
\* make it a function of the user, with 0 for "no row".
Ballot == [Users -> Value \cup {0}]

NoVotes == [u \in Users |-> 0]

\* func.count().filter(Vote.value == 1) and func.count().filter(Vote.value == -1)
Ethical(b)   == {u \in Users : b[u] = 1}
Unethical(b) == {u \in Users : b[u] = -1}

\* SUM(votes.value) over the ballot, 0 when there is no row.
Tally(b) == Cardinality(Ethical(b)) - Cardinality(Unethical(b))

\* Fault: the difference to the old vote is stored in place of the new vote.
Toggle_Difference(existing, value) == IF existing = value THEN 0 ELSE value - existing

\* What vote_on_report leaves in the voter's row: nothing when the same value
\* is voted again, the new value otherwise.
Toggle(existing, value) == IF existing = value THEN 0 ELSE value

\* Fault: a flipped vote counts as a new one.
Delta_FlipAsNew(existing, value) == IF existing = value THEN -value ELSE value

\* The amount vote_on_report adds to reports.vote_sum in the same transaction.
Delta(existing, value) ==
    CASE existing = 0                     -> value
      [] existing # 0 /\ existing = value -> -value
      [] existing # 0 /\ existing # value -> 2 * value
=============================================================================
