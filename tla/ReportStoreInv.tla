-------------------------- MODULE ReportStoreInv ---------------------------
(***************************************************************************)
(* The inductive invariant behind the safety properties of ReportStore:    *)
(* what the row locks that a request holds, and the stage it has reached,  *)
(* say about the committed rows.                                           *)
(***************************************************************************)
EXTENDS ReportStore

\* What a handler has in its hands at each stage.
StageOK ==
    \A q \in Requests :
        LET t == tx[q] IN
        /\ At(q, {"create_insert", "create_bump", "create_commit"}) =>
              t.company \in Companies /\ t.user \in Users /\ t.text \in Texts
        /\ At(q, {"create_bump"}) => t.parent = NULL
        /\ At(q, {"create_bump", "create_commit"}) => t.report \in ReportIds
        /\ At(q, {"edit_flush", "edit_commit"}) => t.report \in ReportIds /\ t.text \in Texts
        /\ At(q, {"vote_read", "vote_flush", "vote_commit"}) =>
              t.report \in ReportIds /\ t.user \in Users /\ t.value \in Value
        /\ At(q, {"delete_subs", "delete_sub_votes", "delete_sub_reports", "delete_sub_check",
                  "delete_votes", "delete_report", "delete_check", "delete_bump",
                  "delete_commit"}) => t.report \in ReportIds /\ t.company \in Companies

\* Ids come from the sequence, and a new one is known to its request only.
DrawnOnce ==
    /\ \A r \in ReportIds : Exists(r) => r \in used
    /\ \A q \in Requests : {tx[q].report, tx[q].parent} \subseteq used \cup {NULL}
    /\ \A q \in Requests : At(q, {"create_bump", "create_commit"}) =>
          /\ ~Exists(tx[q].report)
          /\ tx[q].parent # tx[q].report
          /\ \A p \in Others(q) : tx[q].report \notin {tx[p].report, tx[p].parent}

\* A locked report is there, and FOR UPDATE excludes every other lock.
LocksHold ==
    /\ \A q \in Requests : \A r \in XLocks(q) \cup NLocks(q) \cup KLocks(q) : Exists(r)
    /\ \A q \in Requests : \A p \in Others(q) :
          XLocks(q) \cap (XLocks(p) \cup NLocks(p) \cup KLocks(p)) = {}

\* So with a vote that is being deleted or changed.
VoteLocksHold ==
    /\ \A q \in Requests : \A rv \in VoteLocks(q) : votes[rv[1]][rv[2]] # 0
    /\ \A q \in Requests : \A p \in Others(q) : VoteLocks(q) \cap VoteLocks(p) = {}

\* The votes that a delete_report has removed are those of reports that it has
\* removed or is about to.
Removing(q) ==
    CASE At(q, {"delete_sub_reports"}) -> tx[q].subs
      [] At(q, {"delete_report"})      -> tx[q].delR \cup {tx[q].report}
      [] At(q, {"delete_sub_check", "delete_votes", "delete_check", "delete_bump",
                "delete_commit"})      -> tx[q].delR
      [] OTHER                         -> {}

RemovalsMatch ==
    \A q \in Requests :
        /\ \A rv \in tx[q].delV : rv[1] \in Removing(q)
        /\ tx[q].delR # {} => At(q, {"delete_sub_check", "delete_votes", "delete_report",
                                     "delete_check", "delete_bump", "delete_commit"})

\* What the foreign keys found stays true until the commit.
ChecksStand ==
    \A q \in Requests : At(q, {"delete_bump", "delete_commit"}) => CheckPasses(q)

\* The parent a challenge was checked against does not turn into another one.
ParentsStand ==
    \A q \in Requests :
        LET p == tx[q].parent IN
        At(q, {"create_insert", "create_commit"}) /\ p # NULL /\ Exists(p) =>
            reports[p].parent = NULL /\ reports[p].company = tx[q].company

\* What delete_report has listed and removed is the report and its challenges: a
\* row never changes its parent, and an id that was listed never comes back.
Listing(q) == At(q, {"delete_sub_votes", "delete_sub_reports", "delete_sub_check",
                     "delete_votes", "delete_report", "delete_check", "delete_bump",
                     "delete_commit"})

DeletesWhole ==
    \A q \in Requests :
        /\ tx[q].subs # {} => Listing(q)
        /\ \A s \in tx[q].subs :
              /\ s \in used \ InFlight
              /\ Exists(s) => reports[s].parent = tx[q].report
        /\ tx[q].delR \subseteq tx[q].subs \cup {tx[q].report}
        /\ At(q, {"delete_check", "delete_bump", "delete_commit"}) =>
              tx[q].report \in tx[q].delR \/ ~Exists(tx[q].report)

\* The depth and the company that delete_report read when it began, and decides by
\* whether the company's count goes down, are those of the row until it is gone.
Deleting(q) == At(q, {"delete_subs"}) \/ Listing(q)

TargetStands ==
    \A q \in Requests : Deleting(q) /\ Exists(tx[q].report) =>
        /\ reports[tx[q].report].parent = tx[q].parent
        /\ reports[tx[q].report].company = tx[q].company

\* The inductive invariant: a request's statements, in whatever order others' run
\* between them, find the rows in the state that its locks and its earlier reads
\* say, which is why no handler of api/reports breaks what the tables promise.
Inv ==
    /\ TypeOK
    /\ StageOK
    /\ DrawnOnce
    /\ LocksHold
    /\ VoteLocksHold
    /\ VoteReadStable
    /\ RemovalsMatch
    /\ ChecksStand
    /\ ParentsStand
    /\ NothingDangles
    /\ VoteSumAgrees
=============================================================================
