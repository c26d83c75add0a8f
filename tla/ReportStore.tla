---------------------------- MODULE ReportStore ----------------------------
(***************************************************************************)
(* The mutating handlers of app/api/reports.py, statement by statement.    *)
(*                                                                         *)
(* Each request is a coroutine with a database session of its own; every   *)
(* await hands control to other requests, of this pod or of another.       *)
(* PostgreSQL runs the transactions at READ COMMITTED: a statement sees    *)
(* what was committed when it ran, plus the writes of its own transaction, *)
(* and a write waits for the row locks of others.  reports, votes and      *)
(* count are what is committed; tx[q] is what request q has read and       *)
(* written so far, and its row locks follow from how far it has come.      *)
(* The part of a handler after its commit is in other modules: it writes   *)
(* nothing here.                                                           *)
(***************************************************************************)
EXTENDS Tables

CONSTANTS
    Requests,       \* slots for requests being served at the same time
    MaxPerUser      \* requests one user may have in flight

ASSUME StoreAssumption == MaxPerUser \in Nat

VARIABLES
    reports,        \* id -> committed row, or NULL
    votes,          \* id -> committed ballot
    count,          \* company -> companies.top_level_report_count
    used,           \* ids drawn from the reports.id sequence
    tx              \* request -> state of its handler and transaction

vars == <<reports, votes, count, used, tx>>

Stage ==
    {"idle",
     "create_insert", "create_bump", "create_commit",
     "edit_flush", "edit_commit",
     "vote_read", "vote_flush", "vote_commit",
     "delete_subs", "delete_sub_votes", "delete_sub_reports", "delete_sub_check",
     "delete_votes", "delete_report", "delete_check", "delete_bump", "delete_commit"}

Tx == [pc      : Stage,                     \* the statement to run next
       user    : Users \cup {NULL},         \* get_current_user_id
       report  : ReportIds \cup {NULL},     \* target, or the id being inserted
       company : Companies \cup {NULL},
       parent  : ReportIds \cup {NULL},
       text    : Texts \cup {NULL},
       value   : Value \cup {0},            \* payload.value
       seen    : Value \cup {0},            \* the vote read as `existing`
       subs    : SUBSET ReportIds,          \* sub_ids
       delV    : SUBSET (ReportIds \X Users),  \* votes deleted, not committed
       delR    : SUBSET ReportIds]          \* reports deleted, not committed

Idle == [pc |-> "idle", user |-> NULL, report |-> NULL, company |-> NULL,
         parent |-> NULL, text |-> NULL, value |-> 0, seen |-> 0,
         subs |-> {}, delV |-> {}, delR |-> {}]

Exists(r) == reports[r] # NULL

-----------------------------------------------------------------------------
(* Row locks *)

At(q, stages) == tx[q].pc \in stages

\* FOR UPDATE (SELECT ... FOR UPDATE, DELETE): conflicts with every row lock.
XLocks(q) ==
    tx[q].delR \cup
    IF At(q, {"vote_read", "vote_flush", "vote_commit"}) THEN {tx[q].report} ELSE {}

\* FOR NO KEY UPDATE (UPDATE of text): conflicts with the above and with itself.
NLocks(q) == IF At(q, {"edit_commit"}) THEN {tx[q].report} ELSE {}

\* FOR KEY SHARE (foreign key check of an INSERT): conflicts with FOR UPDATE.
KLocks(q) ==
    IF At(q, {"create_commit"}) /\ tx[q].parent # NULL THEN {tx[q].parent} ELSE {}

\* Rows of votes that were deleted or changed but not committed.  A row that is
\* only inserted is invisible to others, so nobody waits for it.
VoteLocks(q) ==
    tx[q].delV \cup
    IF At(q, {"vote_commit"}) /\ tx[q].seen # 0
    THEN {<<tx[q].report, tx[q].user>>} ELSE {}

\* The row of companies that an uncommitted UPDATE of the count has locked.
CompanyLocked(q, c) ==
    /\ At(q, {"create_commit", "delete_commit"})
    /\ tx[q].parent = NULL
    /\ tx[q].company = c

Others(q) == Requests \ {q}

FreeForX(q, r) == \A p \in Others(q) : r \notin XLocks(p) \cup NLocks(p) \cup KLocks(p)
FreeForN(q, r) == \A p \in Others(q) : r \notin XLocks(p) \cup NLocks(p)
FreeForK(q, r) == \A p \in Others(q) : r \notin XLocks(p)
VoteFree(q, r, u) == \A p \in Others(q) : <<r, u>> \notin VoteLocks(p)
CompanyFree(q, c) == \A p \in Others(q) : ~CompanyLocked(p, c)

\* Votes and challenges that still reference a row q has deleted: the NO ACTION
\* foreign keys votes.report_id and reports.parent_id look for them after the
\* DELETE, and wait for a row that another transaction has locked.
DanglingVotes(q) ==
    {rv \in tx[q].delR \X Users : votes[rv[1]][rv[2]] # 0} \ tx[q].delV
DanglingReports(q) ==
    {s \in ReportIds \ tx[q].delR : Exists(s) /\ reports[s].parent \in tx[q].delR}

CheckPasses(q) == DanglingVotes(q) = {} /\ DanglingReports(q) = {}
CheckFails(q) ==
    \/ \E rv \in DanglingVotes(q) : VoteFree(q, rv[1], rv[2])
    \/ \E s \in DanglingReports(q) : FreeForK(q, s)

-----------------------------------------------------------------------------
Goto(q, stage) == tx' = [tx EXCEPT ![q].pc = stage]

MayStart(q, u) ==
    /\ At(q, {"idle"})
    /\ Cardinality({p \in Requests : tx[p].user = u}) < MaxPerUser

\* A bound of the model: every create that starts finds an id to draw.
IdsLeft == Cardinality(ReportIds \ used) >
               Cardinality({p \in Requests : At(p, {"create_insert"})})

Unwritten == UNCHANGED <<reports, votes, count, used>>

\* Fault: the parent's company is not compared with the challenge's.
CreateGet_AnyCompany(q, u, c, p, t) ==
    /\ MayStart(q, u)
    /\ IdsLeft
    /\ p # NULL => Exists(p) /\ reports[p].parent = NULL
    /\ tx' = [tx EXCEPT ![q] = [Idle EXCEPT !.pc = "create_insert", !.user = u,
                                !.company = c, !.parent = p, !.text = t]]
    /\ Unwritten

(***************************************************************************)
(* create_report.  The company exists (none is ever deleted; an unknown id *)
(* is answered 404 and changes nothing), and so does the parent, if one is *)
(* named, when the handler looks.                                          *)
(***************************************************************************)
CreateGet(q, u, c, p, t) ==
    /\ MayStart(q, u)
    /\ IdsLeft
    /\ p # NULL => /\ Exists(p)
                   /\ reports[p].parent = NULL         \* parent.depth = 0
                   /\ reports[p].company = c
    /\ tx' = [tx EXCEPT ![q] = [Idle EXCEPT !.pc = "create_insert", !.user = u,
                                !.company = c, !.parent = p, !.text = t]]
    /\ Unwritten

\* The flush draws an id and inserts the row; the foreign key on parent_id
\* needs the parent to be there still and locks it.
CreateInsert(q) ==
    LET p == tx[q].parent
    IN  /\ At(q, {"create_insert"})
        /\ p # NULL => Exists(p) /\ FreeForK(q, p)
        /\ \E r \in ReportIds \ used :
              /\ used' = used \cup {r}
              /\ tx' = [tx EXCEPT ![q].report = r,
                                  ![q].pc = IF p = NULL THEN "create_bump"
                                            ELSE "create_commit"]
        /\ UNCHANGED <<reports, votes, count>>

\* UPDATE companies SET top_level_report_count = top_level_report_count + 1
CreateBump(q) ==
    /\ At(q, {"create_bump"})
    /\ CompanyFree(q, tx[q].company)
    /\ Goto(q, "create_commit")
    /\ Unwritten

CreateCommit(q) ==
    LET t == tx[q]
    IN  /\ At(q, {"create_commit"})
        /\ reports' = [reports EXCEPT ![t.report] =
                          [company |-> t.company, user |-> t.user, parent |-> t.parent,
                           text |-> t.text, vote_sum |-> 0]]
        /\ count' = IF t.parent = NULL THEN [count EXCEPT ![t.company] = @ + 1]
                    ELSE count
        /\ tx' = [tx EXCEPT ![q] = Idle]
        /\ UNCHANGED <<votes, used>>

(***************************************************************************)
(* update_report, by the author.  Writing back the text that is there      *)
(* already issues no UPDATE and changes nothing.                           *)
(***************************************************************************)
EditGet(q, u, r, t) ==
    /\ MayStart(q, u)
    /\ Exists(r) /\ reports[r].user = u /\ reports[r].text # t
    /\ tx' = [tx EXCEPT ![q] = [Idle EXCEPT !.pc = "edit_flush", !.user = u,
                                !.report = r, !.text = t]]
    /\ Unwritten

EditFlush(q) ==
    /\ At(q, {"edit_flush"})
    /\ Exists(tx[q].report) /\ FreeForN(q, tx[q].report)
    /\ Goto(q, "edit_commit")
    /\ Unwritten

EditCommit(q) ==
    /\ At(q, {"edit_commit"})
    /\ reports' = [reports EXCEPT ![tx[q].report].text = tx[q].text]
    /\ tx' = [tx EXCEPT ![q] = Idle]
    /\ UNCHANGED <<votes, count, used>>

(***************************************************************************)
(* vote_on_report                                                          *)
(***************************************************************************)
\* Fault: session.get without with_for_update does not wait for other voters.
VoteGet_NoWait(q, u, r, v) ==
    /\ MayStart(q, u)
    /\ Exists(r)
    /\ tx' = [tx EXCEPT ![q] = [Idle EXCEPT !.pc = "vote_read", !.user = u,
                                !.report = r, !.value = v]]
    /\ Unwritten

\* session.get(Report, report_id, with_for_update=True)
VoteGet(q, u, r, v) ==
    /\ MayStart(q, u)
    /\ Exists(r) /\ FreeForX(q, r)
    /\ tx' = [tx EXCEPT ![q] = [Idle EXCEPT !.pc = "vote_read", !.user = u,
                                !.report = r, !.value = v]]
    /\ Unwritten

\* SELECT ... FROM votes WHERE report_id = ... AND user_id = ...
VoteRead(q) ==
    /\ At(q, {"vote_read"})
    /\ tx' = [tx EXCEPT ![q].pc = "vote_flush",
                        ![q].seen = votes[tx[q].report][tx[q].user]]
    /\ Unwritten

\* DELETE, UPDATE or INSERT of the voter's row, then the UPDATE of vote_sum,
\* whose row this transaction has locked since VoteGet.
VoteFlush(q) ==
    /\ At(q, {"vote_flush"})
    /\ tx[q].seen # 0 => VoteFree(q, tx[q].report, tx[q].user)
    /\ Goto(q, "vote_commit")
    /\ Unwritten

VoteCommit(q) ==
    LET t == tx[q]
    IN  /\ At(q, {"vote_commit"})
        /\ votes' = [votes EXCEPT ![t.report][t.user] = Toggle(t.seen, t.value)]
        /\ reports' = [reports EXCEPT ![t.report].vote_sum = @ + Delta(t.seen, t.value)]
        /\ tx' = [tx EXCEPT ![q] = Idle]
        /\ UNCHANGED <<count, used>>

(***************************************************************************)
(* delete_report, by the author.  session.get takes no lock.               *)
(***************************************************************************)
DeleteGet(q, u, r) ==
    /\ MayStart(q, u)
    /\ Exists(r) /\ reports[r].user = u
    /\ tx' = [tx EXCEPT ![q] =
                [Idle EXCEPT !.pc = IF reports[r].parent = NULL THEN "delete_subs"
                                    ELSE "delete_votes",
                             !.user = u, !.report = r,
                             !.company = reports[r].company,
                             !.parent = reports[r].parent]]
    /\ Unwritten

\* sub_ids = SELECT id FROM reports WHERE parent_id = report_id
DeleteSubs(q) ==
    /\ At(q, {"delete_subs"})
    /\ LET subs == {s \in ReportIds : Exists(s) /\ reports[s].parent = tx[q].report}
       IN  tx' = [tx EXCEPT ![q].subs = subs,
                            ![q].pc = IF subs = {} THEN "delete_votes"
                                      ELSE "delete_sub_votes"]
    /\ Unwritten

\* DELETE FROM votes WHERE report_id IN S
DropVotes(q, S, next) ==
    LET gone == {rv \in S \X Users : votes[rv[1]][rv[2]] # 0}
    IN  /\ \A rv \in gone : VoteFree(q, rv[1], rv[2])
        /\ tx' = [tx EXCEPT ![q].delV = @ \cup gone, ![q].pc = next]
        /\ Unwritten

\* DELETE FROM reports WHERE id IN S.  Rows that are gone already are not an
\* error: the bulk DELETE ignores them, the unit of work only warns.
DropReports(q, S, next) ==
    LET there == {s \in S : Exists(s)}
    IN  /\ \A s \in there : FreeForX(q, s)
        /\ tx' = [tx EXCEPT ![q].delR = @ \cup there, ![q].pc = next]
        /\ Unwritten

DeleteSubVotes(q) ==
    At(q, {"delete_sub_votes"}) /\ DropVotes(q, tx[q].subs, "delete_sub_reports")

DeleteSubReports(q) ==
    At(q, {"delete_sub_reports"}) /\ DropReports(q, tx[q].subs, "delete_sub_check")

DeleteSubCheck(q) ==
    At(q, {"delete_sub_check"}) /\ CheckPasses(q) /\ Goto(q, "delete_votes") /\ Unwritten

DeleteVotes(q) ==
    At(q, {"delete_votes"}) /\ DropVotes(q, {tx[q].report}, "delete_report")

DeleteReport(q) ==
    At(q, {"delete_report"}) /\ DropReports(q, {tx[q].report}, "delete_check")

\* Fault: reports are deleted without regard to what still references them.
DeleteCheck_Unchecked(q) ==
    /\ At(q, {"delete_check"})
    /\ Goto(q, IF tx[q].parent = NULL THEN "delete_bump" ELSE "delete_commit")
    /\ Unwritten

DeleteCheck(q) ==
    /\ At(q, {"delete_check"})
    /\ CheckPasses(q)
    /\ Goto(q, IF tx[q].parent = NULL THEN "delete_bump" ELSE "delete_commit")
    /\ Unwritten

\* UPDATE companies SET top_level_report_count = top_level_report_count - 1
DeleteBump(q) ==
    /\ At(q, {"delete_bump"})
    /\ CompanyFree(q, tx[q].company)
    /\ Goto(q, "delete_commit")
    /\ Unwritten

\* Fault: the count goes down for a challenge, too.
DeleteCommit_AnyDepth(q) ==
    LET t == tx[q]
    IN  /\ At(q, {"delete_commit"})
        /\ reports' = [r \in ReportIds |-> IF r \in t.delR THEN NULL ELSE reports[r]]
        /\ votes' = [r \in ReportIds |->
                       [u \in Users |-> IF <<r, u>> \in t.delV THEN 0 ELSE votes[r][u]]]
        /\ count' = [count EXCEPT ![t.company] = @ - 1]
        /\ tx' = [tx EXCEPT ![q] = Idle]
        /\ UNCHANGED used

DeleteCommit(q) ==
    LET t == tx[q]
    IN  /\ At(q, {"delete_commit"})
        /\ reports' = [r \in ReportIds |-> IF r \in t.delR THEN NULL ELSE reports[r]]
        /\ votes' = [r \in ReportIds |->
                       [u \in Users |-> IF <<r, u>> \in t.delV THEN 0 ELSE votes[r][u]]]
        /\ count' = IF t.parent = NULL THEN [count EXCEPT ![t.company] = @ - 1]
                    ELSE count
        /\ tx' = [tx EXCEPT ![q] = Idle]
        /\ UNCHANGED used

-----------------------------------------------------------------------------
(* Transactions that end without a commit *)

Rollback(q) == tx' = [tx EXCEPT ![q] = Idle] /\ Unwritten

\* Fault: an UPDATE that finds its row gone is tried again and again.
Refuse_KeepTrying(q) ==
    /\ \/ At(q, {"create_insert"}) /\ tx[q].parent # NULL /\ ~Exists(tx[q].parent)
       \/ At(q, {"delete_sub_check", "delete_check"}) /\ CheckFails(q)
    /\ Rollback(q)

\* The database or the unit of work refuses a statement: foreign key violation,
\* or StaleDataError for an UPDATE that matches no row.  The client gets a 500.
Refuse(q) ==
    /\ \/ At(q, {"create_insert"}) /\ tx[q].parent # NULL /\ ~Exists(tx[q].parent)
       \/ At(q, {"edit_flush"}) /\ ~Exists(tx[q].report)
       \/ At(q, {"delete_sub_check", "delete_check"}) /\ CheckFails(q)
    /\ Rollback(q)

\* The transaction is lost at any point: the pod dies, the connection breaks.
Abort(q) == ~At(q, {"idle"}) /\ Rollback(q)

\* The requests whose locks the next statement of q waits for.
WaitsFor(q) ==
    LET t == tx[q] IN
    {p \in Others(q) :
        \/ At(q, {"create_insert"}) /\ t.parent \in XLocks(p)
        \/ At(q, {"edit_flush"}) /\ t.report \in XLocks(p) \cup NLocks(p)
        \/ At(q, {"create_bump", "delete_bump"}) /\ CompanyLocked(p, t.company)
        \/ At(q, {"vote_flush"}) /\ t.seen # 0 /\ <<t.report, t.user>> \in VoteLocks(p)
        \/ At(q, {"delete_sub_votes"}) /\ \E rv \in VoteLocks(p) : rv[1] \in t.subs
        \/ At(q, {"delete_votes"}) /\ \E rv \in VoteLocks(p) : rv[1] = t.report
        \/ /\ At(q, {"delete_sub_reports"})
           /\ t.subs \cap (XLocks(p) \cup NLocks(p) \cup KLocks(p)) # {}
        \/ /\ At(q, {"delete_report"})
           /\ t.report \in XLocks(p) \cup NLocks(p) \cup KLocks(p)
        \/ /\ At(q, {"delete_sub_check", "delete_check"})
           /\ ~CheckFails(q)
           /\ \/ DanglingVotes(q) \cap VoteLocks(p) # {}
              \/ DanglingReports(q) \cap XLocks(p) # {}}

\* Requests that wait for one another in a circle.
Deadlocked ==
    UNION {S \in SUBSET Requests : \A q \in S : WaitsFor(q) \cap S # {}}

\* PostgreSQL's deadlock detector rolls one of them back.
Victim(q) == q \in Deadlocked /\ Rollback(q)

\* A request for a report that is not there is answered 404.
NotFound(r) == ~Exists(r) /\ UNCHANGED vars

-----------------------------------------------------------------------------
Init ==
    /\ reports = [r \in ReportIds |-> NULL]
    /\ votes = [r \in ReportIds |-> NoVotes]
    /\ count = [c \in Companies |-> 0]
    /\ used = {}
    /\ tx = [q \in Requests |-> Idle]

Arrive(q) ==
    \E u \in Users :
        \/ \E c \in Companies, p \in ReportIds \cup {NULL}, t \in Texts :
              CreateGet(q, u, c, p, t)
        \/ \E r \in ReportIds :
              \/ \E t \in Texts : EditGet(q, u, r, t)
              \/ \E v \in Value : VoteGet(q, u, r, v)
              \/ DeleteGet(q, u, r)

Step(q) ==
    \/ CreateInsert(q) \/ CreateBump(q) \/ CreateCommit(q)
    \/ EditFlush(q) \/ EditCommit(q)
    \/ VoteRead(q) \/ VoteFlush(q) \/ VoteCommit(q)
    \/ DeleteSubs(q) \/ DeleteSubVotes(q) \/ DeleteSubReports(q) \/ DeleteSubCheck(q)
    \/ DeleteVotes(q) \/ DeleteReport(q) \/ DeleteCheck(q)
    \/ DeleteBump(q) \/ DeleteCommit(q)
    \/ Refuse(q)

Next ==
    \/ \E q \in Requests : Arrive(q) \/ Step(q) \/ Abort(q) \/ Victim(q)
    \/ \E r \in ReportIds : NotFound(r)

Spec == Init /\ [][Next]_vars

\* The event loop and the database get to every request.  Waiters for a row are
\* queued by PostgreSQL, so one that could go on again and again does (SF);
\* requests need not arrive, and nothing has to break.
Fairness == \A q \in Requests : SF_vars(Step(q)) /\ WF_vars(Victim(q))

FairSpec == Spec /\ Fairness

-----------------------------------------------------------------------------
(* Properties *)

TypeOK ==
    /\ reports \in [ReportIds -> Row \cup {NULL}]
    /\ votes \in [ReportIds -> Ballot]
    /\ count \in [Companies -> Int]
    /\ used \subseteq ReportIds
    /\ tx \in [Requests -> Tx]

\* The denormalised reports.vote_sum, which vote_on_report only ever changes by
\* a difference, is at every moment the sum of the votes that are committed.
VoteSumAgrees ==
    \A r \in ReportIds : Exists(r) => reports[r].vote_sum = Tally(votes[r])

\* What vote_on_report read as the user's vote is still the committed one when
\* its writes, computed from it, go to the database.
VoteReadStable ==
    \A q \in Requests : At(q, {"vote_flush", "vote_commit"}) =>
        /\ Exists(tx[q].report)
        /\ votes[tx[q].report][tx[q].user] = tx[q].seen

\* delete_report leaves nothing hanging, whatever runs beside it: no vote
\* without its report, no challenge without its claim, and no challenge to a
\* challenge or across companies (create_report checks both before it inserts).
NothingDangles ==
    \A r \in ReportIds :
        /\ votes[r] # NoVotes => Exists(r)
        /\ Exists(r) /\ reports[r].parent # NULL =>
              LET p == reports[r].parent
              IN  /\ Exists(p)
                  /\ reports[p].parent = NULL
                  /\ reports[p].company = reports[r].company

Claims(c) ==
    {r \in ReportIds : Exists(r) /\ reports[r].parent = NULL /\ reports[r].company = c}

\* delete_report about to commit for a claim that another deletion has removed.
DeletesNoClaim(q, c) ==
    /\ At(q, {"delete_commit"})
    /\ tx[q].parent = NULL /\ tx[q].company = c
    /\ tx[q].report \notin tx[q].delR

\* companies.top_level_report_count moves with the claims about the company: by
\* one for each that is created or deleted and not at all for challenges.  A
\* second deletion of the same claim is the only commit that moves it alone.
CountFollowsClaims ==
    [][\A c \in Companies :
          \/ count'[c] - count[c] = Cardinality(Claims(c)') - Cardinality(Claims(c))
          \/ \E q \in Requests : DeletesNoClaim(q, c) /\ DeleteCommit(q)]_vars

\* Requests take effect as if each ran alone at the moment it commits: the
\* interleaved transactions implement the one-step operations of Ledger.
InFlight == {tx[q].report : q \in {p \in Requests : At(p, {"create_bump", "create_commit"})}}

L == INSTANCE Ledger WITH
        retired <- {r \in used \ InFlight : ~Exists(r)}

Serializable == L!LedgerSpec

\* A request that has begun ends, deadlocks among deletes and votes included.
EveryRequestEnds ==
    \A q \in Requests : ~At(q, {"idle"}) ~> At(q, {"idle"})

-----------------------------------------------------------------------------
(* What the documentation says and the code does not do *)

\* models/company.py: the row stores the number of claims about the company.
CountAgrees == \A c \in Companies : count[c] = Cardinality(Claims(c))
=============================================================================
