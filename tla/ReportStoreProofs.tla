------------------------- MODULE ReportStoreProofs -------------------------
(***************************************************************************)
(* Inv of ReportStoreInv is inductive, for any number of users, companies, *)
(* reports, requests in flight and texts; so what it consists of holds in  *)
(* every state of every behaviour of ReportStore.                          *)
(*                                                                         *)
(* Most statements only change the request that issues them: LocalStep     *)
(* reduces their obligation to Own, what Inv says of that one request.     *)
(* The four commits change tables and are treated one by one.              *)
(***************************************************************************)
EXTENDS ReportStoreInv, TablesProofs

\* The part of Inv that is about request q, its pairs with others included.
OwnStage(q) ==
    LET t == tx[q] IN
    /\ At(q, {"create_insert", "create_bump", "create_commit"}) =>
          t.company \in Companies /\ t.user \in Users /\ t.text \in Texts
    /\ At(q, {"create_bump"}) => t.parent = NULL
    /\ At(q, {"create_bump", "create_commit"}) => t.report \in ReportIds
    /\ At(q, {"edit_flush", "edit_commit"}) => t.report \in ReportIds /\ t.text \in Texts
    /\ At(q, {"vote_read", "vote_flush", "vote_commit"}) =>
          t.report \in ReportIds /\ t.user \in Users /\ t.value \in Value
    /\ At(q, {"delete_subs", "delete_sub_votes", "delete_sub_reports", "delete_sub_check",
              "delete_votes", "delete_report", "delete_check", "delete_bump",
              "delete_commit"}) => t.report \in ReportIds /\ t.company \in Companies

IsNew(q) == At(q, {"create_bump", "create_commit"})

OwnIds(q) ==
    /\ {tx[q].report, tx[q].parent} \subseteq used \cup {NULL}
    /\ IsNew(q) =>
          /\ ~Exists(tx[q].report)
          /\ tx[q].parent # tx[q].report
          /\ \A p \in Others(q) : tx[q].report \notin {tx[p].report, tx[p].parent}
    /\ \A p \in Others(q) : IsNew(p) => tx[p].report \notin {tx[q].report, tx[q].parent}

AnyLock(q) == XLocks(q) \cup NLocks(q) \cup KLocks(q)

OwnLocks(q) ==
    /\ \A r \in AnyLock(q) : Exists(r)
    /\ \A p \in Others(q) : XLocks(q) \cap AnyLock(p) = {} /\ XLocks(p) \cap AnyLock(q) = {}
    /\ \A rv \in VoteLocks(q) : votes[rv[1]][rv[2]] # 0
    /\ \A p \in Others(q) : VoteLocks(q) \cap VoteLocks(p) = {}

OwnReads(q) ==
    /\ At(q, {"vote_flush", "vote_commit"}) =>
          Exists(tx[q].report) /\ votes[tx[q].report][tx[q].user] = tx[q].seen
    /\ LET p == tx[q].parent IN
       At(q, {"create_insert", "create_commit"}) /\ p # NULL /\ Exists(p) =>
          reports[p].parent = NULL /\ reports[p].company = tx[q].company

OwnRemovals(q) ==
    /\ \A rv \in tx[q].delV : rv[1] \in Removing(q)
    /\ tx[q].delR # {} => At(q, {"delete_sub_check", "delete_votes", "delete_report",
                                 "delete_check", "delete_bump", "delete_commit"})
    /\ At(q, {"delete_bump", "delete_commit"}) => CheckPasses(q)

Own(q) ==
    tx[q] \in Tx /\ OwnStage(q) /\ OwnIds(q) /\ OwnLocks(q) /\ OwnReads(q) /\ OwnRemovals(q)

-----------------------------------------------------------------------------
\* Inv gives Own of every request.
LEMMA InvOwn == Inv => \A q \in Requests : Own(q)
<1> SUFFICES ASSUME Inv, NEW q \in Requests
             PROVE  Own(q)
  OBVIOUS
<1>1. tx[q] \in Tx
  BY DEF Inv, TypeOK
<1>2. OwnStage(q)
  BY DEF Inv, StageOK, OwnStage
<1>3. OwnIds(q)
  BY DEF Inv, DrawnOnce, OwnIds, IsNew, Others
<1>4. OwnLocks(q)
  BY DEF Inv, LocksHold, VoteLocksHold, OwnLocks, AnyLock, Others
<1>5. OwnReads(q)
  BY DEF Inv, VoteReadStable, ParentsStand, OwnReads
<1>6. OwnRemovals(q)
  BY DEF Inv, RemovalsMatch, ChecksStand, OwnRemovals
<1> QED
  BY <1>1, <1>2, <1>3, <1>4, <1>5, <1>6 DEF Own

\* And the other way round, for the state after a step, together with what Inv
\* says of the tables alone.
LEMMA OwnInv ==
    ASSUME reports' \in [ReportIds -> Row \cup {NULL}],
           votes' \in [ReportIds -> Ballot],
           count' \in [Companies -> Int],
           used' \subseteq ReportIds,
           tx' \in [Requests -> Tx],
           \A r \in ReportIds : Exists(r)' => r \in used',
           NothingDangles', VoteSumAgrees',
           \A q \in Requests : Own(q)'
    PROVE  Inv'
<1>1. TypeOK'
  BY DEF TypeOK
<1>2. StageOK'
  BY DEF StageOK, OwnStage, Own
<1>3. DrawnOnce'
  BY DEF DrawnOnce, OwnIds, Own, IsNew
<1>4. LocksHold' /\ VoteLocksHold'
  BY DEF LocksHold, VoteLocksHold, OwnLocks, AnyLock, Own
<1>5. VoteReadStable' /\ ParentsStand'
  BY DEF VoteReadStable, ParentsStand, OwnReads, Own
<1>6. RemovalsMatch' /\ ChecksStand'
  BY DEF RemovalsMatch, ChecksStand, OwnRemovals, Own
<1> QED
  BY <1>1, <1>2, <1>3, <1>4, <1>5, <1>6 DEF Inv

\* A step of q leaves the locks and removals of the others as they were.
LEMMA Frame ==
    ASSUME NEW p, tx'[p] = tx[p]
    PROVE  /\ XLocks(p)' = XLocks(p) /\ NLocks(p)' = NLocks(p) /\ KLocks(p)' = KLocks(p)
           /\ AnyLock(p)' = AnyLock(p)
           /\ VoteLocks(p)' = VoteLocks(p)
           /\ Removing(p)' = Removing(p)
           /\ IsNew(p)' = IsNew(p)
  BY DEF XLocks, NLocks, KLocks, AnyLock, VoteLocks, Removing, IsNew, At

\* A step that changes nothing but the state of q, and the ids drawn, keeps Inv
\* when it leaves q's own part of it true.
LEMMA LocalStep ==
    ASSUME Inv, NEW q \in Requests,
           UNCHANGED <<reports, votes, count>>,
           used \subseteq used', used' \subseteq ReportIds,
           tx' \in [Requests -> Tx],
           \A p \in Requests \ {q} : tx'[p] = tx[p],
           Own(q)'
    PROVE  Inv'
<1>1. ASSUME NEW p \in Requests \ {q}
      PROVE  Own(p)'
  <2>1. Own(p)
    BY InvOwn
  <2>2. tx'[p] = tx[p]
    OBVIOUS
  <2>3. /\ AnyLock(p)' = AnyLock(p) /\ XLocks(p)' = XLocks(p)
        /\ VoteLocks(p)' = VoteLocks(p)
        /\ Removing(p)' = Removing(p) /\ IsNew(p)' = IsNew(p)
    BY <2>2, Frame
  <2>4. OwnStage(p)'
    BY <2>1, <2>2 DEF Own, OwnStage, At
  <2>5. OwnIds(p)'
    <3>1. \A o \in Requests \ {p, q} : tx'[o] = tx[o] /\ IsNew(o)' = IsNew(o)
      BY Frame
    <3>2. {tx'[p].report, tx'[p].parent} \subseteq used' \cup {NULL}
      BY <2>1, <2>2 DEF Own, OwnIds
    <3>3. IsNew(p)' =>
             /\ ~Exists(tx[p].report)'
             /\ tx'[p].parent # tx'[p].report
             /\ \A o \in Others(p) : tx'[p].report \notin {tx'[o].report, tx'[o].parent}
      <4>1. SUFFICES ASSUME IsNew(p)
                     PROVE  /\ ~Exists(tx[p].report)'
                            /\ tx'[p].parent # tx'[p].report
                            /\ \A o \in Others(p) :
                                  tx'[p].report \notin {tx'[o].report, tx'[o].parent}
        BY <2>3
      <4>2. ~Exists(tx[p].report)' /\ tx'[p].parent # tx'[p].report
        BY <4>1, <2>1, <2>2 DEF Own, OwnIds, Exists
      <4>3. tx'[p].report \notin {tx'[q].report, tx'[q].parent}
        BY <4>1, <2>3 DEF Own, OwnIds, Others
      <4>4. \A o \in Requests \ {p, q} : tx'[p].report \notin {tx'[o].report, tx'[o].parent}
        BY <4>1, <2>1, <2>2, <3>1 DEF Own, OwnIds, Others
      <4> QED
        BY <4>2, <4>3, <4>4 DEF Others
    <3>4. \A o \in Others(p) : IsNew(o)' => tx'[o].report \notin {tx'[p].report, tx'[p].parent}
      <4>1. IsNew(q)' => tx'[q].report \notin {tx'[p].report, tx'[p].parent}
        BY DEF Own, OwnIds, Others
      <4>2. \A o \in Requests \ {p, q} : IsNew(o)' => tx'[o].report \notin {tx'[p].report, tx'[p].parent}
        BY <2>1, <2>2, <3>1 DEF Own, OwnIds, Others
      <4> QED
        BY <4>1, <4>2 DEF Others
    <3> QED
      BY <3>2, <3>3, <3>4, <2>2 DEF OwnIds, Others
  <2>6. OwnLocks(p)'
    <3>1. \A o \in Requests \ {p, q} : /\ AnyLock(o)' = AnyLock(o) /\ XLocks(o)' = XLocks(o)
                                       /\ VoteLocks(o)' = VoteLocks(o)
      BY Frame
    <3>2. OwnLocks(q)' /\ OwnLocks(p)
      BY <2>1 DEF Own
    <3> QED
      BY <2>3, <3>1, <3>2 DEF OwnLocks, Others, Exists
  <2>7. OwnReads(p)'
    BY <2>1, <2>2 DEF Own, OwnReads, At, Exists
  <2>8. OwnRemovals(p)'
    BY <2>1, <2>2, <2>3 DEF Own, OwnRemovals, At, CheckPasses, DanglingVotes, DanglingReports, Exists
  <2> QED
    BY <2>2, <2>4, <2>5, <2>6, <2>7, <2>8 DEF Own
<1>2. NothingDangles' /\ VoteSumAgrees'
  BY DEF Inv, NothingDangles, VoteSumAgrees, Exists
<1>3. \A r \in ReportIds : Exists(r)' => r \in used'
  BY DEF Inv, DrawnOnce, Exists
<1>4. /\ reports' \in [ReportIds -> Row \cup {NULL}]
      /\ votes' \in [ReportIds -> Ballot]
      /\ count' \in [Companies -> Int]
  BY DEF Inv, TypeOK
<1>5. \A p \in Requests : Own(p)'
  BY <1>1
<1> QED
  BY <1>2, <1>3, <1>4, <1>5, OwnInv

-----------------------------------------------------------------------------
(* Statements that change no table *)

\* A handler at one of the other stages, with nothing removed yet, holds no lock.
Locking == {"create_commit", "edit_commit", "vote_read", "vote_flush", "vote_commit",
            "delete_bump", "delete_commit"}

\* A request that is not in one of the locking stages holds no lock.
LEMMA NothingHeld ==
    ASSUME NEW q, tx'[q].pc \notin Locking, tx'[q].delV = {}, tx'[q].delR = {}
    PROVE  /\ AnyLock(q)' = {} /\ OwnLocks(q)' /\ OwnRemovals(q)'
           /\ (tx'[q].pc # "create_insert" => OwnReads(q)')
<1>1. AnyLock(q)' = {} /\ XLocks(q)' = {} /\ VoteLocks(q)' = {}
  BY DEF AnyLock, XLocks, NLocks, KLocks, VoteLocks, At, Locking
<1>2. OwnRemovals(q)'
  BY DEF OwnRemovals, At, Locking
<1>3. tx'[q].pc # "create_insert" => OwnReads(q)'
  BY DEF OwnReads, At, Locking
<1> QED
  BY <1>1, <1>2, <1>3 DEF OwnLocks

\* Ids of rows that are there are no request's new id, so a handler may keep them.
LEMMA KnownIds ==
    ASSUME Inv, NEW q \in Requests, used \subseteq used', ~IsNew(q)',
           \A p \in Requests \ {q} : tx'[p] = tx[p],
           \A r \in {tx'[q].report, tx'[q].parent} : r = NULL \/ (r \in ReportIds /\ Exists(r))
    PROVE  OwnIds(q)'
<1>1. {tx'[q].report, tx'[q].parent} \subseteq used' \cup {NULL}
  BY DEF Inv, DrawnOnce
<1>2. ASSUME NEW p \in Others(q), IsNew(p)'
      PROVE  tx'[p].report \notin {tx'[q].report, tx'[q].parent}
  <2>1. IsNew(p) /\ tx'[p] = tx[p] /\ p \in Requests
    BY <1>2, Frame DEF Others
  <2>2. ~Exists(tx[p].report) /\ tx[p].report \in ReportIds
    BY <2>1 DEF Inv, DrawnOnce, StageOK, IsNew, At
  <2>3. tx[p].report # NULL
    BY <2>2, TablesAssumption
  <2> QED
    BY <2>1, <2>2, <2>3
<1> QED
  BY <1>1, <1>2 DEF OwnIds, Others

\* A handler that keeps its ids has them in order after the step as before.
LEMMA SameIds ==
    ASSUME Inv, NEW q \in Requests, UNCHANGED <<reports, used>>, IsNew(q)' => IsNew(q),
           \A p \in Requests \ {q} : tx'[p] = tx[p],
           tx'[q].report = tx[q].report, tx'[q].parent = tx[q].parent
    PROVE  OwnIds(q)'
<1>1. \A p \in Others(q) : tx'[p] = tx[p] /\ IsNew(p)' = IsNew(p)
  BY Frame DEF Others
<1>2. OwnIds(q)
  BY InvOwn DEF Own
<1> QED
  BY <1>1, <1>2 DEF OwnIds, Exists, Others

\* Ending a transaction without a commit only gives up locks.
LEMMA RollbackInv ==
    ASSUME Inv, NEW q \in Requests, Rollback(q)
    PROVE  Inv'
<1>1. /\ tx' \in [Requests -> Tx] /\ tx'[q] = Idle
      /\ \A p \in Requests \ {q} : tx'[p] = tx[p]
  BY DEF Inv, TypeOK, Rollback, Idle, Tx, Stage
<1>2. OwnStage(q)' /\ OwnReads(q)'
  BY <1>1 DEF OwnStage, OwnReads, At, Idle
<1>3. OwnLocks(q)' /\ OwnRemovals(q)'
  BY <1>1, NothingHeld DEF Idle, Locking
<1>4. OwnIds(q)'
  BY <1>1, KnownIds DEF Idle, IsNew, At, Rollback, Unwritten
<1> QED
  BY <1>1, <1>2, <1>3, <1>4, LocalStep DEF Own, Rollback, Unwritten, Inv, TypeOK

\* create_report begins: nothing is locked, the parent it checked is a claim.
LEMMA CreateGetInv ==
    ASSUME Inv, NEW q \in Requests, NEW u \in Users, NEW c \in Companies,
           NEW p \in ReportIds \cup {NULL}, NEW t \in Texts, CreateGet(q, u, c, p, t)
    PROVE  Inv'
<1>1. /\ tx' \in [Requests -> Tx]
      /\ tx'[q] = [Idle EXCEPT !.pc = "create_insert", !.user = u, !.company = c,
                               !.parent = p, !.text = t]
      /\ \A o \in Requests \ {q} : tx'[o] = tx[o]
  BY DEF Inv, TypeOK, CreateGet, Idle, Tx, Stage
<1>2. OwnStage(q)'
  BY <1>1 DEF OwnStage, At, Idle
<1>3. OwnLocks(q)' /\ OwnRemovals(q)'
  BY <1>1, NothingHeld DEF Idle, Locking
<1>4. OwnIds(q)'
  BY <1>1, KnownIds DEF CreateGet, Unwritten, Idle, IsNew, At
<1>5. OwnReads(q)'
  BY <1>1 DEF CreateGet, Unwritten, OwnReads, Exists, Idle, At
<1> QED
  BY <1>1, <1>2, <1>3, <1>4, <1>5, LocalStep DEF Own, CreateGet, Unwritten, Inv, TypeOK

\* update_report begins without a lock.
LEMMA EditGetInv ==
    ASSUME Inv, NEW q \in Requests, NEW u \in Users, NEW r \in ReportIds, NEW t \in Texts,
           EditGet(q, u, r, t)
    PROVE  Inv'
<1>1. /\ tx' \in [Requests -> Tx]
      /\ tx'[q] = [Idle EXCEPT !.pc = "edit_flush", !.user = u, !.report = r, !.text = t]
      /\ \A o \in Requests \ {q} : tx'[o] = tx[o]
  BY DEF Inv, TypeOK, EditGet, Idle, Tx, Stage
<1>2. OwnStage(q)'
  BY <1>1 DEF OwnStage, At, Idle
<1>3. OwnLocks(q)' /\ OwnRemovals(q)' /\ OwnReads(q)'
  BY <1>1, NothingHeld DEF Idle, Locking
<1>4. OwnIds(q)'
  BY <1>1, KnownIds DEF EditGet, Unwritten, Idle, IsNew, At
<1> QED
  BY <1>1, <1>2, <1>3, <1>4, LocalStep DEF Own, EditGet, Unwritten, Inv, TypeOK

\* delete_report begins without a lock.
LEMMA DeleteGetInv ==
    ASSUME Inv, NEW q \in Requests, NEW u \in Users, NEW r \in ReportIds, DeleteGet(q, u, r)
    PROVE  Inv'
<1>0. /\ reports[r] \in Row
      /\ Exists(r)
      /\ reports[r].parent # NULL => reports[r].parent \in ReportIds /\ Exists(reports[r].parent)
  BY DEF Inv, TypeOK, NothingDangles, DeleteGet, Exists, Row
<1>1. /\ tx' \in [Requests -> Tx]
      /\ tx'[q].pc \in {"delete_subs", "delete_votes"}
      /\ tx'[q].report = r /\ tx'[q].parent = reports[r].parent
      /\ tx'[q].company \in Companies
      /\ tx'[q].delV = {} /\ tx'[q].delR = {}
      /\ \A o \in Requests \ {q} : tx'[o] = tx[o]
  BY <1>0 DEF Inv, TypeOK, DeleteGet, Idle, Tx, Stage, Row
<1>2. OwnStage(q)'
  BY <1>1 DEF OwnStage, At
<1>3. OwnLocks(q)' /\ OwnRemovals(q)' /\ OwnReads(q)'
  BY <1>1, NothingHeld DEF Locking
<1>4. OwnIds(q)'
  BY <1>0, <1>1, KnownIds DEF DeleteGet, Unwritten, IsNew, At
<1> QED
  BY <1>1, <1>2, <1>3, <1>4, LocalStep DEF Own, DeleteGet, Unwritten, Inv, TypeOK

\* The insert draws an id that nobody else knows and locks the parent.
LEMMA CreateInsertInv ==
    ASSUME Inv, NEW q \in Requests, CreateInsert(q)
    PROVE  Inv'
<1>0. PICK r \in ReportIds \ used :
          /\ used' = used \cup {r}
          /\ tx' = [tx EXCEPT ![q].report = r,
                              ![q].pc = IF tx[q].parent = NULL THEN "create_bump"
                                        ELSE "create_commit"]
  BY DEF CreateInsert
<1>1. /\ tx' \in [Requests -> Tx] /\ tx[q].pc = "create_insert"
      /\ tx'[q] = [tx[q] EXCEPT !.report = r,
                                !.pc = IF tx[q].parent = NULL THEN "create_bump"
                                       ELSE "create_commit"]
      /\ \A o \in Requests \ {q} : tx'[o] = tx[o]
  BY <1>0 DEF Inv, TypeOK, CreateInsert, At, Tx, Stage
<1>2. Own(q) /\ tx[q] \in Tx
  BY InvOwn DEF Own
<1>3. /\ tx'[q].report = r /\ tx'[q].parent = tx[q].parent /\ tx'[q].company = tx[q].company
      /\ tx'[q].delV = tx[q].delV /\ tx'[q].delR = tx[q].delR
      /\ tx'[q].pc = IF tx[q].parent = NULL THEN "create_bump" ELSE "create_commit"
      /\ tx'[q].user = tx[q].user /\ tx'[q].text = tx[q].text
  BY <1>1, <1>2 DEF Tx
<1>4. OwnStage(q)'
  BY <1>1, <1>2, <1>3 DEF Own, OwnStage, At
<1>5. OwnIds(q)'
  <2>1. ~Exists(r) /\ r # NULL /\ r \notin used
    BY <1>0, TablesAssumption DEF Inv, DrawnOnce
  <2>2. {tx'[q].report, tx'[q].parent} \subseteq used' \cup {NULL} /\ tx'[q].parent # r
    BY <1>0, <1>2, <1>3, <2>1 DEF Own, OwnIds
  <2>3. \A p \in Others(q) : /\ r \notin {tx'[p].report, tx'[p].parent}
                             /\ IsNew(p)' => IsNew(p) /\ tx'[p].report # r
    BY <1>1, <2>1, Frame DEF Inv, DrawnOnce, Others
  <2>4. \A p \in Others(q) : IsNew(p)' => tx'[p].report # tx'[q].parent
    BY <1>1, <1>2, <1>3, <2>3 DEF Own, OwnIds, Others
  <2> QED
    BY <1>3, <2>1, <2>2, <2>3, <2>4 DEF OwnIds, CreateInsert, Exists, Others
<1>6. tx[q].delV = {} /\ tx[q].delR = {}
  BY <1>1, <1>2 DEF Own, OwnRemovals, Removing, At, Tx
<1>7. OwnRemovals(q)'
  BY <1>3, <1>6 DEF OwnRemovals, At
<1>8. OwnLocks(q)'
  <2>1. XLocks(q)' = {} /\ NLocks(q)' = {} /\ VoteLocks(q)' = {}
    BY <1>3, <1>6 DEF XLocks, NLocks, VoteLocks, At
  <2>2. KLocks(q)' \subseteq {tx[q].parent} \ {NULL}
    BY <1>3 DEF KLocks
  <2>3. \A o \in Others(q) : XLocks(o)' = XLocks(o)
    BY <1>1, Frame DEF Others
  <2>4. tx[q].parent # NULL =>
            /\ reports'[tx[q].parent] # NULL
            /\ \A o \in Others(q) : tx[q].parent \notin XLocks(o)
    BY DEF CreateInsert, FreeForK, Exists
  <2> QED
    BY <2>1, <2>2, <2>3, <2>4 DEF OwnLocks, AnyLock, Others, Exists
<1>9. OwnReads(q)'
  BY <1>1, <1>2, <1>3 DEF Own, OwnReads, At, CreateInsert, Exists
<1> QED
  BY <1>0, <1>1, <1>4, <1>5, <1>7, <1>8, <1>9, LocalStep DEF Own, CreateInsert, Inv, TypeOK

\* What a step that only moves on to another stage leaves in the record.
LEMMA GotoFacts ==
    ASSUME Inv, NEW q \in Requests, NEW stage \in Stage, Goto(q, stage)
    PROVE  /\ tx' \in [Requests -> Tx]
           /\ \A o \in Requests \ {q} : tx'[o] = tx[o]
           /\ tx'[q].pc = stage
           /\ tx'[q].user = tx[q].user /\ tx'[q].report = tx[q].report
           /\ tx'[q].company = tx[q].company /\ tx'[q].parent = tx[q].parent
           /\ tx'[q].text = tx[q].text /\ tx'[q].value = tx[q].value
           /\ tx'[q].seen = tx[q].seen /\ tx'[q].subs = tx[q].subs
           /\ tx'[q].delV = tx[q].delV /\ tx'[q].delR = tx[q].delR
  BY DEF Inv, TypeOK, Goto, Tx

\* The update of the count touches neither reports nor votes.
LEMMA CreateBumpInv ==
    ASSUME Inv, NEW q \in Requests, CreateBump(q)
    PROVE  Inv'
<1>1. tx[q].pc = "create_bump" /\ Goto(q, "create_commit") /\ Unwritten
  BY DEF CreateBump, At
<1>2. Own(q) /\ "create_commit" \in Stage
  BY InvOwn DEF Stage
<1>3. OwnStage(q)' /\ tx'[q].parent = NULL
  BY <1>1, <1>2, GotoFacts DEF Own, OwnStage, At
<1>4. OwnIds(q)'
  BY <1>1, <1>2, GotoFacts, SameIds DEF IsNew, At, Unwritten
<1>5. tx[q].delV = {} /\ tx[q].delR = {}
  BY <1>1, <1>2 DEF Own, OwnRemovals, Removing, At, Tx
<1>6. OwnRemovals(q)'
  BY <1>1, <1>2, <1>5, GotoFacts DEF OwnRemovals, At
<1>7. OwnLocks(q)'
  <2>1. AnyLock(q)' = {} /\ XLocks(q)' = {} /\ VoteLocks(q)' = {}
    BY <1>1, <1>2, <1>3, <1>5, GotoFacts DEF AnyLock, XLocks, NLocks, KLocks, VoteLocks, At
  <2> QED
    BY <2>1 DEF OwnLocks
<1>8. OwnReads(q)'
  BY <1>1, <1>2, <1>3, GotoFacts DEF OwnReads, At
<1> QED
  BY <1>1, <1>2, <1>3, <1>4, <1>6, <1>7, <1>8, GotoFacts, LocalStep
     DEF Own, Unwritten, Inv, TypeOK

\* The edit locks its report, which no deletion has locked.
LEMMA EditFlushInv ==
    ASSUME Inv, NEW q \in Requests, EditFlush(q)
    PROVE  Inv'
<1>1. tx[q].pc = "edit_flush" /\ Goto(q, "edit_commit") /\ Unwritten
  BY DEF EditFlush, At
<1>2. Own(q) /\ "edit_commit" \in Stage
  BY InvOwn DEF Stage
<1>3. OwnStage(q)' /\ OwnReads(q)'
  BY <1>1, <1>2, GotoFacts DEF Own, OwnStage, OwnReads, At
<1>4. OwnIds(q)'
  BY <1>1, <1>2, GotoFacts, SameIds DEF IsNew, At, Unwritten
<1>5. tx[q].delV = {} /\ tx[q].delR = {}
  BY <1>1, <1>2 DEF Own, OwnRemovals, Removing, At, Tx
<1>6. OwnRemovals(q)'
  BY <1>1, <1>2, <1>5, GotoFacts DEF OwnRemovals, At
<1>7. OwnLocks(q)'
  <2>1. AnyLock(q)' = {tx[q].report} /\ XLocks(q)' = {} /\ VoteLocks(q)' = {}
    BY <1>1, <1>2, <1>5, GotoFacts DEF AnyLock, XLocks, NLocks, KLocks, VoteLocks, At
  <2>2. \A o \in Others(q) : XLocks(o)' = XLocks(o)
    BY <1>1, <1>2, GotoFacts, Frame DEF Others
  <2>3. /\ reports'[tx[q].report] # NULL
        /\ \A o \in Others(q) : tx[q].report \notin XLocks(o)
    BY DEF EditFlush, FreeForN, Exists, Unwritten
  <2> QED
    BY <2>1, <2>2, <2>3 DEF OwnLocks, Others, Exists
<1> QED
  BY <1>1, <1>2, <1>3, <1>4, <1>6, <1>7, GotoFacts, LocalStep DEF Own, Unwritten, Inv, TypeOK

\* vote_on_report locks its report before it reads anything.
LEMMA VoteGetInv ==
    ASSUME Inv, NEW q \in Requests, NEW u \in Users, NEW r \in ReportIds, NEW v \in Value,
           VoteGet(q, u, r, v)
    PROVE  Inv'
<1>1. /\ tx' \in [Requests -> Tx]
      /\ tx'[q] = [Idle EXCEPT !.pc = "vote_read", !.user = u, !.report = r, !.value = v]
      /\ \A o \in Requests \ {q} : tx'[o] = tx[o]
  BY DEF Inv, TypeOK, VoteGet, Idle, Tx, Stage
<1>2. OwnStage(q)' /\ OwnReads(q)' /\ OwnRemovals(q)'
  BY <1>1 DEF OwnStage, OwnReads, OwnRemovals, At, Idle
<1>3. OwnIds(q)'
  BY <1>1, KnownIds DEF VoteGet, Unwritten, Idle, IsNew, At
<1>4. OwnLocks(q)'
  <2>1. AnyLock(q)' = {r} /\ XLocks(q)' = {r} /\ VoteLocks(q)' = {}
    BY <1>1 DEF AnyLock, XLocks, NLocks, KLocks, VoteLocks, At, Idle
  <2>2. \A o \in Others(q) : XLocks(o)' = XLocks(o) /\ AnyLock(o)' = AnyLock(o)
    BY <1>1, Frame DEF Others
  <2>3. reports'[r] # NULL /\ \A o \in Others(q) : r \notin AnyLock(o) /\ r \notin XLocks(o)
    BY DEF VoteGet, FreeForX, Exists, Unwritten, AnyLock
  <2> QED
    BY <2>1, <2>2, <2>3 DEF OwnLocks, Others, Exists
<1> QED
  BY <1>1, <1>2, <1>3, <1>4, LocalStep DEF Own, VoteGet, Unwritten, Inv, TypeOK

\* What is read as the user's vote is the committed one.
LEMMA VoteReadInv ==
    ASSUME Inv, NEW q \in Requests, VoteRead(q)
    PROVE  Inv'
<1>0. Own(q) /\ tx[q] \in Tx /\ tx[q].pc = "vote_read"
  BY InvOwn DEF Own, VoteRead, At
<1>1. tx[q].report \in ReportIds /\ tx[q].user \in Users
  BY <1>0 DEF Own, OwnStage, At
<1>2. votes[tx[q].report][tx[q].user] \in Value \cup {0}
  BY <1>1 DEF Inv, TypeOK, Ballot
<1>3. /\ tx' \in [Requests -> Tx]
      /\ tx'[q] = [tx[q] EXCEPT !.pc = "vote_flush",
                                !.seen = votes[tx[q].report][tx[q].user]]
      /\ \A o \in Requests \ {q} : tx'[o] = tx[o]
  <2> DEFINE s == votes[tx[q].report][tx[q].user]
             new == [tx[q] EXCEPT !.pc = "vote_flush", !.seen = s]
  <2>1. s \in Value \cup {0} /\ tx[q] \in Tx
    BY <1>0, <1>2
  <2>2. tx' = [tx EXCEPT ![q] = new]
    BY DEF VoteRead, Inv, TypeOK
  <2> HIDE DEF s
  <2>3. new \in Tx
    BY <2>1 DEF Tx, Stage
  <2> QED
    BY <2>2, <2>3 DEF Inv, TypeOK, s
<1>4. /\ tx'[q].pc = "vote_flush" /\ tx'[q].seen = votes[tx[q].report][tx[q].user]
      /\ tx'[q].report = tx[q].report /\ tx'[q].user = tx[q].user
      /\ tx'[q].parent = tx[q].parent /\ tx'[q].value = tx[q].value
      /\ tx'[q].delV = tx[q].delV /\ tx'[q].delR = tx[q].delR
  BY <1>0, <1>3 DEF Tx
<1>5. OwnStage(q)'
  BY <1>0, <1>4 DEF Own, OwnStage, At
<1>6. OwnIds(q)'
  BY <1>3, <1>4, SameIds DEF VoteRead, Unwritten, IsNew, At
<1>7. OwnLocks(q)' /\ Exists(tx[q].report)
  <2>1. AnyLock(q)' = AnyLock(q) /\ XLocks(q)' = XLocks(q) /\ VoteLocks(q)' = VoteLocks(q)
    BY <1>0, <1>4 DEF AnyLock, XLocks, NLocks, KLocks, VoteLocks, At
  <2>2. \A o \in Others(q) : /\ XLocks(o)' = XLocks(o) /\ AnyLock(o)' = AnyLock(o)
                             /\ VoteLocks(o)' = VoteLocks(o)
    BY <1>3, Frame DEF Others
  <2>3. tx[q].report \in AnyLock(q)
    BY <1>0 DEF AnyLock, XLocks, At
  <2> QED
    BY <1>0, <2>1, <2>2, <2>3 DEF Own, OwnLocks, Others, Exists, VoteRead, Unwritten
<1>8. OwnReads(q)' /\ OwnRemovals(q)'
  BY <1>0, <1>4, <1>7 DEF Own, OwnReads, OwnRemovals, Removing, At, Exists, VoteRead, Unwritten
<1> QED
  BY <1>3, <1>5, <1>6, <1>7, <1>8, LocalStep DEF Own, VoteRead, Unwritten, Inv, TypeOK

\* The vote row is locked; nobody is deleting it.
LEMMA VoteFlushInv ==
    ASSUME Inv, NEW q \in Requests, VoteFlush(q)
    PROVE  Inv'
<1>1. tx[q].pc = "vote_flush" /\ Goto(q, "vote_commit") /\ Unwritten
  BY DEF VoteFlush, At
<1>2. Own(q) /\ "vote_commit" \in Stage
  BY InvOwn DEF Stage
<1>3. OwnStage(q)' /\ OwnReads(q)'
  BY <1>1, <1>2, GotoFacts DEF Own, OwnStage, OwnReads, At, Unwritten, Exists
<1>4. OwnIds(q)'
  BY <1>1, <1>2, GotoFacts, SameIds DEF IsNew, At, Unwritten
<1>5. tx[q].delV = {}
  BY <1>1, <1>2 DEF Own, OwnRemovals, Removing, At, Tx
<1>6. OwnRemovals(q)'
  BY <1>1, <1>2, <1>5, GotoFacts DEF Own, OwnRemovals, At
<1>7. OwnLocks(q)'
  <2>1. AnyLock(q)' = AnyLock(q) /\ XLocks(q)' = XLocks(q)
    BY <1>1, <1>2, GotoFacts DEF AnyLock, XLocks, NLocks, KLocks, At
  <2>2. VoteLocks(q)' = IF tx[q].seen # 0 THEN {<<tx[q].report, tx[q].user>>} ELSE {}
    BY <1>1, <1>2, <1>5, GotoFacts DEF VoteLocks, At
  <2>3. \A o \in Others(q) : /\ XLocks(o)' = XLocks(o) /\ AnyLock(o)' = AnyLock(o)
                             /\ VoteLocks(o)' = VoteLocks(o)
    BY <1>1, <1>2, GotoFacts, Frame DEF Others
  <2>4. \A rv \in VoteLocks(q)' : votes'[rv[1]][rv[2]] # 0
    BY <1>1, <1>2, <2>2 DEF Own, OwnReads, At, Unwritten
  <2>5. \A o \in Others(q) : VoteLocks(q)' \cap VoteLocks(o) = {}
    BY <2>2 DEF VoteFlush, VoteFree
  <2> QED
    BY <1>1, <1>2, <2>1, <2>3, <2>4, <2>5 DEF Own, OwnLocks, Others, Exists, Unwritten
<1> QED
  BY <1>1, <1>2, <1>3, <1>4, <1>6, <1>7, GotoFacts, LocalStep DEF Own, Unwritten, Inv, TypeOK

\* Collecting the challenges locks nothing.
LEMMA DeleteSubsInv ==
    ASSUME Inv, NEW q \in Requests, DeleteSubs(q)
    PROVE  Inv'
<1> DEFINE S == {s \in ReportIds : Exists(s) /\ reports[s].parent = tx[q].report}
           next == IF S = {} THEN "delete_votes" ELSE "delete_sub_votes"
<1>0. Own(q) /\ tx[q] \in Tx /\ tx[q].pc = "delete_subs"
  BY InvOwn DEF Own, DeleteSubs, At
<1>1. /\ tx' \in [Requests -> Tx]
      /\ tx'[q] = [tx[q] EXCEPT !.subs = S, !.pc = next]
      /\ \A o \in Requests \ {q} : tx'[o] = tx[o]
  <2>1. tx' = [tx EXCEPT ![q] = [tx[q] EXCEPT !.subs = S, !.pc = next]]
    BY DEF DeleteSubs, Inv, TypeOK
  <2>2. S \subseteq ReportIds /\ next \in Stage
    BY DEF Stage
  <2> HIDE DEF S, next
  <2>3. [tx[q] EXCEPT !.subs = S, !.pc = next] \in Tx
    BY <1>0, <2>2 DEF Tx
  <2> QED
    BY <2>1, <2>3 DEF Inv, TypeOK
<1>2. /\ tx'[q].pc \in {"delete_votes", "delete_sub_votes"}
      /\ tx'[q].report = tx[q].report /\ tx'[q].company = tx[q].company
      /\ tx'[q].parent = tx[q].parent
      /\ tx'[q].delV = tx[q].delV /\ tx'[q].delR = tx[q].delR
  BY <1>0, <1>1 DEF Tx
<1>3. OwnStage(q)'
  BY <1>0, <1>2 DEF Own, OwnStage, At
<1>4. OwnIds(q)'
  BY <1>1, <1>2, SameIds DEF DeleteSubs, Unwritten, IsNew, At
<1>5. tx[q].delV = {} /\ tx[q].delR = {}
  BY <1>0 DEF Own, OwnRemovals, Removing, At, Tx
<1>6. OwnLocks(q)' /\ OwnRemovals(q)' /\ OwnReads(q)'
  BY <1>2, <1>5, NothingHeld DEF Locking
<1> QED
  BY <1>1, <1>3, <1>4, <1>6, LocalStep DEF Own, DeleteSubs, Unwritten, Inv, TypeOK

\* A DELETE of the votes on the reports in S.
LEMMA DropVotesInv ==
    ASSUME Inv, NEW q \in Requests, NEW S, NEW next, DropVotes(q, S, next),
           \/ tx[q].pc = "delete_sub_votes" /\ next = "delete_sub_reports" /\ S = tx[q].subs
           \/ tx[q].pc = "delete_votes" /\ next = "delete_report" /\ S = {tx[q].report}
    PROVE  Inv'
<1> DEFINE gone == {rv \in S \X Users : votes[rv[1]][rv[2]] # 0}
<1>0. Own(q) /\ tx[q] \in Tx
  BY InvOwn DEF Own
<1>1. /\ tx' \in [Requests -> Tx]
      /\ tx'[q] = [tx[q] EXCEPT !.delV = tx[q].delV \cup gone, !.pc = next]
      /\ \A o \in Requests \ {q} : tx'[o] = tx[o]
  <2>1. tx' = [tx EXCEPT ![q] = [tx[q] EXCEPT !.delV = tx[q].delV \cup gone, !.pc = next]]
    BY DEF DropVotes, Inv, TypeOK
  <2>2. S \subseteq ReportIds
    BY <1>0 DEF Own, OwnStage, At, Tx
  <2>3. gone \subseteq ReportIds \X Users /\ next \in Stage
    BY <2>2 DEF Stage
  <2> HIDE DEF gone
  <2>4. [tx[q] EXCEPT !.delV = tx[q].delV \cup gone, !.pc = next] \in Tx
    BY <1>0, <2>3 DEF Tx
  <2> QED
    BY <2>1, <2>4 DEF Inv, TypeOK
<1>2. /\ tx'[q].pc = next
      /\ tx'[q].report = tx[q].report /\ tx'[q].company = tx[q].company
      /\ tx'[q].parent = tx[q].parent /\ tx'[q].subs = tx[q].subs
      /\ tx'[q].delV = tx[q].delV \cup gone /\ tx'[q].delR = tx[q].delR
  BY <1>0, <1>1 DEF Tx
<1>3. OwnStage(q)' /\ OwnReads(q)'
  BY <1>0, <1>2 DEF Own, OwnStage, OwnReads, At
<1>4. OwnIds(q)'
  BY <1>1, <1>2, SameIds DEF DropVotes, Unwritten, IsNew, At
<1>5. OwnRemovals(q)'
  <2>1. \A rv \in gone : rv[1] \in S
    OBVIOUS
  <2> HIDE DEF gone
  <2> QED
    BY <1>0, <1>2, <2>1 DEF Own, OwnRemovals, Removing, At
<1>6. OwnLocks(q)'
  <2>1. AnyLock(q)' = AnyLock(q) /\ XLocks(q)' = XLocks(q)
    BY <1>2 DEF AnyLock, XLocks, NLocks, KLocks, At
  <2>2. VoteLocks(q)' = VoteLocks(q) \cup gone
    BY <1>2 DEF VoteLocks, At
  <2>3. \A o \in Others(q) : /\ XLocks(o)' = XLocks(o) /\ AnyLock(o)' = AnyLock(o)
                             /\ VoteLocks(o)' = VoteLocks(o)
    BY <1>1, Frame DEF Others
  <2>4. \A rv \in gone : votes[rv[1]][rv[2]] # 0
    OBVIOUS
  <2>5. \A o \in Others(q) : gone \cap VoteLocks(o) = {}
    BY DEF DropVotes, VoteFree
  <2> HIDE DEF gone
  <2> QED
    BY <1>0, <2>1, <2>2, <2>3, <2>4, <2>5 DEF Own, OwnLocks, Others, Exists, DropVotes, Unwritten
<1> QED
  BY <1>1, <1>3, <1>4, <1>5, <1>6, LocalStep DEF Own, DropVotes, Unwritten, Inv, TypeOK

\* A DELETE of the reports in S.
LEMMA DropReportsInv ==
    ASSUME Inv, NEW q \in Requests, NEW S, NEW next, DropReports(q, S, next),
           \/ tx[q].pc = "delete_sub_reports" /\ next = "delete_sub_check" /\ S = tx[q].subs
           \/ tx[q].pc = "delete_report" /\ next = "delete_check" /\ S = {tx[q].report}
    PROVE  Inv'
<1> DEFINE there == {s \in S : Exists(s)}
<1>0. Own(q) /\ tx[q] \in Tx
  BY InvOwn DEF Own
<1>1. S \subseteq ReportIds
  BY <1>0 DEF Own, OwnStage, At, Tx
<1>2. /\ tx' \in [Requests -> Tx]
      /\ tx'[q] = [tx[q] EXCEPT !.delR = tx[q].delR \cup there, !.pc = next]
      /\ \A o \in Requests \ {q} : tx'[o] = tx[o]
  <2>1. tx' = [tx EXCEPT ![q] = [tx[q] EXCEPT !.delR = tx[q].delR \cup there, !.pc = next]]
    BY DEF DropReports, Inv, TypeOK
  <2>2. there \subseteq ReportIds /\ next \in Stage
    BY <1>1 DEF Stage
  <2> HIDE DEF there
  <2>3. [tx[q] EXCEPT !.delR = tx[q].delR \cup there, !.pc = next] \in Tx
    BY <1>0, <2>2 DEF Tx
  <2> QED
    BY <2>1, <2>3 DEF Inv, TypeOK
<1>3. /\ tx'[q].pc = next
      /\ tx'[q].report = tx[q].report /\ tx'[q].company = tx[q].company
      /\ tx'[q].parent = tx[q].parent
      /\ tx'[q].delV = tx[q].delV /\ tx'[q].delR = tx[q].delR \cup there
  BY <1>0, <1>2 DEF Tx
<1>4. OwnStage(q)' /\ OwnReads(q)'
  BY <1>0, <1>3 DEF Own, OwnStage, OwnReads, At
<1>5. OwnIds(q)'
  BY <1>2, <1>3, SameIds DEF DropReports, Unwritten, IsNew, At
<1>6. OwnRemovals(q)'
  \* A vote that q has removed keeps its report from being gone already.
  <2>1. \A rv \in tx[q].delV : Exists(rv[1])
    <3>1. SUFFICES ASSUME NEW rv \in tx[q].delV
                   PROVE  Exists(rv[1])
      OBVIOUS
    <3>2. votes[rv[1]][rv[2]] # 0 /\ rv[1] \in ReportIds /\ rv[2] \in Users
      BY <1>0 DEF Own, OwnLocks, VoteLocks, Tx
    <3>3. votes[rv[1]] # NoVotes
      BY <3>2 DEF NoVotes
    <3> QED
      BY <3>2, <3>3 DEF Inv, NothingDangles
  <2>2. \A rv \in tx[q].delV : rv[1] \in tx[q].delR \/ rv[1] \in there
    BY <1>0, <2>1 DEF Own, OwnRemovals, Removing, At
  <2> HIDE DEF there
  <2> QED
    BY <1>3, <2>2 DEF OwnRemovals, Removing, At
<1>7. OwnLocks(q)'
  <2>1. AnyLock(q)' = AnyLock(q) \cup there /\ XLocks(q)' = XLocks(q) \cup there
    BY <1>3 DEF AnyLock, XLocks, NLocks, KLocks, At
  <2>2. VoteLocks(q)' = VoteLocks(q)
    BY <1>3 DEF VoteLocks, At
  <2>3. \A o \in Others(q) : /\ XLocks(o)' = XLocks(o) /\ AnyLock(o)' = AnyLock(o)
                             /\ VoteLocks(o)' = VoteLocks(o)
    BY <1>2, Frame DEF Others
  <2>4. \A s \in there : reports[s] # NULL
    BY DEF Exists
  <2>5. \A o \in Others(q) : there \cap AnyLock(o) = {} /\ there \cap XLocks(o) = {}
    BY DEF DropReports, FreeForX, AnyLock
  <2> HIDE DEF there
  <2> QED
    BY <1>0, <2>1, <2>2, <2>3, <2>4, <2>5
       DEF Own, OwnLocks, Others, Exists, DropReports, Unwritten
<1> QED
  BY <1>2, <1>4, <1>5, <1>6, <1>7, LocalStep DEF Own, DropReports, Unwritten, Inv, TypeOK

\* A step of delete_report from one stage to the next that removes nothing.
LEMMA DeleteGotoInv ==
    ASSUME Inv, NEW q \in Requests, NEW next, Goto(q, next), Unwritten,
           tx[q].pc \in {"delete_sub_check", "delete_check", "delete_bump"},
           \/ tx[q].pc = "delete_sub_check" /\ next = "delete_votes"
           \/ tx[q].pc # "delete_sub_check" /\ next \in {"delete_bump", "delete_commit"},
           CheckPasses(q)
    PROVE  Inv'
<1>1. Own(q) /\ next \in Stage
  BY InvOwn DEF Stage
<1>2. OwnStage(q)' /\ OwnReads(q)'
  BY <1>1, GotoFacts DEF Own, OwnStage, OwnReads, At
<1>3. OwnIds(q)'
  BY <1>1, GotoFacts, SameIds DEF IsNew, At, Unwritten
<1>4. OwnRemovals(q)'
  BY <1>1, GotoFacts DEF Own, OwnRemovals, Removing, At, CheckPasses, DanglingVotes,
     DanglingReports, Exists, Unwritten
<1>5. OwnLocks(q)'
  <2>1. AnyLock(q)' = AnyLock(q) /\ XLocks(q)' = XLocks(q) /\ VoteLocks(q)' = VoteLocks(q)
    BY <1>1, GotoFacts DEF AnyLock, XLocks, NLocks, KLocks, VoteLocks, At
  <2>2. \A o \in Others(q) : /\ XLocks(o)' = XLocks(o) /\ AnyLock(o)' = AnyLock(o)
                             /\ VoteLocks(o)' = VoteLocks(o)
    BY <1>1, GotoFacts, Frame DEF Others
  <2> QED
    BY <1>1, <2>1, <2>2 DEF Own, OwnLocks, Others, Exists, Unwritten
<1> QED
  BY <1>1, <1>2, <1>3, <1>4, <1>5, GotoFacts, LocalStep DEF Own, Unwritten, Inv, TypeOK

-----------------------------------------------------------------------------
(* Commits *)

\* After a commit of q, the others' parts of Inv stand if the rows that they have
\* locked or read are still as they need them.
LEMMA CommitStep ==
    ASSUME Inv, NEW q \in Requests, tx' = [tx EXCEPT ![q] = Idle], UNCHANGED used,
           reports' \in [ReportIds -> Row \cup {NULL}],
           votes' \in [ReportIds -> Ballot],
           count' \in [Companies -> Int],
           \A r \in ReportIds : Exists(r)' => r \in used,
           NothingDangles', VoteSumAgrees',
           \A p \in Others(q) :
              /\ \A r \in AnyLock(p) : Exists(r)'
              /\ \A rv \in VoteLocks(p) : votes'[rv[1]][rv[2]] # 0
              /\ IsNew(p) => reports'[tx[p].report] = NULL
              /\ OwnReads(p)'
              /\ At(p, {"delete_bump", "delete_commit"}) => CheckPasses(p)'
    PROVE  Inv'
<1>1. /\ tx' \in [Requests -> Tx] /\ tx'[q] = Idle
      /\ \A p \in Requests \ {q} : tx'[p] = tx[p]
  BY DEF Inv, TypeOK, Idle, Tx, Stage
<1>2. Own(q)'
  <2>1. tx'[q].pc = "idle" /\ tx'[q].delV = {} /\ tx'[q].delR = {}
    BY <1>1 DEF Idle
  <2>2. OwnStage(q)'
    BY <2>1 DEF OwnStage, At
  <2>3. OwnLocks(q)' /\ OwnRemovals(q)' /\ OwnReads(q)'
    BY <2>1, NothingHeld DEF Locking
  <2>4. OwnIds(q)'
    BY <1>1, KnownIds DEF Idle, IsNew, At
  <2> QED
    BY <1>1, <2>2, <2>3, <2>4 DEF Own
<1>3. ASSUME NEW p \in Others(q)
      PROVE  Own(p)'
  <2>1. Own(p) /\ tx'[p] = tx[p] /\ p \in Requests
    BY <1>1, InvOwn DEF Others
  <2>2. /\ AnyLock(p)' = AnyLock(p) /\ XLocks(p)' = XLocks(p)
        /\ VoteLocks(p)' = VoteLocks(p)
        /\ Removing(p)' = Removing(p) /\ IsNew(p)' = IsNew(p)
    BY <2>1, Frame
  <2>3. OwnStage(p)'
    BY <2>1 DEF Own, OwnStage, At
  <2>4. OwnRemovals(p)'
    BY <1>3, <2>1, <2>2 DEF Own, OwnRemovals, At
  <2>5. \A o \in Requests \ {p, q} : /\ tx'[o] = tx[o] /\ IsNew(o)' = IsNew(o)
                                     /\ AnyLock(o)' = AnyLock(o) /\ XLocks(o)' = XLocks(o)
                                     /\ VoteLocks(o)' = VoteLocks(o)
    BY <1>1, Frame
  <2>6. ~IsNew(q)' /\ AnyLock(q)' = {} /\ XLocks(q)' = {} /\ VoteLocks(q)' = {}
    BY <1>1 DEF Idle, IsNew, AnyLock, XLocks, NLocks, KLocks, VoteLocks, At
  <2>7. OwnLocks(p)'
    BY <1>3, <2>1, <2>2, <2>5, <2>6 DEF Own, OwnLocks, Others
  <2>8. OwnIds(p)'
    <3>1. IsNew(p) => tx[p].report # NULL
      BY <2>1, TablesAssumption DEF Own, OwnStage, IsNew, At
    <3>2. tx'[q].report = NULL /\ tx'[q].parent = NULL
      BY <1>1 DEF Idle
    <3> QED
      BY <1>3, <2>1, <2>2, <2>5, <2>6, <3>1, <3>2 DEF Own, OwnIds, Others, Exists
  <2> QED
    BY <1>1, <1>3, <2>1, <2>3, <2>4, <2>7, <2>8 DEF Own, Inv, TypeOK
<1>4. used' \subseteq ReportIds
  BY DEF Inv, TypeOK
<1>5. \A p \in Requests : Own(p)'
  BY <1>2, <1>3 DEF Others
<1> QED
  BY <1>1, <1>4, <1>5, OwnInv

\* The commit of an edit changes a text and no reference.
LEMMA EditCommitInv ==
    ASSUME Inv, NEW q \in Requests, EditCommit(q)
    PROVE  Inv'
<1> DEFINE r == tx[q].report
           t == tx[q].text
<1>1. Own(q) /\ tx[q].pc = "edit_commit"
  BY InvOwn DEF EditCommit, At
<1>2. r \in ReportIds /\ t \in Texts /\ reports[r] \in Row
  <2>1. r \in ReportIds /\ t \in Texts
    BY <1>1 DEF Own, OwnStage, At
  <2>2. r \in AnyLock(q)
    BY <1>1 DEF AnyLock, NLocks, At
  <2>3. Exists(r)
    BY <1>1, <2>2 DEF Own, OwnLocks
  <2> QED
    BY <2>1, <2>3 DEF Inv, TypeOK, Exists
<1>3. reports' = [reports EXCEPT ![r] = [reports[r] EXCEPT !.text = t]]
  BY DEF EditCommit
<1>4. [reports[r] EXCEPT !.text = t] \in Row
  BY <1>2 DEF Row
<1> HIDE DEF r, t
\* Only a text has changed.
<1>5. /\ reports' \in [ReportIds -> Row \cup {NULL}]
      /\ \A s \in ReportIds : /\ Exists(s)' <=> Exists(s)
                              /\ reports'[s].parent = reports[s].parent
                              /\ reports'[s].company = reports[s].company
                              /\ reports'[s].vote_sum = reports[s].vote_sum
  <2>1. reports \in [ReportIds -> Row \cup {NULL}]
    BY DEF Inv, TypeOK
  <2>2. \A s \in ReportIds : s # r => reports'[s] = reports[s]
    BY <1>3, <2>1
  <2>3. reports'[r] = [reports[r] EXCEPT !.text = t]
    BY <1>2, <1>3, <2>1
  <2>4. /\ reports'[r].parent = reports[r].parent /\ reports'[r].company = reports[r].company
        /\ reports'[r].vote_sum = reports[r].vote_sum
        /\ reports'[r] # NULL /\ reports[r] # NULL
    BY <1>2, <1>4, <2>3, TablesAssumption DEF Row
  <2>5. reports' \in [ReportIds -> Row \cup {NULL}]
    BY <1>2, <1>3, <1>4, <2>1
  <2> QED
    BY <2>2, <2>4, <2>5 DEF Exists
<1>6. UNCHANGED <<votes, count, used>> /\ tx' = [tx EXCEPT ![q] = Idle]
  BY DEF EditCommit
<1>7. NothingDangles' /\ VoteSumAgrees'
  <2>1. \A s \in ReportIds : Exists(s) => reports[s].parent \in ReportIds \cup {NULL}
    BY DEF Inv, TypeOK, Exists, Row
  <2>2. NothingDangles'
    BY <1>5, <1>6, <2>1 DEF Inv, NothingDangles
  <2> QED
    BY <1>5, <1>6, <2>2 DEF Inv, VoteSumAgrees
<1>8. ASSUME NEW p \in Others(q)
      PROVE  /\ \A s \in AnyLock(p) : Exists(s)'
             /\ \A rv \in VoteLocks(p) : votes'[rv[1]][rv[2]] # 0
             /\ IsNew(p) => reports'[tx[p].report] = NULL
             /\ OwnReads(p)'
             /\ At(p, {"delete_bump", "delete_commit"}) => CheckPasses(p)'
  <2>1. Own(p) /\ tx'[p] = tx[p]
    BY <1>6, InvOwn DEF Others, Inv, TypeOK
  <2>2. AnyLock(p) \subseteq ReportIds /\ tx[p].delR \subseteq ReportIds
    BY <2>1 DEF Own, OwnStage, AnyLock, XLocks, NLocks, KLocks, At, Tx
  <2>3. \A s \in AnyLock(p) : Exists(s)'
    BY <1>5, <2>1, <2>2 DEF Own, OwnLocks
  <2>4. \A rv \in VoteLocks(p) : votes'[rv[1]][rv[2]] # 0
    BY <1>6, <2>1 DEF Own, OwnLocks
  <2>5. IsNew(p) => reports'[tx[p].report] = NULL
    BY <1>5, <2>1 DEF Own, OwnIds, OwnStage, IsNew, At, Exists
  <2>6. OwnReads(p)'
    BY <1>5, <1>6, <2>1 DEF Own, OwnReads, OwnStage, At, Tx
  <2>7. At(p, {"delete_bump", "delete_commit"}) => CheckPasses(p)'
    BY <1>5, <1>6, <2>1 DEF Own, OwnRemovals, CheckPasses, DanglingVotes, DanglingReports
  <2> QED
    BY <2>3, <2>4, <2>5, <2>6, <2>7
<1>9. /\ votes' \in [ReportIds -> Ballot] /\ count' \in [Companies -> Int]
      /\ \A s \in ReportIds : Exists(s)' => s \in used
  BY <1>5, <1>6 DEF Inv, TypeOK, DrawnOnce
<1> QED
  BY <1>5, <1>6, <1>7, <1>8, <1>9, CommitStep

\* The commit of a vote keeps sum and votes together.
LEMMA VoteCommitInv ==
    ASSUME Inv, NEW q \in Requests, VoteCommit(q)
    PROVE  Inv'
<1> DEFINE r == tx[q].report
           u == tx[q].user
           x == Toggle(tx[q].seen, tx[q].value)
           d == Delta(tx[q].seen, tx[q].value)
<1>1. Own(q) /\ tx[q].pc = "vote_commit"
  BY InvOwn DEF VoteCommit, At
<1>2. /\ r \in ReportIds /\ u \in Users /\ tx[q].value \in Value
      /\ reports[r] \in Row /\ Exists(r) /\ votes[r] \in Ballot
      /\ tx[q].seen = votes[r][u] /\ tx[q].seen \in Value \cup {0}
  <2>1. r \in ReportIds /\ u \in Users /\ tx[q].value \in Value
    BY <1>1 DEF Own, OwnStage, At
  <2>2. Exists(r) /\ tx[q].seen = votes[r][u]
    BY <1>1 DEF Own, OwnReads, At
  <2> QED
    BY <2>1, <2>2 DEF Inv, TypeOK, Exists, Ballot
<1>3. x \in Value \cup {0} /\ d \in Int
  BY <1>2 DEF Toggle, Delta, Value
<1>4. /\ votes' = [votes EXCEPT ![r] = [votes[r] EXCEPT ![u] = x]]
      /\ reports' = [reports EXCEPT ![r] = [reports[r] EXCEPT !.vote_sum = reports[r].vote_sum + d]]
      /\ UNCHANGED <<count, used>> /\ tx' = [tx EXCEPT ![q] = Idle]
  BY DEF VoteCommit
<1>5. Tally([votes[r] EXCEPT ![u] = x]) = Tally(votes[r]) + d
  BY <1>2, DeltaIsTallyChange
<1> HIDE DEF r, u, x, d
\* Only u's vote on r and the sum of r have changed.
<1>6. /\ votes' \in [ReportIds -> Ballot]
      /\ votes'[r] = [votes[r] EXCEPT ![u] = x]
      /\ \A s \in ReportIds : s # r => votes'[s] = votes[s]
      /\ \A s \in ReportIds : \A w : <<s, w>> # <<r, u>> => votes'[s][w] = votes[s][w]
  <2>1. votes \in [ReportIds -> Ballot] /\ [votes[r] EXCEPT ![u] = x] \in Ballot
    BY <1>2, <1>3 DEF Inv, TypeOK, Ballot
  <2>2. /\ votes' \in [ReportIds -> Ballot]
        /\ votes'[r] = [votes[r] EXCEPT ![u] = x]
        /\ \A s \in ReportIds : s # r => votes'[s] = votes[s]
    BY <1>2, <1>4, <2>1
  <2>3. \A w : w # u => [votes[r] EXCEPT ![u] = x][w] = votes[r][w]
    BY <1>2 DEF Ballot
  <2> QED
    BY <2>2, <2>3
<1>7. /\ reports' \in [ReportIds -> Row \cup {NULL}]
      /\ \A s \in ReportIds : /\ Exists(s)' <=> Exists(s)
                              /\ reports'[s].parent = reports[s].parent
                              /\ reports'[s].company = reports[s].company
                              /\ s # r => reports'[s] = reports[s]
      /\ reports'[r].vote_sum = reports[r].vote_sum + d
  <2> DEFINE n == [reports[r] EXCEPT !.vote_sum = reports[r].vote_sum + d]
  <2>1. reports \in [ReportIds -> Row \cup {NULL}]
    BY DEF Inv, TypeOK
  <2>2. /\ n \in Row /\ n.vote_sum = reports[r].vote_sum + d
        /\ n.parent = reports[r].parent /\ n.company = reports[r].company
    BY <1>2, <1>3 DEF Row
  <2>3. reports' = [reports EXCEPT ![r] = n]
    BY <1>4
  <2> HIDE DEF n
  <2>4. reports' \in [ReportIds -> Row \cup {NULL}] /\ reports'[r] = n
    BY <1>2, <2>1, <2>2, <2>3
  <2>5. \A s \in ReportIds : s # r => reports'[s] = reports[s]
    BY <2>1, <2>3
  <2> QED
    BY <1>2, <2>2, <2>4, <2>5, TablesAssumption DEF Exists
<1>8. VoteSumAgrees'
  <2>1. reports'[r].vote_sum = Tally(votes'[r])
    BY <1>2, <1>5, <1>6, <1>7 DEF Inv, VoteSumAgrees
  <2> QED
    BY <1>6, <1>7, <2>1 DEF Inv, VoteSumAgrees
<1>9. NothingDangles'
  <2>1. \A s \in ReportIds : Exists(s) => reports[s].parent \in ReportIds \cup {NULL}
    BY DEF Inv, TypeOK, Exists, Row
  <2> QED
    BY <1>2, <1>6, <1>7, <2>1 DEF Inv, NothingDangles
<1>10. ASSUME NEW p \in Others(q)
       PROVE  /\ \A s \in AnyLock(p) : Exists(s)'
              /\ \A rv \in VoteLocks(p) : votes'[rv[1]][rv[2]] # 0
              /\ IsNew(p) => reports'[tx[p].report] = NULL
              /\ OwnReads(p)'
              /\ At(p, {"delete_bump", "delete_commit"}) => CheckPasses(p)'
  <2>1. Own(p) /\ tx'[p] = tx[p]
    BY <1>4, InvOwn DEF Others, Inv, TypeOK
  <2>2. AnyLock(p) \subseteq ReportIds /\ tx[p].delR \subseteq ReportIds
    BY <2>1 DEF Own, OwnStage, AnyLock, XLocks, NLocks, KLocks, At, Tx
  <2>3. \A s \in AnyLock(p) : Exists(s)'
    BY <1>7, <2>1, <2>2 DEF Own, OwnLocks
  \* q has the row of r locked, so nobody else votes on it or deletes it.
  <2>4. r \notin XLocks(p)
    <3>1. r \in XLocks(q)
      BY <1>1 DEF XLocks, At, r
    <3> QED
      BY <1>1, <3>1 DEF Own, OwnLocks, AnyLock
  <2>5. \A rv \in VoteLocks(p) : votes'[rv[1]][rv[2]] # 0
    <3>1. SUFFICES ASSUME NEW rv \in VoteLocks(p)
                   PROVE  votes'[rv[1]][rv[2]] # 0
      OBVIOUS
    <3>2. votes[rv[1]][rv[2]] # 0 /\ rv \notin VoteLocks(q)
      BY <1>1, <2>1 DEF Own, OwnLocks
    <3>3. rv \in ReportIds \X Users
      BY <2>1 DEF Own, OwnStage, VoteLocks, At, Tx
    <3>4. rv # <<r, u>>
      <4>1. votes[r][u] # 0 => <<r, u>> \in VoteLocks(q)
        BY <1>1, <1>2 DEF VoteLocks, At, r, u
      <4> QED
        BY <3>2, <4>1
    <3> QED
      BY <1>6, <3>2, <3>3, <3>4
  <2>6. IsNew(p) => reports'[tx[p].report] = NULL
    BY <1>7, <2>1 DEF Own, OwnIds, OwnStage, IsNew, At, Exists
  <2>7. OwnReads(p)'
    <3>1. At(p, {"vote_flush", "vote_commit"}) => tx[p].report # r /\ tx[p].report \in ReportIds
      BY <2>1, <2>4 DEF Own, OwnStage, XLocks, At
    <3>2. tx[p].parent \in ReportIds \cup {NULL}
      BY <2>1 DEF Own, Tx
    <3> QED
      BY <1>6, <1>7, <2>1, <3>1, <3>2 DEF Own, OwnReads, At
  <2>8. At(p, {"delete_bump", "delete_commit"}) => CheckPasses(p)'
    <3>1. r \notin tx[p].delR
      BY <2>4 DEF XLocks
    <3>2. \A rv \in tx[p].delR \X Users : votes'[rv[1]][rv[2]] = votes[rv[1]][rv[2]]
      BY <1>6, <2>2, <3>1
    <3>3. DanglingVotes(p)' = DanglingVotes(p)
      BY <2>1, <3>2 DEF DanglingVotes
    <3>4. DanglingReports(p)' = DanglingReports(p)
      BY <1>7, <2>1 DEF DanglingReports
    <3> QED
      BY <2>1, <3>3, <3>4 DEF Own, OwnRemovals, CheckPasses
  <2> QED
    BY <2>3, <2>5, <2>6, <2>7, <2>8
<1>11. /\ count' \in [Companies -> Int]
       /\ \A s \in ReportIds : Exists(s)' => s \in used
  BY <1>4, <1>7 DEF Inv, TypeOK, DrawnOnce
<1> QED
  BY <1>4, <1>6, <1>7, <1>8, <1>9, <1>10, <1>11, CommitStep

\* The commit of a new report: its id was free, its parent still stands.
LEMMA CreateCommitInv ==
    ASSUME Inv, NEW q \in Requests, CreateCommit(q)
    PROVE  Inv'
<1> DEFINE n == tx[q].report
           row == [company |-> tx[q].company, user |-> tx[q].user, parent |-> tx[q].parent,
                   text |-> tx[q].text, vote_sum |-> 0]
<1>1. Own(q) /\ tx[q].pc = "create_commit" /\ tx[q] \in Tx
  BY InvOwn DEF CreateCommit, At, Own
<1>2. /\ n \in ReportIds /\ ~Exists(n) /\ n \in used /\ n # NULL
      /\ row \in Row /\ row.vote_sum = 0
      /\ row.parent = tx[q].parent /\ row.company = tx[q].company
  <2>1. n \in ReportIds /\ ~Exists(n) /\ n \in used \cup {NULL}
    BY <1>1 DEF Own, OwnStage, OwnIds, IsNew, At
  <2>2. row \in Row
    BY <1>1 DEF Own, OwnStage, At, Row, Tx
  <2> QED
    BY <2>1, <2>2, TablesAssumption
<1>3. /\ reports' = [reports EXCEPT ![n] = row]
      /\ UNCHANGED <<votes, used>> /\ tx' = [tx EXCEPT ![q] = Idle]
      /\ count' = IF tx[q].parent = NULL THEN [count EXCEPT ![tx[q].company] = @ + 1] ELSE count
  BY DEF CreateCommit
\* The parent is there, top-level and of the same company.
<1>4. tx[q].parent # NULL =>
         /\ tx[q].parent \in ReportIds /\ Exists(tx[q].parent)
         /\ reports[tx[q].parent].parent = NULL
         /\ reports[tx[q].parent].company = tx[q].company
  <2>1. tx[q].parent # NULL => tx[q].parent \in AnyLock(q) /\ tx[q].parent \in ReportIds
    BY <1>1 DEF AnyLock, KLocks, At, Tx
  <2> QED
    BY <1>1, <2>1 DEF Own, OwnLocks, OwnReads, At
<1> HIDE DEF n, row
\* Row n has come into being, and nothing else has changed.
<1>5. /\ reports' \in [ReportIds -> Row \cup {NULL}]
      /\ reports'[n] = row /\ reports'[n] # NULL
      /\ \A s \in ReportIds : s # n => reports'[s] = reports[s]
  BY <1>2, <1>3, TablesAssumption DEF Inv, TypeOK
<1>6. votes[n] = NoVotes
  BY <1>2 DEF Inv, NothingDangles
<1>7. VoteSumAgrees'
  BY <1>2, <1>3, <1>5, <1>6, TallyType DEF Inv, VoteSumAgrees, Exists
<1>8. NothingDangles'
  <2>1. \A s \in ReportIds : Exists(s) =>
           reports[s].parent \in ReportIds \cup {NULL} /\ reports[s].parent # n
    BY <1>2 DEF Inv, TypeOK, NothingDangles, Exists, Row
  <2>2. tx[q].parent # n
    BY <1>2, <1>4
  <2> QED
    BY <1>2, <1>3, <1>4, <1>5, <2>1, <2>2 DEF Inv, NothingDangles, Exists
<1>9. ASSUME NEW p \in Others(q)
      PROVE  /\ \A s \in AnyLock(p) : Exists(s)'
             /\ \A rv \in VoteLocks(p) : votes'[rv[1]][rv[2]] # 0
             /\ IsNew(p) => reports'[tx[p].report] = NULL
             /\ OwnReads(p)'
             /\ At(p, {"delete_bump", "delete_commit"}) => CheckPasses(p)'
  <2>1. Own(p) /\ tx'[p] = tx[p]
    BY <1>3, InvOwn DEF Others, Inv, TypeOK
  <2>2. AnyLock(p) \subseteq ReportIds /\ tx[p].delR \subseteq ReportIds
    BY <2>1 DEF Own, OwnStage, AnyLock, XLocks, NLocks, KLocks, At, Tx
  <2>3. \A s \in AnyLock(p) : Exists(s)'
    BY <1>5, <2>1, <2>2 DEF Own, OwnLocks, Exists
  <2>4. \A rv \in VoteLocks(p) : votes'[rv[1]][rv[2]] # 0
    BY <1>3, <2>1 DEF Own, OwnLocks
  \* Nobody else knows the new id.
  <2>5. n \notin {tx[p].report, tx[p].parent}
    BY <1>1 DEF Own, OwnIds, IsNew, At, n
  <2>6. IsNew(p) => reports'[tx[p].report] = NULL
    BY <1>5, <2>1, <2>5 DEF Own, OwnIds, OwnStage, IsNew, At, Exists
  <2>7. OwnReads(p)'
    <3>1. At(p, {"vote_flush", "vote_commit"}) => tx[p].report \in ReportIds
      BY <2>1 DEF Own, OwnStage, At
    <3>2. tx[p].parent \in ReportIds \cup {NULL}
      BY <2>1 DEF Own, Tx
    <3> QED
      BY <1>3, <1>5, <2>1, <2>5, <3>1, <3>2 DEF Own, OwnReads, At, Exists
  <2>8. At(p, {"delete_bump", "delete_commit"}) => CheckPasses(p)'
    \* q has its parent locked, so p has not deleted that.
    <3>1. tx[q].parent \notin tx[p].delR
      <4>1. CASE tx[q].parent = NULL
        BY <2>2, <4>1, TablesAssumption
      <4>2. CASE tx[q].parent # NULL
        <5>1. tx[q].parent \in AnyLock(q)
          BY <1>1, <4>2 DEF AnyLock, KLocks, At
        <5>2. XLocks(p) \cap AnyLock(q) = {}
          BY <1>1 DEF Own, OwnLocks
        <5> QED
          BY <5>1, <5>2 DEF XLocks
      <4> QED
        BY <4>1, <4>2
    <3>2. DanglingVotes(p)' = DanglingVotes(p)
      BY <1>3, <2>1 DEF DanglingVotes
    <3>3. DanglingReports(p)' = DanglingReports(p)
      BY <1>2, <1>5, <2>1, <3>1 DEF DanglingReports, Exists
    <3> QED
      BY <2>1, <3>2, <3>3 DEF Own, OwnRemovals, CheckPasses
  <2> QED
    BY <2>3, <2>4, <2>6, <2>7, <2>8
<1>10. count' \in [Companies -> Int]
  <2>1. tx[q].company \in Companies /\ count \in [Companies -> Int]
    BY <1>1 DEF Own, OwnStage, At, Inv, TypeOK
  <2> QED
    BY <1>3, <2>1
<1>11. /\ votes' \in [ReportIds -> Ballot]
       /\ \A s \in ReportIds : Exists(s)' => s \in used
  BY <1>2, <1>3, <1>5 DEF Inv, TypeOK, DrawnOnce, Exists
<1> QED
  BY <1>3, <1>5, <1>7, <1>8, <1>9, <1>10, <1>11, CommitStep

\* The commit of a deletion takes every vote and challenge along.
LEMMA DeleteCommitInv ==
    ASSUME Inv, NEW q \in Requests, DeleteCommit(q)
    PROVE  Inv'
<1> DEFINE V == tx[q].delV
           R == tx[q].delR
<1>1. Own(q) /\ tx[q].pc = "delete_commit" /\ tx[q] \in Tx
  BY InvOwn DEF DeleteCommit, At, Own
\* The votes removed are all the votes on the reports removed, and no others.
<1>2. /\ R \subseteq ReportIds /\ V \subseteq ReportIds \X Users
      /\ \A rv \in V : rv[1] \in R
      /\ \A s \in R, u \in Users : votes[s][u] # 0 => <<s, u>> \in V
      /\ \A s \in ReportIds : Exists(s) /\ s \notin R => reports[s].parent \notin R
  <2>1. R \subseteq ReportIds /\ V \subseteq ReportIds \X Users
    BY <1>1 DEF Tx
  <2>2. \A rv \in V : rv[1] \in R
    BY <1>1 DEF Own, OwnRemovals, Removing, At
  <2>3. DanglingVotes(q) = {} /\ DanglingReports(q) = {}
    BY <1>1 DEF Own, OwnRemovals, CheckPasses, At
  <2>4. \A s \in R, u \in Users : votes[s][u] # 0 => <<s, u>> \in V
    BY <2>3 DEF DanglingVotes
  <2>5. \A s \in ReportIds : Exists(s) /\ s \notin R => reports[s].parent \notin R
    BY <2>3 DEF DanglingReports
  <2> QED
    BY <2>1, <2>2, <2>4, <2>5
<1>3. /\ reports' = [s \in ReportIds |-> IF s \in R THEN NULL ELSE reports[s]]
      /\ votes' = [s \in ReportIds |->
                      [u \in Users |-> IF <<s, u>> \in V THEN 0 ELSE votes[s][u]]]
      /\ count' = IF tx[q].parent = NULL THEN [count EXCEPT ![tx[q].company] = @ - 1] ELSE count
      /\ UNCHANGED used /\ tx' = [tx EXCEPT ![q] = Idle]
  BY DEF DeleteCommit
<1>4. XLocks(q) = R /\ R \subseteq AnyLock(q) /\ VoteLocks(q) = V
  BY <1>1 DEF XLocks, AnyLock, VoteLocks, At
<1> HIDE DEF V, R
<1>5. /\ reports' \in [ReportIds -> Row \cup {NULL}]
      /\ \A s \in ReportIds : reports'[s] = IF s \in R THEN NULL ELSE reports[s]
  BY <1>3 DEF Inv, TypeOK
<1>6. /\ votes' \in [ReportIds -> Ballot]
      /\ \A s \in ReportIds, u \in Users : <<s, u>> \notin V => votes'[s][u] = votes[s][u]
      /\ \A s \in ReportIds : s \notin R => votes'[s] = votes[s]
      /\ \A s \in ReportIds : s \in R => votes'[s] = NoVotes
  <2>1. votes \in [ReportIds -> Ballot]
    BY DEF Inv, TypeOK
  <2>2. \A s \in ReportIds : votes'[s] = [u \in Users |-> IF <<s, u>> \in V THEN 0 ELSE votes[s][u]]
    BY <1>3
  <2>3. votes' \in [ReportIds -> Ballot]
    BY <1>3, <2>1 DEF Ballot
  <2>4. \A s \in ReportIds, u \in Users : <<s, u>> \notin V => votes'[s][u] = votes[s][u]
    BY <2>2
  <2>5. \A s \in ReportIds : s \notin R => votes'[s] = votes[s]
    BY <1>2, <2>1, <2>2 DEF Ballot
  <2>6. \A s \in ReportIds : s \in R => votes'[s] = NoVotes
    BY <1>2, <2>2 DEF NoVotes
  <2> QED
    BY <2>3, <2>4, <2>5, <2>6
<1>7. VoteSumAgrees'
  BY <1>5, <1>6 DEF Inv, VoteSumAgrees, Exists
<1>8. NothingDangles'
  <2>1. \A s \in ReportIds : Exists(s) => reports[s].parent \in ReportIds \cup {NULL}
    BY DEF Inv, TypeOK, Exists, Row
  <2>2. ASSUME NEW s \in ReportIds, votes'[s] # NoVotes
        PROVE  Exists(s)'
    BY <1>5, <1>6, <2>2 DEF Inv, NothingDangles, Exists
  <2>3. ASSUME NEW s \in ReportIds, Exists(s)', reports'[s].parent # NULL
        PROVE  LET p == reports'[s].parent
               IN  /\ reports'[p] # NULL /\ reports'[p].parent = NULL
                   /\ reports'[p].company = reports'[s].company
    <3>1. s \notin R /\ reports'[s] = reports[s] /\ Exists(s)
      BY <1>5, <2>3 DEF Exists
    <3>2. reports[s].parent \in ReportIds /\ reports[s].parent \notin R
      BY <1>2, <2>1, <2>3, <3>1
    <3> QED
      BY <1>5, <2>3, <3>1, <3>2 DEF Inv, NothingDangles, Exists
  <2> QED
    BY <2>2, <2>3 DEF NothingDangles, Exists
<1>9. ASSUME NEW p \in Others(q)
      PROVE  /\ \A s \in AnyLock(p) : Exists(s)'
             /\ \A rv \in VoteLocks(p) : votes'[rv[1]][rv[2]] # 0
             /\ IsNew(p) => reports'[tx[p].report] = NULL
             /\ OwnReads(p)'
             /\ At(p, {"delete_bump", "delete_commit"}) => CheckPasses(p)'
  <2>1. Own(p) /\ tx'[p] = tx[p]
    BY <1>3, InvOwn DEF Others, Inv, TypeOK
  <2>2. AnyLock(p) \subseteq ReportIds /\ tx[p].delR \subseteq ReportIds
    BY <2>1 DEF Own, OwnStage, AnyLock, XLocks, NLocks, KLocks, At, Tx
  <2>3. R \cap AnyLock(p) = {} /\ V \cap VoteLocks(p) = {}
    BY <1>1, <1>4 DEF Own, OwnLocks
  <2>4. \A s \in AnyLock(p) : Exists(s)'
    BY <1>5, <2>1, <2>2, <2>3 DEF Own, OwnLocks, Exists
  <2>5. \A rv \in VoteLocks(p) : votes'[rv[1]][rv[2]] # 0
    <3>1. VoteLocks(p) \subseteq ReportIds \X Users
      BY <2>1 DEF Own, OwnStage, VoteLocks, At, Tx
    <3> QED
      BY <1>6, <2>1, <2>3, <3>1 DEF Own, OwnLocks
  <2>6. IsNew(p) => reports'[tx[p].report] = NULL
    BY <1>5, <2>1 DEF Own, OwnIds, OwnStage, IsNew, At, Exists
  <2>7. OwnReads(p)'
    \* A voter has its report locked, so its votes stay.
    <3>1. At(p, {"vote_flush", "vote_commit"}) => tx[p].report \notin R /\ tx[p].report \in ReportIds
      BY <2>1, <2>3 DEF Own, OwnStage, AnyLock, XLocks, At
    <3>2. tx[p].parent \in ReportIds \cup {NULL}
      BY <2>1 DEF Own, Tx
    <3> QED
      BY <1>5, <1>6, <2>1, <3>1, <3>2 DEF Own, OwnReads, At, Exists
  <2>8. At(p, {"delete_bump", "delete_commit"}) => CheckPasses(p)'
    <3>1. DanglingVotes(p)' \subseteq DanglingVotes(p)
      <4>1. \A s \in tx[p].delR, u \in Users : votes'[s][u] # 0 => votes[s][u] # 0
        BY <1>6, <2>2 DEF NoVotes
      <4> QED
        BY <2>1, <4>1 DEF DanglingVotes
    <3>2. DanglingReports(p)' \subseteq DanglingReports(p)
      BY <1>5, <2>1 DEF DanglingReports, Exists
    <3> QED
      BY <2>1, <3>1, <3>2 DEF Own, OwnRemovals, CheckPasses
  <2> QED
    BY <2>4, <2>5, <2>6, <2>7, <2>8
<1>10. count' \in [Companies -> Int]
  <2>1. tx[q].company \in Companies /\ count \in [Companies -> Int]
    BY <1>1 DEF Own, OwnStage, At, Inv, TypeOK
  <2> QED
    BY <1>3, <2>1
<1>11. \A s \in ReportIds : Exists(s)' => s \in used
  BY <1>5 DEF Inv, DrawnOnce, Exists
<1> QED
  BY <1>3, <1>5, <1>6, <1>7, <1>8, <1>9, <1>10, <1>11, CommitStep

-----------------------------------------------------------------------------
(* The invariant *)

\* The empty tables satisfy the invariant.
LEMMA InitInv == Init => Inv
<1> SUFFICES ASSUME Init
             PROVE  Inv
  OBVIOUS
<1>1. /\ \A r \in ReportIds : ~Exists(r) /\ votes[r] = NoVotes
      /\ \A q \in Requests : tx[q] = Idle
      /\ used = {}
  BY DEF Init, Exists
<1>2. TypeOK
  BY DEF TypeOK, Init, Ballot, NoVotes, Idle, Tx, Stage
<1>3. \A q \in Requests : /\ tx[q].pc = "idle" /\ tx[q].report = NULL /\ tx[q].parent = NULL
                          /\ tx[q].delV = {} /\ tx[q].delR = {}
  BY <1>1 DEF Idle
<1>4. \A q \in Requests : /\ XLocks(q) = {} /\ NLocks(q) = {} /\ KLocks(q) = {}
                          /\ VoteLocks(q) = {}
  BY <1>3 DEF XLocks, NLocks, KLocks, VoteLocks, At
<1>5. StageOK /\ VoteReadStable /\ ChecksStand /\ ParentsStand
  BY <1>3 DEF StageOK, VoteReadStable, ChecksStand, ParentsStand, At
<1>6. DrawnOnce /\ LocksHold /\ VoteLocksHold /\ RemovalsMatch
  BY <1>1, <1>3, <1>4 DEF DrawnOnce, LocksHold, VoteLocksHold, RemovalsMatch, At
<1>7. NothingDangles /\ VoteSumAgrees
  BY <1>1 DEF NothingDangles, VoteSumAgrees
<1> QED
  BY <1>2, <1>5, <1>6, <1>7 DEF Inv

\* Every step preserves the invariant: one lemma per action.
LEMMA StepInv == Inv /\ [Next]_vars => Inv'
<1> SUFFICES ASSUME Inv, [Next]_vars
             PROVE  Inv'
  OBVIOUS
<1>1. CASE UNCHANGED vars
  <2>1. /\ reports' = reports /\ votes' = votes /\ count' = count /\ used' = used /\ tx' = tx
    BY <1>1 DEF vars
  <2>2. TypeOK' /\ StageOK' /\ DrawnOnce' /\ VoteReadStable' /\ ParentsStand'
    BY <2>1 DEF Inv, TypeOK, StageOK, DrawnOnce, VoteReadStable, ParentsStand, Exists, At
  <2>3. LocksHold' /\ VoteLocksHold'
    BY <2>1, Frame DEF Inv, LocksHold, VoteLocksHold, Exists, Others
  <2>4. RemovalsMatch'
    BY <2>1, Frame DEF Inv, RemovalsMatch, At
  <2>5. ChecksStand'
    BY <2>1 DEF Inv, ChecksStand, At, CheckPasses, DanglingVotes, DanglingReports, Exists
  <2>6. NothingDangles' /\ VoteSumAgrees'
    BY <2>1 DEF Inv, NothingDangles, VoteSumAgrees, Exists
  <2> QED
    BY <2>2, <2>3, <2>4, <2>5, <2>6 DEF Inv
<1>2. ASSUME NEW q \in Requests, Arrive(q)
      PROVE  Inv'
  BY <1>2, CreateGetInv, EditGetInv, VoteGetInv, DeleteGetInv DEF Arrive
<1>3. ASSUME NEW q \in Requests, Step(q)
      PROVE  Inv'
  <2>1. CASE CreateInsert(q) \/ CreateBump(q) \/ CreateCommit(q) \/ EditFlush(q) \/ EditCommit(q)
    BY <2>1, CreateInsertInv, CreateBumpInv, CreateCommitInv, EditFlushInv, EditCommitInv
  <2>2. CASE VoteRead(q) \/ VoteFlush(q) \/ VoteCommit(q)
    BY <2>2, VoteReadInv, VoteFlushInv, VoteCommitInv
  <2>3. CASE DeleteSubs(q) \/ DeleteCommit(q)
    BY <2>3, DeleteSubsInv, DeleteCommitInv
  <2>4. CASE DeleteSubVotes(q) \/ DeleteVotes(q)
    BY <2>4, DropVotesInv DEF DeleteSubVotes, DeleteVotes, At
  <2>5. CASE DeleteSubReports(q) \/ DeleteReport(q)
    BY <2>5, DropReportsInv DEF DeleteSubReports, DeleteReport, At
  <2>6. CASE DeleteSubCheck(q) \/ DeleteCheck(q)
    BY <2>6, DeleteGotoInv DEF DeleteSubCheck, DeleteCheck, At
  <2>7. CASE DeleteBump(q)
    <3>1. CheckPasses(q)
      BY <2>7, InvOwn DEF DeleteBump, Own, OwnRemovals, At
    <3> QED
      BY <2>7, <3>1, DeleteGotoInv DEF DeleteBump, At
  <2>8. CASE Refuse(q)
    BY <2>8, RollbackInv DEF Refuse
  <2> QED
    BY <1>3, <2>1, <2>2, <2>3, <2>4, <2>5, <2>6, <2>7, <2>8 DEF Step
<1>4. ASSUME NEW q \in Requests, Abort(q) \/ Victim(q)
      PROVE  Inv'
  BY <1>4, RollbackInv DEF Abort, Victim
<1>5. ASSUME NEW r \in ReportIds, NotFound(r)
      PROVE  Inv'
  BY <1>1, <1>5 DEF NotFound
<1> QED
  BY <1>1, <1>2, <1>3, <1>4, <1>5 DEF Next

\* Inv holds in every state that the handlers can bring the tables into.
THEOREM Invariance == Spec => []Inv
  BY InitInv, StepInv, PTL DEF Spec

\* Every variable keeps its type; in particular a vote is only ever -1 or 1, and
\* a commit never writes into a row that is gone.
THEOREM TypeCorrect == Spec => []TypeOK
<1>1. Inv => TypeOK
  BY DEF Inv
<1> QED
  BY <1>1, Invariance, PTL

\* reports.vote_sum is the sum of the committed votes at every moment, however
\* votes, deletes, edits and creates interleave.
THEOREM VoteSumCorrect == Spec => []VoteSumAgrees
<1>1. Inv => VoteSumAgrees
  BY DEF Inv
<1> QED
  BY <1>1, Invariance, PTL

\* The vote that vote_on_report has read cannot change before it writes.
THEOREM VoteReadCorrect == Spec => []VoteReadStable
<1>1. Inv => VoteReadStable
  BY DEF Inv
<1> QED
  BY <1>1, Invariance, PTL

\* No vote without its report, no challenge without its claim.
THEOREM ReferencesCorrect == Spec => []NothingDangles
<1>1. Inv => NothingDangles
  BY DEF Inv
<1> QED
  BY <1>1, Invariance, PTL

-----------------------------------------------------------------------------
(* Deletions are whole *)

\* DeletesWhole of one request.
Whole(q) ==
    /\ tx[q].subs # {} => Listing(q)
    /\ \A s \in tx[q].subs :
          /\ s \in used \ InFlight
          /\ Exists(s) => reports[s].parent = tx[q].report
    /\ tx[q].delR \subseteq tx[q].subs \cup {tx[q].report}
    /\ At(q, {"delete_check", "delete_bump", "delete_commit"}) =>
          tx[q].report \in tx[q].delR \/ ~Exists(tx[q].report)

LEMMA InFlightIds ==
    /\ \A r : r \in InFlight <=> \E p \in Requests : IsNew(p) /\ tx[p].report = r
    /\ \A r : r \in InFlight' <=> \E p \in Requests : IsNew(p)' /\ tx'[p].report = r
  BY DEF InFlight, IsNew

\* A step of q leaves the others' handlers alone, and if q comes to have an id of
\* its own it draws it from the sequence.
LEMMA StepOfOne ==
    ASSUME Inv, NEW q \in Requests, Arrive(q) \/ Step(q) \/ Rollback(q)
    PROVE  /\ \A p \in Requests \ {q} : tx'[p] = tx[p]
           /\ used \subseteq used'
           /\ IsNew(q)' => \/ IsNew(q) /\ tx'[q].report = tx[q].report
                           \/ tx'[q].report \notin used
<1>1. tx \in [Requests -> Tx] /\ tx[q] \in Tx
  BY DEF Inv, TypeOK
<1>2. CASE CreateInsert(q)
  <2>1. PICK r \in ReportIds \ used :
           /\ used' = used \cup {r}
           /\ tx' = [tx EXCEPT ![q].report = r,
                               ![q].pc = IF tx[q].parent = NULL THEN "create_bump"
                                         ELSE "create_commit"]
    BY <1>2 DEF CreateInsert
  <2>2. tx'[q].report = r
    BY <1>1, <2>1 DEF Tx
  <2> QED
    BY <1>1, <2>1, <2>2
<1>3. CASE Rollback(q) \/ CreateCommit(q) \/ EditCommit(q) \/ VoteCommit(q) \/ DeleteCommit(q)
  <2>1. tx' = [tx EXCEPT ![q] = Idle] /\ used' = used
    BY <1>3 DEF Rollback, CreateCommit, EditCommit, VoteCommit, DeleteCommit, Unwritten
  <2> QED
    BY <1>1, <2>1 DEF IsNew, At, Idle
<1>4. CASE Arrive(q)
  <2>1. used' = used
    BY <1>4 DEF Arrive, CreateGet, EditGet, VoteGet, DeleteGet, Unwritten
  <2>2. \A p \in Requests \ {q} : tx'[p] = tx[p]
    <3>1. PICK t : tx' = [tx EXCEPT ![q] = t]
      BY <1>4, Zenon DEF Arrive, CreateGet, EditGet, VoteGet, DeleteGet
    <3> QED
      BY <1>1, <3>1
  <2>3. tx'[q].pc \in {"create_insert", "edit_flush", "vote_read", "delete_subs", "delete_votes"}
    <3>1. ASSUME NEW u \in Users, NEW c \in Companies, NEW p \in ReportIds \cup {NULL},
                 NEW t \in Texts, CreateGet(q, u, c, p, t)
          PROVE  tx'[q].pc = "create_insert"
      BY <1>1, <3>1 DEF CreateGet, Idle
    <3>2. ASSUME NEW u \in Users, NEW r \in ReportIds, NEW t \in Texts, EditGet(q, u, r, t)
          PROVE  tx'[q].pc = "edit_flush"
      BY <1>1, <3>2 DEF EditGet, Idle
    <3>3. ASSUME NEW u \in Users, NEW r \in ReportIds, NEW v \in Value, VoteGet(q, u, r, v)
          PROVE  tx'[q].pc = "vote_read"
      BY <1>1, <3>3 DEF VoteGet, Idle
    <3>4. ASSUME NEW u \in Users, NEW r \in ReportIds, DeleteGet(q, u, r)
          PROVE  tx'[q].pc \in {"delete_subs", "delete_votes"}
      BY <1>1, <3>4 DEF DeleteGet, Idle
    <3> QED
      BY <1>4, <3>1, <3>2, <3>3, <3>4 DEF Arrive
  <2> QED
    BY <2>1, <2>2, <2>3 DEF IsNew, At
<1>5. CASE CreateBump(q)
  <2>1. Goto(q, "create_commit") /\ used' = used /\ IsNew(q) /\ "create_commit" \in Stage
    BY <1>5 DEF CreateBump, Unwritten, IsNew, At, Stage
  <2> QED
    BY <2>1, GotoFacts
<1>6. CASE EditFlush(q) \/ VoteFlush(q) \/ DeleteSubCheck(q) \/ DeleteCheck(q) \/ DeleteBump(q)
  <2>1. /\ \E stage \in Stage \ {"create_bump", "create_commit"} : Goto(q, stage)
        /\ used' = used
    BY <1>6 DEF EditFlush, VoteFlush, DeleteSubCheck, DeleteCheck, DeleteBump, Unwritten, Stage
  <2> QED
    BY <2>1, GotoFacts DEF IsNew, At
<1>7. CASE VoteRead(q) \/ DeleteSubs(q) \/ DeleteSubVotes(q) \/ DeleteVotes(q)
              \/ DeleteSubReports(q) \/ DeleteReport(q)
  <2>1. used' = used
    BY <1>7 DEF VoteRead, DeleteSubs, DeleteSubVotes, DeleteVotes, DeleteSubReports, DeleteReport,
                DropVotes, DropReports, Unwritten
  <2>2. \A p \in Requests \ {q} : tx'[p] = tx[p]
    BY <1>1, <1>7 DEF VoteRead, DeleteSubs, DeleteSubVotes, DeleteVotes, DeleteSubReports,
                      DeleteReport, DropVotes, DropReports
  <2>3. tx'[q].pc \in {"vote_flush", "delete_sub_votes", "delete_votes", "delete_sub_reports",
                       "delete_report", "delete_sub_check", "delete_check"}
    <3>1. VoteRead(q) => tx'[q].pc = "vote_flush"
      BY <1>1 DEF VoteRead, Tx
    <3>2. DeleteSubs(q) => tx'[q].pc \in {"delete_votes", "delete_sub_votes"}
      BY <1>1 DEF DeleteSubs, Tx
    <3>3. ASSUME NEW S, NEW next, DropVotes(q, S, next) \/ DropReports(q, S, next)
          PROVE  tx'[q].pc = next
      BY <1>1, <3>3 DEF DropVotes, DropReports, Tx
    <3> QED
      BY <1>7, <3>1, <3>2, <3>3 DEF DeleteSubVotes, DeleteVotes, DeleteSubReports, DeleteReport
  <2> QED
    BY <2>1, <2>2, <2>3 DEF IsNew, At
<1> QED
  BY <1>2, <1>3, <1>4, <1>5, <1>6, <1>7 DEF Step, Refuse

\* Only commits write.
LEMMA Quiet ==
    ASSUME NEW q \in Requests, Arrive(q) \/ Step(q) \/ Rollback(q)
    PROVE  \/ CreateCommit(q) \/ EditCommit(q) \/ VoteCommit(q) \/ DeleteCommit(q)
           \/ CreateInsert(q) /\ UNCHANGED <<reports, votes, count>>
           \/ Unwritten
<1>1. CASE Arrive(q) \/ Rollback(q)
  BY <1>1, Zenon DEF Arrive, CreateGet, EditGet, VoteGet, DeleteGet, Rollback
<1>2. CASE Step(q)
  <2>1. /\ CreateInsert(q) => UNCHANGED <<reports, votes, count>>
        /\ CreateBump(q) \/ EditFlush(q) \/ VoteRead(q) \/ VoteFlush(q) \/ Refuse(q) => Unwritten
    BY DEF CreateInsert, CreateBump, EditFlush, VoteRead, VoteFlush, Refuse, Rollback
  <2>2. DeleteSubs(q) \/ DeleteSubVotes(q) \/ DeleteVotes(q) \/ DeleteSubReports(q)
           \/ DeleteReport(q) => Unwritten
    BY DEF DeleteSubs, DeleteSubVotes, DeleteVotes, DeleteSubReports, DeleteReport, DropVotes,
           DropReports
  <2>3. DeleteSubCheck(q) \/ DeleteCheck(q) \/ DeleteBump(q) => Unwritten
    BY DEF DeleteSubCheck, DeleteCheck, DeleteBump
  <2> QED
    BY <1>2, <2>1, <2>2, <2>3 DEF Step
<1> QED
  BY <1>1, <1>2

\* What the commits do to the rows.
LEMMA CommittedRows ==
    ASSUME Inv, NEW q \in Requests
    PROVE  /\ CreateCommit(q) =>
                 /\ IsNew(q) /\ tx[q].report \in ReportIds /\ ~Exists(tx[q].report)
                 /\ \A s \in ReportIds \ {tx[q].report} : reports'[s] = reports[s]
           /\ EditCommit(q) =>
                 /\ tx[q].report \in ReportIds /\ Exists(tx[q].report)
                 /\ tx[q].text \in Texts
                 /\ reports'[tx[q].report] = [reports[tx[q].report] EXCEPT !.text = tx[q].text]
                 /\ \A s \in ReportIds \ {tx[q].report} : reports'[s] = reports[s]
           /\ VoteCommit(q) =>
                 /\ tx[q].report \in ReportIds /\ Exists(tx[q].report)
                 /\ tx[q].user \in Users /\ tx[q].value \in Value
                 /\ reports'[tx[q].report] =
                       [reports[tx[q].report] EXCEPT !.vote_sum = @ + Delta(tx[q].seen, tx[q].value)]
                 /\ \A s \in ReportIds \ {tx[q].report} : reports'[s] = reports[s]
           /\ DeleteCommit(q) =>
                 \A s \in ReportIds : reports'[s] = IF s \in tx[q].delR THEN NULL ELSE reports[s]
<1>1. Own(q) /\ reports \in [ReportIds -> Row \cup {NULL}]
  BY InvOwn DEF Inv, TypeOK
<1>2. CASE CreateCommit(q)
  <2>1. IsNew(q) /\ tx[q].report \in ReportIds /\ ~Exists(tx[q].report)
    BY <1>1, <1>2 DEF CreateCommit, IsNew, At, Own, OwnStage, OwnIds
  <2>2. ~EditCommit(q) /\ ~VoteCommit(q) /\ ~DeleteCommit(q)
    BY <1>2 DEF CreateCommit, EditCommit, VoteCommit, DeleteCommit, At
  <2>3. \A s \in ReportIds \ {tx[q].report} : reports'[s] = reports[s]
    BY <1>1, <1>2 DEF CreateCommit
  <2> QED
    BY <2>1, <2>2, <2>3
<1>3. CASE EditCommit(q)
  <2>1. tx[q].report \in ReportIds /\ tx[q].text \in Texts /\ tx[q].report \in AnyLock(q)
    BY <1>1, <1>3 DEF EditCommit, At, Own, OwnStage, AnyLock, NLocks
  <2>2. Exists(tx[q].report)
    BY <1>1, <2>1 DEF Own, OwnLocks
  <2>3. ~CreateCommit(q) /\ ~VoteCommit(q) /\ ~DeleteCommit(q)
    BY <1>3 DEF CreateCommit, EditCommit, VoteCommit, DeleteCommit, At
  <2>4. reports' = [reports EXCEPT ![tx[q].report].text = tx[q].text]
    BY <1>3 DEF EditCommit
  <2> QED
    BY <1>1, <2>1, <2>2, <2>3, <2>4
<1>4. CASE VoteCommit(q)
  <2>1. /\ tx[q].report \in ReportIds /\ tx[q].user \in Users /\ tx[q].value \in Value
        /\ tx[q].report \in AnyLock(q)
    BY <1>1, <1>4 DEF VoteCommit, At, Own, OwnStage, AnyLock, XLocks
  <2>2. Exists(tx[q].report)
    BY <1>1, <2>1 DEF Own, OwnLocks
  <2>3. ~CreateCommit(q) /\ ~EditCommit(q) /\ ~DeleteCommit(q)
    BY <1>4 DEF CreateCommit, EditCommit, VoteCommit, DeleteCommit, At
  <2>4. reports' = [reports EXCEPT ![tx[q].report].vote_sum = @ + Delta(tx[q].seen, tx[q].value)]
    BY <1>4 DEF VoteCommit
  <2> QED
    BY <1>1, <2>1, <2>2, <2>3, <2>4
<1>5. CASE DeleteCommit(q)
  <2>1. ~CreateCommit(q) /\ ~EditCommit(q) /\ ~VoteCommit(q)
    BY <1>5 DEF CreateCommit, EditCommit, VoteCommit, DeleteCommit, At
  <2>2. \A s \in ReportIds : reports'[s] = IF s \in tx[q].delR THEN NULL ELSE reports[s]
    BY <1>5 DEF DeleteCommit
  <2> QED
    BY <2>1, <2>2
<1> QED
  BY <1>2, <1>3, <1>4, <1>5

\* A drawn id does not come to be in flight again, no row appears under one that is
\* not in flight, and none changes its parent or its company.
LEMMA RowsStay ==
    ASSUME Inv, NEW q \in Requests, Arrive(q) \/ Step(q) \/ Rollback(q), NEW s \in used \ InFlight
    PROVE  /\ s \in used' \ InFlight'
           /\ Exists(s)' => /\ Exists(s)
                            /\ reports'[s].parent = reports[s].parent
                            /\ reports'[s].company = reports[s].company
<1>1. s \in ReportIds /\ reports \in [ReportIds -> Row \cup {NULL}]
  BY DEF Inv, TypeOK
<1>2. s \in used' \ InFlight'
  <2>1. SUFFICES ASSUME NEW p \in Requests, IsNew(p)', tx'[p].report = s
                 PROVE  FALSE
    BY StepOfOne, InFlightIds
  <2>2. ~(IsNew(p) /\ tx[p].report = s)
    BY InFlightIds
  <2>3. p # q => IsNew(p)' = IsNew(p) /\ tx'[p] = tx[p]
    BY StepOfOne, Frame
  <2> QED
    BY <2>1, <2>2, <2>3, StepOfOne
<1>3. CASE CreateCommit(q)
  <2>1. s # tx[q].report
    BY <1>3, CommittedRows, InFlightIds
  <2> QED
    BY <1>1, <1>2, <1>3, <2>1, CommittedRows DEF Exists
<1>4. CASE EditCommit(q) \/ VoteCommit(q)
  <2>1. CASE s # tx[q].report
    BY <1>1, <1>2, <1>4, <2>1, CommittedRows DEF Exists
  <2>2. CASE s = tx[q].report
    <3>1. reports[s] \in Row /\ Exists(s)
      BY <1>1, <1>4, <2>2, CommittedRows DEF Exists
    <3>2. \E e, n : reports'[s] = [reports[s] EXCEPT !.text = e, !.vote_sum = n]
      <4>1. CASE EditCommit(q)
        <5>1. reports'[s] = [reports[s] EXCEPT !.text = tx[q].text]
          BY <2>2, <4>1, CommittedRows
        <5>2. reports'[s] = [reports[s] EXCEPT !.text = tx[q].text, !.vote_sum = reports[s].vote_sum]
          BY <3>1, <5>1 DEF Row
        <5> QED
          BY <5>2
      <4>2. CASE VoteCommit(q)
        <5> DEFINE n == reports[s].vote_sum + Delta(tx[q].seen, tx[q].value)
        <5>1. reports'[s] = [reports[s] EXCEPT !.vote_sum = n]
          BY <2>2, <4>2, CommittedRows
        <5> HIDE DEF n
        <5>2. reports'[s] = [reports[s] EXCEPT !.text = reports[s].text, !.vote_sum = n]
          BY <3>1, <5>1 DEF Row
        <5> QED
          BY <5>2
      <4> QED
        BY <1>4, <4>1, <4>2
    <3>3. reports'[s].parent = reports[s].parent /\ reports'[s].company = reports[s].company
      BY <3>1, <3>2 DEF Row
    <3> QED
      BY <1>2, <3>1, <3>3
  <2> QED
    BY <2>1, <2>2
<1>5. CASE DeleteCommit(q)
  BY <1>1, <1>2, <1>5, CommittedRows DEF Exists
<1>6. CASE reports' = reports
  BY <1>2, <1>6 DEF Exists
<1>7. \/ CreateCommit(q) \/ EditCommit(q) \/ VoteCommit(q) \/ DeleteCommit(q)
      \/ reports' = reports
  BY Quiet DEF Unwritten
<1> QED
  BY <1>3, <1>4, <1>5, <1>6, <1>7

\* Nothing that a deletion has listed changes through the steps of others.
LEMMA OthersWhole ==
    ASSUME Inv, NEW q \in Requests, Arrive(q) \/ Step(q) \/ Rollback(q),
           NEW p \in Others(q), Whole(p)
    PROVE  Whole(p)'
<1>1. tx'[p] = tx[p] /\ Own(p) /\ p \in Requests
  BY StepOfOne, InvOwn DEF Others
<1>2. \A s \in tx[p].subs :
         /\ s \in used' \ InFlight'
         /\ Exists(s)' => reports'[s].parent = tx[p].report
  BY RowsStay DEF Whole
<1>3. ASSUME At(p, {"delete_check", "delete_bump", "delete_commit"}), ~Exists(tx[p].report)
      PROVE  ~Exists(tx[p].report)'
  <2>1. tx[p].report \in used
    <3>1. tx[p].report \in ReportIds
      BY <1>1, <1>3 DEF Own, OwnStage, At
    <3> QED
      BY <1>1, <3>1, TablesAssumption DEF Own, OwnIds
  <2>2. tx[p].report \notin InFlight
    BY <1>1, <1>3, InFlightIds DEF Own, OwnIds, IsNew, At, Others
  <2>3. Exists(tx[p].report)' => reports'[tx[p].report] # NULL
    BY <1>1 DEF Exists
  <2> QED
    BY <1>1, <1>3, <2>1, <2>2, <2>3, RowsStay DEF Exists
<1> QED
  BY <1>1, <1>2, <1>3 DEF Whole, Listing, At, Exists

\* Nor does what q has listed change through a step of its own.
LEMMA OwnWhole ==
    ASSUME Inv, NEW q \in Requests, Arrive(q) \/ Step(q) \/ Rollback(q), Whole(q)
    PROVE  Whole(q)'
<1>1. tx \in [Requests -> Tx] /\ tx[q] \in Tx /\ Own(q)
  BY InvOwn DEF Inv, TypeOK
\* Requests of another kind have listed nothing.
<1>2. ASSUME tx'[q].subs = {}, tx'[q].delR = {},
             ~At(q, {"delete_check", "delete_bump", "delete_commit"})'
      PROVE  Whole(q)'
  BY <1>2 DEF Whole
<1>3. tx[q].pc \in {"idle", "create_insert", "create_bump", "create_commit", "edit_flush",
                    "edit_commit", "vote_read", "vote_flush", "vote_commit", "delete_subs"} =>
         tx[q].subs = {} /\ tx[q].delR = {}
  BY <1>1 DEF Whole, Listing, At, Own, OwnRemovals
<1>4. CASE Rollback(q) \/ CreateCommit(q) \/ EditCommit(q) \/ VoteCommit(q) \/ DeleteCommit(q)
  <2>1. tx'[q] = Idle
    BY <1>1, <1>4 DEF Rollback, CreateCommit, EditCommit, VoteCommit, DeleteCommit
  <2> QED
    BY <1>2, <2>1 DEF Idle, At
<1>5. CASE Arrive(q)
  <2>1. ASSUME NEW u \in Users, NEW c \in Companies, NEW p \in ReportIds \cup {NULL},
               NEW t \in Texts, CreateGet(q, u, c, p, t)
        PROVE  tx'[q].pc = "create_insert" /\ tx'[q].subs = {} /\ tx'[q].delR = {}
    BY <1>1, <2>1 DEF CreateGet, Idle
  <2>2. ASSUME NEW u \in Users, NEW r \in ReportIds, NEW t \in Texts, EditGet(q, u, r, t)
        PROVE  tx'[q].pc = "edit_flush" /\ tx'[q].subs = {} /\ tx'[q].delR = {}
    BY <1>1, <2>2 DEF EditGet, Idle
  <2>3. ASSUME NEW u \in Users, NEW r \in ReportIds, NEW v \in Value, VoteGet(q, u, r, v)
        PROVE  tx'[q].pc = "vote_read" /\ tx'[q].subs = {} /\ tx'[q].delR = {}
    BY <1>1, <2>3 DEF VoteGet, Idle
  <2>4. ASSUME NEW u \in Users, NEW r \in ReportIds, DeleteGet(q, u, r)
        PROVE  tx'[q].pc \in {"delete_subs", "delete_votes"} /\ tx'[q].subs = {} /\ tx'[q].delR = {}
    BY <1>1, <2>4 DEF DeleteGet, Idle
  <2> QED
    BY <1>2, <1>5, <2>1, <2>2, <2>3, <2>4 DEF Arrive, At
<1>6. CASE CreateInsert(q) \/ VoteRead(q)
  <2>1. /\ tx'[q].subs = tx[q].subs /\ tx'[q].delR = tx[q].delR
        /\ tx'[q].pc \in {"create_bump", "create_commit", "vote_flush"}
    <3>1. ASSUME NEW r, NEW next, tx' = [tx EXCEPT ![q].report = r, ![q].pc = next]
          PROVE  tx'[q].subs = tx[q].subs /\ tx'[q].delR = tx[q].delR /\ tx'[q].pc = next
      BY <1>1, <3>1 DEF Tx
    <3>2. CreateInsert(q) =>
             \E r \in ReportIds, next \in {"create_bump", "create_commit"} :
                tx' = [tx EXCEPT ![q].report = r, ![q].pc = next]
      BY DEF CreateInsert
    <3>3. CASE CreateInsert(q)
      BY <3>1, <3>2, <3>3
    <3>4. CASE VoteRead(q)
      BY <1>1, <3>4 DEF VoteRead, Tx
    <3> QED
      BY <1>6, <3>3, <3>4
  <2>2. tx[q].subs = {} /\ tx[q].delR = {}
    BY <1>3, <1>6 DEF CreateInsert, VoteRead, At
  <2> QED
    BY <1>2, <2>1, <2>2 DEF At
<1>7. CASE CreateBump(q) \/ EditFlush(q) \/ VoteFlush(q)
  <2>1. PICK stage \in {"create_commit", "edit_commit", "vote_commit"} : Goto(q, stage)
    BY <1>7 DEF CreateBump, EditFlush, VoteFlush
  <2>2. tx[q].subs = {} /\ tx[q].delR = {}
    BY <1>3, <1>7 DEF CreateBump, EditFlush, VoteFlush, At
  <2>3. stage \in Stage
    BY DEF Stage
  <2> QED
    BY <1>2, <2>1, <2>2, <2>3, GotoFacts DEF At
\* A deletion that goes on without adding to what it has listed.
<1>8. ASSUME Unwritten, tx'[q].report = tx[q].report,
             tx'[q].subs = tx[q].subs, tx'[q].delR = tx[q].delR,
             Listing(q)',
             At(q, {"delete_check", "delete_bump", "delete_commit"})' =>
                At(q, {"delete_check", "delete_bump", "delete_commit"})
      PROVE  Whole(q)'
  <2>1. \A s \in tx[q].subs :
           /\ s \in used' \ InFlight'
           /\ Exists(s)' => reports'[s].parent = tx[q].report
    BY RowsStay DEF Whole
  <2> QED
    BY <1>8, <2>1 DEF Whole, Exists, Unwritten
<1>9. CASE DeleteSubCheck(q) \/ DeleteCheck(q) \/ DeleteBump(q)
  <2>1. PICK stage \in {"delete_votes", "delete_bump", "delete_commit"} : Goto(q, stage)
    BY <1>9 DEF DeleteSubCheck, DeleteCheck, DeleteBump
  <2>2. stage \in Stage /\ Unwritten
    BY <1>9 DEF Stage, DeleteSubCheck, DeleteCheck, DeleteBump
  <2>3. /\ tx'[q].pc = stage /\ tx'[q].report = tx[q].report
        /\ tx'[q].subs = tx[q].subs /\ tx'[q].delR = tx[q].delR
    BY <2>1, <2>2, GotoFacts
  <2>4. stage # "delete_votes" => tx[q].pc \in {"delete_check", "delete_bump"}
    BY <1>9, <2>3, <1>1, <2>1, GotoFacts DEF DeleteSubCheck, DeleteCheck, DeleteBump, At, Goto, Tx
  <2> QED
    BY <1>8, <2>2, <2>3, <2>4 DEF Listing, At
<1>10. CASE DeleteSubVotes(q) \/ DeleteVotes(q)
  <2>1. /\ tx'[q].pc \in {"delete_sub_reports", "delete_report"} /\ tx'[q].report = tx[q].report
        /\ tx'[q].subs = tx[q].subs /\ tx'[q].delR = tx[q].delR
    BY <1>1, <1>10 DEF DeleteSubVotes, DeleteVotes, DropVotes, Tx
  <2>2. Unwritten
    BY <1>10 DEF DeleteSubVotes, DeleteVotes, DropVotes
  <2> QED
    BY <1>8, <2>1, <2>2 DEF Listing, At
\* The challenges that it lists exist, and hang on the report.
<1>11. CASE DeleteSubs(q)
  <2> DEFINE S == {s \in ReportIds : Exists(s) /\ reports[s].parent = tx[q].report}
  <2>1. /\ tx'[q].subs = S /\ tx'[q].delR = tx[q].delR /\ tx'[q].report = tx[q].report
        /\ tx'[q].pc = IF S = {} THEN "delete_votes" ELSE "delete_sub_votes"
    BY <1>1, <1>11 DEF DeleteSubs, Tx
  <2>2. tx[q].delR = {} /\ Unwritten
    BY <1>3, <1>11 DEF DeleteSubs, At
  <2>3. \A s \in S : s \in used \ InFlight
    <3>1. \A p \in Requests : IsNew(p) => ~Exists(tx[p].report)
      BY DEF Inv, DrawnOnce, IsNew
    <3> QED
      BY <3>1, InFlightIds DEF Inv, DrawnOnce
  <2>4. \A s \in S : s \in used' \ InFlight' /\ reports'[s].parent = tx[q].report
    BY <2>2, <2>3, RowsStay DEF Unwritten
  <2> HIDE DEF S
  <2> QED
    BY <2>1, <2>2, <2>4 DEF Whole, Listing, At
\* It locks those that still exist, at last the report.
<1>12. ASSUME NEW S, NEW next, DropReports(q, S, next),
              \/ next = "delete_sub_check" /\ S = tx[q].subs
              \/ next = "delete_check" /\ S = {tx[q].report}
       PROVE  Whole(q)'
  <2> DEFINE there == {s \in S : Exists(s)}
  <2>1. /\ tx'[q].subs = tx[q].subs /\ tx'[q].delR = tx[q].delR \cup there
        /\ tx'[q].report = tx[q].report /\ tx'[q].pc = next
    BY <1>1, <1>12 DEF DropReports, Tx
  <2>2. Unwritten
    BY <1>12 DEF DropReports
  <2>3. \A s \in tx[q].subs :
           /\ s \in used' \ InFlight'
           /\ Exists(s)' => reports'[s].parent = tx[q].report
    BY RowsStay DEF Whole
  <2>4. next = "delete_check" => tx[q].report \in there \/ ~Exists(tx[q].report)
    BY <1>12
  <2>5. there \subseteq tx[q].subs \cup {tx[q].report}
    BY <1>12
  <2> HIDE DEF there
  <2> QED
    BY <1>12, <2>1, <2>2, <2>3, <2>4, <2>5 DEF Whole, Listing, At, Exists, Unwritten
<1>13. CASE DeleteSubReports(q) \/ DeleteReport(q)
  BY <1>12, <1>13 DEF DeleteSubReports, DeleteReport
<1> QED
  BY <1>4, <1>5, <1>6, <1>7, <1>9, <1>10, <1>11, <1>13 DEF Step, Refuse

\* DeletesWhole holds in the beginning, and every step preserves it.
LEMMA InitWhole == Init => DeletesWhole
<1> SUFFICES ASSUME Init, NEW q \in Requests
             PROVE  Whole(q)
  BY DEF DeletesWhole, Whole
<1>1. tx[q].subs = {} /\ tx[q].delR = {} /\ tx[q].pc = "idle"
  BY DEF Init, Idle
<1> QED
  BY <1>1 DEF Whole, At

LEMMA StepWhole == Inv /\ DeletesWhole /\ [Next]_vars => DeletesWhole'
<1> SUFFICES ASSUME Inv, DeletesWhole, [Next]_vars, NEW p \in Requests
             PROVE  Whole(p)'
  BY DEF DeletesWhole, Whole
<1>1. Whole(p)
  BY DEF DeletesWhole, Whole
<1>2. ASSUME NEW q \in Requests, Arrive(q) \/ Step(q) \/ Rollback(q)
      PROVE  Whole(p)'
  BY <1>1, <1>2, OthersWhole, OwnWhole DEF Others
<1>3. CASE UNCHANGED vars
  BY <1>1, <1>3 DEF vars, Whole, Listing, At, Exists, InFlight
<1>4. \A r \in ReportIds : NotFound(r) => UNCHANGED vars
  BY DEF NotFound
<1>5. \A q \in Requests : Abort(q) \/ Victim(q) => Rollback(q)
  BY DEF Abort, Victim
<1> QED
  BY <1>2, <1>3, <1>4, <1>5 DEF Next

\* What delete_report removes is, at every moment, part of the report with its
\* challenges, and from the removal of the report on all of it or nothing.
THEOREM DeletionsAreWhole == Spec => []DeletesWhole
  BY InitWhole, StepWhole, Invariance, PTL DEF Spec

-----------------------------------------------------------------------------
(* Every commit is one step of the ledger *)

\* The ids that Ledger knows as retired: drawn, with no row and no request that
\* is about to insert one.
Retired == {r \in used \ InFlight : ~Exists(r)}

\* Ledger's own copy of the operators of Tables.
LEMMA SameTables ==
    /\ L!Value = Value /\ L!NoVotes = NoVotes
    /\ \A x, v : L!Toggle(x, v) = Toggle(x, v)
    /\ \A b : L!Tally(b) = Tally(b)
<1>1. L!Value = Value /\ L!NoVotes = NoVotes
  BY DEF L!Value, Value, L!NoVotes, NoVotes
<1>2. \A x, v : L!Toggle(x, v) = Toggle(x, v)
  BY DEF L!Toggle, Toggle
<1>3. ASSUME NEW b
      PROVE  L!Tally(b) = Tally(b)
  <2>1. L!Ethical(b) = Ethical(b) /\ L!Unethical(b) = Unethical(b)
    BY DEF L!Ethical, Ethical, L!Unethical, Unethical
  <2> QED
    BY <2>1 DEF L!Tally, Tally, L!Cardinality, Cardinality
<1> QED
  BY <1>1, <1>2, <1>3

\* What Ledger sees of a state.
LEMMA LedgerStutter ==
    ASSUME reports' = reports, votes' = votes, Retired' = Retired
    PROVE  UNCHANGED L!ledger
  BY DEF L!ledger, Retired

\* The ids in flight when q's handler has ended.
LEMMA EndOfFlight ==
    ASSUME Inv, NEW q \in Requests, tx' = [tx EXCEPT ![q] = Idle]
    PROVE  /\ InFlight' = InFlight \ (IF IsNew(q) THEN {tx[q].report} ELSE {})
           /\ IsNew(q) => tx[q].report \in InFlight /\ tx[q].report \in used
<1>1. /\ ~IsNew(q)'
      /\ \A p \in Requests \ {q} : tx'[p] = tx[p] /\ (IsNew(p)' = IsNew(p))
  <2>1. tx'[q] = Idle /\ \A p \in Requests \ {q} : tx'[p] = tx[p]
    BY DEF Inv, TypeOK
  <2>2. \A p \in Requests \ {q} : IsNew(p)' = IsNew(p)
    BY <2>1, Frame
  <2>3. ~IsNew(q)'
    BY <2>1 DEF IsNew, At, Idle
  <2> QED
    BY <2>1, <2>2, <2>3
<1>2. IsNew(q) => \A p \in Requests \ {q} : IsNew(p) => tx[p].report # tx[q].report
  BY InvOwn DEF Own, OwnIds, Others
<1>3. ASSUME NEW r
      PROVE  r \in InFlight' <=> r \in InFlight \ (IF IsNew(q) THEN {tx[q].report} ELSE {})
  <2>1. r \in InFlight' <=> \E p \in Requests \ {q} : IsNew(p) /\ tx[p].report = r
    BY <1>1, InFlightIds
  <2>2. r \in InFlight <=> (IsNew(q) /\ tx[q].report = r)
                           \/ \E p \in Requests \ {q} : IsNew(p) /\ tx[p].report = r
    BY InFlightIds
  <2> QED
    BY <1>2, <2>1, <2>2
<1>4. IsNew(q) => tx[q].report \in InFlight /\ tx[q].report \in used
  <2>1. IsNew(q) => tx[q].report \in ReportIds /\ tx[q].report \in used \cup {NULL}
    BY InvOwn DEF Own, OwnIds, OwnStage, IsNew, At
  <2> QED
    BY <2>1, InFlightIds, TablesAssumption
<1> QED
  BY <1>3, <1>4

\* Statements that write nothing and draw no id.
LEMMA QuietMaps ==
    ASSUME Inv, Inv', NEW q \in Requests, Arrive(q) \/ Step(q), Unwritten,
           ~CreateCommit(q), ~Rollback(q)
    PROVE  UNCHANGED L!ledger
<1>1. tx \in [Requests -> Tx] /\ tx[q] \in Tx
  BY DEF Inv, TypeOK
<1>2. IsNew(q)' => IsNew(q) /\ tx'[q].report = tx[q].report
  <2>1. IsNew(q)' => tx'[q].report \in ReportIds /\ tx'[q].report \in used' \cup {NULL}
    BY DEF Inv, StageOK, DrawnOnce, IsNew, At
  <2> QED
    BY <2>1, StepOfOne, TablesAssumption DEF Unwritten
<1>3. IsNew(q) => CreateBump(q)
  <2>1. Arrive(q) => ~IsNew(q)
    BY DEF Arrive, CreateGet, EditGet, VoteGet, DeleteGet, MayStart, IsNew, At
  <2>2. EditCommit(q) \/ VoteCommit(q) \/ DeleteCommit(q) \/ CreateInsert(q) \/ EditFlush(q)
           \/ VoteRead(q) \/ VoteFlush(q) => ~IsNew(q)
    BY DEF EditCommit, VoteCommit, DeleteCommit, CreateInsert, EditFlush, VoteRead, VoteFlush,
           IsNew, At
  <2>3. DeleteSubs(q) \/ DeleteSubVotes(q) \/ DeleteSubReports(q) \/ DeleteSubCheck(q)
           \/ DeleteVotes(q) \/ DeleteReport(q) \/ DeleteCheck(q) \/ DeleteBump(q) => ~IsNew(q)
    BY DEF DeleteSubs, DeleteSubVotes, DeleteSubReports, DeleteSubCheck, DeleteVotes, DeleteReport,
           DeleteCheck, DeleteBump, IsNew, At
  <2>4. Refuse(q) => Rollback(q)
    BY DEF Refuse
  <2> QED
    BY <2>1, <2>2, <2>3, <2>4 DEF Step
<1>4. IsNew(q) => IsNew(q)'
  <2>1. "create_commit" \in Stage
    BY DEF Stage
  <2>2. IsNew(q) => tx'[q].pc = "create_commit"
    BY <1>3, <2>1, GotoFacts DEF CreateBump
  <2> QED
    BY <2>2 DEF IsNew, At
<1>5. \A p \in Requests \ {q} : tx'[p] = tx[p] /\ IsNew(p)' = IsNew(p)
  BY StepOfOne, Frame
<1>6. InFlight' = InFlight
  <2>1. ASSUME NEW r
        PROVE  r \in InFlight' <=> r \in InFlight
    BY <1>2, <1>4, <1>5, InFlightIds
  <2> QED
    BY <2>1
<1> QED
  BY <1>6, LedgerStutter DEF Retired, Unwritten, Exists

\* The new id goes from the sequence to its request: nobody else sees it.
LEMMA InsertMaps ==
    ASSUME Inv, NEW q \in Requests, CreateInsert(q)
    PROVE  UNCHANGED L!ledger
<1>1. tx \in [Requests -> Tx] /\ tx[q] \in Tx
  BY DEF Inv, TypeOK
<1>2. PICK r \in ReportIds \ used :
          /\ used' = used \cup {r}
          /\ tx' = [tx EXCEPT ![q].report = r,
                              ![q].pc = IF tx[q].parent = NULL THEN "create_bump"
                                        ELSE "create_commit"]
  BY DEF CreateInsert
<1>3. /\ tx'[q].report = r /\ tx'[q].pc \in {"create_bump", "create_commit"}
      /\ \A p \in Requests \ {q} : tx'[p] = tx[p]
  BY <1>1, <1>2 DEF Tx
<1>4. IsNew(q)' /\ ~IsNew(q)
  BY <1>3 DEF IsNew, At, CreateInsert
<1>5. \A p \in Requests \ {q} : tx'[p] = tx[p] /\ IsNew(p)' = IsNew(p)
  BY <1>3, Frame
<1>6. InFlight' = InFlight \cup {r}
  <2>1. ASSUME NEW s
        PROVE  s \in InFlight' <=> s \in InFlight \cup {r}
    BY <1>3, <1>4, <1>5, InFlightIds
  <2> QED
    BY <2>1
<1>7. UNCHANGED <<reports, votes>>
  BY DEF CreateInsert
<1> QED
  BY <1>2, <1>6, <1>7, LedgerStutter DEF Retired, Exists

\* A transaction that is lost burns the id that it had drawn, if it had.
LEMMA RollbackMaps ==
    ASSUME Inv, NEW q \in Requests, Rollback(q)
    PROVE  [L!LedgerNext]_(L!ledger)
<1>1. tx' = [tx EXCEPT ![q] = Idle] /\ UNCHANGED <<reports, votes, used>>
  BY DEF Rollback, Unwritten
<1>2. CASE ~IsNew(q)
  <2>1. InFlight' = InFlight
    BY <1>1, <1>2, EndOfFlight
  <2>2. Retired' = Retired
    BY <1>1, <2>1 DEF Retired, Exists
  <2> QED
    BY <1>1, <2>2, LedgerStutter
<1>3. CASE IsNew(q)
  <2> DEFINE n == tx[q].report
  <2>1. n \in ReportIds /\ ~Exists(n)
    BY <1>3, InvOwn DEF Own, OwnIds, OwnStage, IsNew, At
  <2>2. InFlight' = InFlight \ {n} /\ n \in InFlight /\ n \in used
    BY <1>1, <1>3, EndOfFlight
  <2>3. Retired' = Retired \cup {n} /\ n \notin Retired
    BY <1>1, <2>1, <2>2 DEF Retired, Exists
  <2>4. L!Burn(n)
    BY <1>1, <2>1, <2>3 DEF L!Burn, L!Exists, Retired, Exists
  <2> QED
    BY <2>1, <2>4 DEF L!LedgerNext
<1> QED
  BY <1>2, <1>3

\* The commit of a report is its submission: the parent that the handler checked
\* is locked, and is still a claim about the company.
LEMMA CreateCommitMaps ==
    ASSUME Inv, NEW q \in Requests, CreateCommit(q)
    PROVE  L!LedgerNext
<1> DEFINE n == tx[q].report
           p == tx[q].parent
<1>1. Own(q) /\ tx[q].pc = "create_commit" /\ tx[q] \in Tx
  BY InvOwn DEF CreateCommit, At, Own
<1>2. /\ n \in ReportIds /\ ~Exists(n) /\ p \in ReportIds \cup {NULL}
      /\ tx[q].company \in Companies /\ tx[q].user \in Users /\ tx[q].text \in Texts
  BY <1>1 DEF Own, OwnStage, OwnIds, IsNew, At, Tx
<1>3. /\ reports' = [reports EXCEPT ![n] =
                       [company |-> tx[q].company, user |-> tx[q].user, parent |-> p,
                        text |-> tx[q].text, vote_sum |-> 0]]
      /\ UNCHANGED <<votes, used>> /\ tx' = [tx EXCEPT ![q] = Idle]
  BY DEF CreateCommit
<1>4. p # NULL => Exists(p) /\ reports[p].parent = NULL /\ reports[p].company = tx[q].company
  <2>1. p # NULL => p \in AnyLock(q)
    BY <1>1 DEF AnyLock, KLocks, At
  <2> QED
    BY <1>1, <2>1 DEF Own, OwnLocks, OwnReads, At
<1>5. InFlight' = InFlight \ {n} /\ n \in InFlight
  BY <1>1, <1>3, EndOfFlight DEF IsNew, At
<1>6. /\ reports'[n] # NULL
      /\ \A s \in ReportIds \ {n} : reports'[s] = reports[s]
  <2>1. /\ reports'[n] \in Row
        /\ \A s \in ReportIds \ {n} : reports'[s] = reports[s]
    BY <1>2, <1>3 DEF Inv, TypeOK, Row
  <2> QED
    BY <2>1, TablesAssumption DEF Exists
<1>7. Retired' = Retired /\ n \notin Retired
  <2>1. used \subseteq ReportIds
    BY DEF Inv, TypeOK
  <2> QED
    BY <1>2, <1>3, <1>5, <1>6, <2>1 DEF Retired, Exists
<1>8. L!Submit(n, tx[q].company, tx[q].user, p, tx[q].text)
  BY <1>2, <1>3, <1>4, <1>7 DEF L!Submit, L!Exists, L!TopLevel, Retired, Exists
<1> QED
  BY <1>2, <1>8 DEF L!LedgerNext

\* The commit of an edit is an amendment of a report that is there.
LEMMA EditCommitMaps ==
    ASSUME Inv, NEW q \in Requests, EditCommit(q)
    PROVE  L!LedgerNext
<1>1. PICK r, t : r = tx[q].report /\ t = tx[q].text
  OBVIOUS
<1>2. /\ r \in ReportIds /\ Exists(r) /\ t \in Texts
      /\ reports'[r] = [reports[r] EXCEPT !.text = t]
      /\ \A s \in ReportIds \ {r} : reports'[s] = reports[s]
  BY <1>1, CommittedRows
<1>3. /\ reports' = [reports EXCEPT ![r].text = t]
      /\ UNCHANGED <<votes, used>> /\ tx' = [tx EXCEPT ![q] = Idle]
  BY <1>1 DEF EditCommit
<1>4. \A s \in ReportIds : reports'[s] # NULL <=> reports[s] # NULL
  <2>1. reports[r] \in Row
    BY <1>2 DEF Inv, TypeOK, Exists
  <2>2. reports'[r] \in Row
    BY <1>2, <2>1 DEF Row
  <2> QED
    BY <1>2, <2>1, <2>2, TablesAssumption
<1>5. Retired' = Retired
  <2>1. InFlight' = InFlight
    BY <1>3, EndOfFlight DEF EditCommit, IsNew, At
  <2>2. used \subseteq ReportIds
    BY DEF Inv, TypeOK
  <2> QED
    BY <1>3, <1>4, <2>1, <2>2 DEF Retired, Exists
<1>6. L!Amend(r, t)
  BY <1>2, <1>3, <1>5 DEF L!Amend, L!Exists, Retired, Exists
<1> QED
  BY <1>2, <1>6 DEF L!LedgerNext

\* The commit of a vote casts it against the committed ballot, and the sum that it
\* computed from a difference is the tally of what is then left.
LEMMA VoteCommitMaps ==
    ASSUME Inv, NEW q \in Requests, VoteCommit(q)
    PROVE  L!LedgerNext
<1>1. PICK r, u, v, d :
         /\ r = tx[q].report /\ u = tx[q].user /\ v = tx[q].value
         /\ d = Delta(tx[q].seen, tx[q].value)
  OBVIOUS
<1>2. /\ r \in ReportIds /\ Exists(r) /\ u \in Users /\ v \in Value
      /\ reports'[r] = [reports[r] EXCEPT !.vote_sum = @ + d]
      /\ \A s \in ReportIds \ {r} : reports'[s] = reports[s]
  BY <1>1, CommittedRows
<1>3. tx[q].seen = votes[r][u]
  BY <1>1 DEF Inv, VoteReadStable, VoteCommit, At
<1>4. /\ votes' = [votes EXCEPT ![r] = [votes[r] EXCEPT ![u] = Toggle(votes[r][u], v)]]
      /\ reports' = [reports EXCEPT ![r] = [reports[r] EXCEPT !.vote_sum = reports[r].vote_sum + d]]
      /\ UNCHANGED used /\ tx' = [tx EXCEPT ![q] = Idle]
  BY <1>1, <1>3 DEF VoteCommit
<1>5. reports[r] \in Row /\ votes[r] \in Ballot
  BY <1>2 DEF Inv, TypeOK, Exists
<1>6. votes'[r] = [votes[r] EXCEPT ![u] = Toggle(votes[r][u], v)]
  <2>1. votes \in [ReportIds -> Ballot]
    BY DEF Inv, TypeOK
  <2> QED
    BY <1>2, <1>4, <2>1
<1>7. Tally(votes'[r]) = reports[r].vote_sum + d
  <2>1. reports[r].vote_sum = Tally(votes[r])
    BY <1>2 DEF Inv, VoteSumAgrees
  <2>2. Tally([votes[r] EXCEPT ![u] = Toggle(votes[r][u], v)]) = Tally(votes[r]) + d
    BY <1>1, <1>2, <1>3, <1>5, DeltaIsTallyChange
  <2> QED
    BY <1>6, <2>1, <2>2
<1>8. d \in Int
  <2>1. votes[r][u] \in {1, -1, 0} /\ v \in {1, -1}
    BY <1>2, <1>5 DEF Ballot, Value
  <2> QED
    BY <1>1, <1>3, <2>1 DEF Delta
<1>9. \A s \in ReportIds : reports'[s] # NULL <=> reports[s] # NULL
  <2>1. reports'[r] \in Row
    BY <1>2, <1>5, <1>8 DEF Row
  <2> QED
    BY <1>2, <1>5, <2>1, TablesAssumption
<1>10. Retired' = Retired
  <2>1. InFlight' = InFlight
    BY <1>4, EndOfFlight DEF VoteCommit, IsNew, At
  <2>2. used \subseteq ReportIds
    BY DEF Inv, TypeOK
  <2> QED
    BY <1>4, <1>9, <2>1, <2>2 DEF Retired, Exists
<1>11. L!CastVote(r, u, v)
  <2>1. reports' = [reports EXCEPT ![r].vote_sum = Tally(votes'[r])]
    BY <1>4, <1>7
  <2>2. votes' = [votes EXCEPT ![r][u] = Toggle(@, v)]
    BY <1>4
  <2> QED
    BY <1>2, <1>10, <2>1, <2>2, SameTables DEF L!CastVote, L!Exists, Retired, Exists
<1> QED
  BY <1>2, <1>11, SameTables DEF L!LedgerNext

\* The commit of a deletion takes the report away with all its challenges, and all
\* their votes; or nothing at all, when another deletion of the report came first.
LEMMA DeleteCommitMaps ==
    ASSUME Inv, DeletesWhole, NEW q \in Requests, DeleteCommit(q)
    PROVE  [L!LedgerNext]_(L!ledger)
<1>1. PICK r, R, V : r = tx[q].report /\ R = tx[q].delR /\ V = tx[q].delV
  OBVIOUS
<1>2. Own(q) /\ tx[q].pc = "delete_commit" /\ tx[q] \in Tx
  BY InvOwn DEF DeleteCommit, At, Own
<1>3. r \in ReportIds /\ R \subseteq ReportIds /\ V \subseteq ReportIds \X Users
  BY <1>1, <1>2 DEF Own, OwnStage, At, Tx
<1>4. /\ reports' = [s \in ReportIds |-> IF s \in R THEN NULL ELSE reports[s]]
      /\ votes' = [s \in ReportIds |-> [u \in Users |-> IF <<s, u>> \in V THEN 0 ELSE votes[s][u]]]
      /\ UNCHANGED used /\ tx' = [tx EXCEPT ![q] = Idle]
  BY <1>1 DEF DeleteCommit
<1>5. /\ \A rv \in V : rv[1] \in R
      /\ \A s \in R, u \in Users : votes[s][u] # 0 => <<s, u>> \in V
      /\ \A s \in ReportIds \ R : Exists(s) => reports[s].parent \notin R
  <2>1. \A rv \in V : rv[1] \in R
    BY <1>1, <1>2 DEF Own, OwnRemovals, Removing, At
  <2>2. DanglingVotes(q) = {} /\ DanglingReports(q) = {}
    BY <1>2 DEF Own, OwnRemovals, CheckPasses, At
  <2>3. \A s \in R, u \in Users : votes[s][u] # 0 => <<s, u>> \in V
    BY <1>1, <2>2 DEF DanglingVotes
  <2>4. \A s \in ReportIds \ R : Exists(s) => reports[s].parent \notin R
    BY <1>1, <2>2 DEF DanglingReports
  <2> QED
    BY <2>1, <2>3, <2>4
<1>6. votes' = [s \in ReportIds |-> IF s \in R THEN NoVotes ELSE votes[s]]
  <2>1. \A s \in R : [u \in Users |-> IF <<s, u>> \in V THEN 0 ELSE votes[s][u]] = NoVotes
    BY <1>5 DEF NoVotes
  <2>2. ASSUME NEW s \in ReportIds \ R
        PROVE  [u \in Users |-> IF <<s, u>> \in V THEN 0 ELSE votes[s][u]] = votes[s]
    BY <1>5 DEF Inv, TypeOK, Ballot
  <2> QED
    BY <1>4, <2>1, <2>2
\* All that is removed is there, and is the report or one of its challenges.
<1>7. \A s \in R : Exists(s) /\ (s = r \/ reports[s].parent = r)
  <2>1. \A s \in R : Exists(s)
    BY <1>1, <1>2 DEF Own, OwnLocks, AnyLock, XLocks
  <2>2. R \subseteq tx[q].subs \cup {r}
    BY <1>1 DEF DeletesWhole
  <2>3. \A s \in tx[q].subs : Exists(s) => reports[s].parent = r
    BY <1>1 DEF DeletesWhole
  <2> QED
    BY <2>1, <2>2, <2>3
<1>8. InFlight' = InFlight
  BY <1>2, <1>4, EndOfFlight DEF IsNew, At
<1>9. Retired' = Retired \cup R
  <2>1. \A s \in R : s \in used \ InFlight
    <3>1. \A p \in Requests : IsNew(p) => ~Exists(tx[p].report)
      BY DEF Inv, DrawnOnce, IsNew
    <3> QED
      BY <1>3, <1>7, <3>1, InFlightIds DEF Inv, DrawnOnce
  <2>2. used \subseteq ReportIds
    BY DEF Inv, TypeOK
  <2>3. \A s \in ReportIds : reports'[s] = NULL <=> s \in R \/ reports[s] = NULL
    BY <1>4
  <2> QED
    BY <1>4, <1>8, <2>1, <2>2, <2>3 DEF Retired, Exists
<1>10. CASE Exists(r)
  <2>1. r \in R
    BY <1>1, <1>2, <1>10 DEF DeletesWhole, At
  <2>2. R = {r} \cup L!Challenges(r)
    BY <1>3, <1>5, <1>7, <2>1 DEF L!Challenges, L!Exists, Exists
  <2>3. L!Withdraw(r)
    BY <1>4, <1>6, <1>9, <1>10, <2>2, SameTables DEF L!Withdraw, L!Exists, Retired, Exists
  <2> QED
    BY <1>3, <2>3 DEF L!LedgerNext
<1>11. CASE ~Exists(r)
  <2>1. R = {}
    <3>1. SUFFICES ASSUME NEW s \in R
                   PROVE  FALSE
      OBVIOUS
    <3>2. Exists(s) /\ reports[s].parent = r /\ s \in ReportIds
      BY <1>3, <1>7, <1>11
    <3> QED
      BY <1>3, <1>11, <3>2, TablesAssumption DEF Inv, NothingDangles
  <2>2. Retired' = Retired
    BY <1>9, <2>1
  <2>3. reports' = reports /\ votes' = votes
    <3>1. reports \in [ReportIds -> Row \cup {NULL}] /\ votes \in [ReportIds -> Ballot]
      BY DEF Inv, TypeOK
    <3> QED
      BY <1>4, <1>6, <2>1, <3>1
  <2> QED
    BY <2>2, <2>3, LedgerStutter
<1> QED
  BY <1>10, <1>11

\* Every step of the handlers is a step of the ledger, or nothing to it.
LEMMA StepMaps == Inv /\ Inv' /\ DeletesWhole /\ [Next]_vars => [L!LedgerNext]_(L!ledger)
<1> SUFFICES ASSUME Inv, Inv', DeletesWhole, [Next]_vars
             PROVE  [L!LedgerNext]_(L!ledger)
  OBVIOUS
<1>1. CASE UNCHANGED vars
  <2>1. Retired' = Retired /\ reports' = reports /\ votes' = votes
    BY <1>1 DEF vars, Retired, InFlight, Exists, At
  <2> QED
    BY <2>1, LedgerStutter
<1>2. ASSUME NEW q \in Requests, Arrive(q) \/ Step(q) \/ Rollback(q)
      PROVE  [L!LedgerNext]_(L!ledger)
  <2>1. CASE Rollback(q)
    BY <2>1, RollbackMaps
  <2>2. CASE CreateCommit(q)
    BY <2>2, CreateCommitMaps
  <2>3. CASE EditCommit(q)
    BY <2>3, EditCommitMaps
  <2>4. CASE VoteCommit(q)
    BY <2>4, VoteCommitMaps
  <2>5. CASE DeleteCommit(q)
    BY <2>5, DeleteCommitMaps
  <2>6. CASE CreateInsert(q)
    BY <2>6, InsertMaps
  <2>7. CASE Unwritten /\ ~Rollback(q) /\ ~CreateCommit(q)
    BY <1>2, <2>7, QuietMaps
  <2> QED
    BY <1>2, <2>1, <2>2, <2>3, <2>4, <2>5, <2>6, <2>7, Quiet
<1>3. \A r \in ReportIds : NotFound(r) => UNCHANGED vars
  BY DEF NotFound
<1>4. \A q \in Requests : Abort(q) \/ Victim(q) => Rollback(q)
  BY DEF Abort, Victim
<1> QED
  BY <1>1, <1>2, <1>3, <1>4 DEF Next

LEMMA InitMaps == Init => L!LedgerInit
<1> SUFFICES ASSUME Init
             PROVE  L!LedgerInit
  OBVIOUS
<1>1. Retired = {}
  BY DEF Init, Retired
<1> QED
  BY <1>1, SameTables DEF Init, L!LedgerInit, Retired

\* Requests take effect as if each ran alone at the moment it commits: whatever the
\* statements of the others did meanwhile, a commit is a submission, an amendment, a
\* vote or a withdrawal of Ledger on the tables as they then are.
THEOREM ImplementsLedger == Spec => Serializable
<1>1. Spec => [](Inv /\ DeletesWhole)
  BY Invariance, DeletionsAreWhole, PTL
<1> QED
  BY <1>1, InitMaps, StepMaps, PTL DEF Spec, Serializable, L!LedgerSpec

-----------------------------------------------------------------------------
(* The count of a company follows its claims *)

\* TargetStands of one request, with the id that it keeps.
Target(q) ==
    Deleting(q) =>
        /\ tx[q].report \in used \ InFlight
        /\ Exists(tx[q].report) => /\ reports[tx[q].report].parent = tx[q].parent
                                   /\ reports[tx[q].report].company = tx[q].company

\* In a state of Inv, an id that a deletion has in its hands is not in flight.
LEMMA TargetIds ==
    ASSUME Inv, TargetStands, NEW q \in Requests
    PROVE  Target(q)
<1>1. SUFFICES ASSUME Deleting(q)
               PROVE  tx[q].report \in used \ InFlight
  BY DEF Target, TargetStands
<1>2. tx[q].report \in ReportIds /\ Own(q) /\ ~IsNew(q)
  BY <1>1, InvOwn DEF Own, OwnStage, Deleting, Listing, At, IsNew
<1>3. tx[q].report \in used
  BY <1>2, TablesAssumption DEF Own, OwnIds
<1>4. \A p \in Requests : IsNew(p) => tx[p].report # tx[q].report
  BY <1>2 DEF Own, OwnIds, Others
<1> QED
  BY <1>3, <1>4, InFlightIds

\* A deletion that goes on keeps what it read of its target; DeleteGet reads it.
LEMMA TargetRead ==
    ASSUME Inv, NEW q \in Requests, Arrive(q) \/ Step(q) \/ Rollback(q), Deleting(q)'
    PROVE  \/ /\ Deleting(q) /\ tx'[q].report = tx[q].report
              /\ tx'[q].parent = tx[q].parent /\ tx'[q].company = tx[q].company
           \/ \E u \in Users, r \in ReportIds : DeleteGet(q, u, r)
<1>1. tx \in [Requests -> Tx] /\ tx[q] \in Tx
  BY DEF Inv, TypeOK
<1>2. ASSUME tx'[q].pc \notin {"delete_subs", "delete_sub_votes", "delete_sub_reports",
                               "delete_sub_check", "delete_votes", "delete_report",
                               "delete_check", "delete_bump", "delete_commit"}
      PROVE  FALSE
  BY <1>2 DEF Deleting, Listing, At
<1>3. CASE Rollback(q) \/ CreateCommit(q) \/ EditCommit(q) \/ VoteCommit(q) \/ DeleteCommit(q)
  <2>1. tx'[q] = Idle
    BY <1>1, <1>3 DEF Rollback, CreateCommit, EditCommit, VoteCommit, DeleteCommit
  <2> QED
    BY <1>2, <2>1 DEF Idle
<1>4. CASE Arrive(q)
  <2>1. ASSUME NEW u \in Users, NEW c \in Companies, NEW p \in ReportIds \cup {NULL},
               NEW t \in Texts, CreateGet(q, u, c, p, t)
        PROVE  tx'[q].pc = "create_insert"
    BY <1>1, <2>1 DEF CreateGet, Idle
  <2>2. ASSUME NEW u \in Users, NEW r \in ReportIds, NEW t \in Texts, EditGet(q, u, r, t)
        PROVE  tx'[q].pc = "edit_flush"
    BY <1>1, <2>2 DEF EditGet, Idle
  <2>3. ASSUME NEW u \in Users, NEW r \in ReportIds, NEW v \in Value, VoteGet(q, u, r, v)
        PROVE  tx'[q].pc = "vote_read"
    BY <1>1, <2>3 DEF VoteGet, Idle
  <2> QED
    BY <1>2, <1>4, <2>1, <2>2, <2>3 DEF Arrive
<1>5. CASE CreateInsert(q) \/ VoteRead(q) \/ CreateBump(q) \/ EditFlush(q) \/ VoteFlush(q)
  <2>1. CreateInsert(q) => tx'[q].pc \in {"create_bump", "create_commit"}
    <3>1. ASSUME NEW r, NEW next, tx' = [tx EXCEPT ![q].report = r, ![q].pc = next]
          PROVE  tx'[q].pc = next
      BY <1>1, <3>1 DEF Tx
    <3>2. CreateInsert(q) =>
             \E r \in ReportIds, next \in {"create_bump", "create_commit"} :
                tx' = [tx EXCEPT ![q].report = r, ![q].pc = next]
      BY DEF CreateInsert
    <3> QED
      BY <3>1, <3>2
  <2>2. VoteRead(q) => tx'[q].pc = "vote_flush"
    BY <1>1 DEF VoteRead, Tx
  <2>3. CreateBump(q) \/ EditFlush(q) \/ VoteFlush(q) =>
           tx'[q].pc \in {"create_commit", "edit_commit", "vote_commit"}
    BY <1>1 DEF CreateBump, EditFlush, VoteFlush, Goto, Tx
  <2> QED
    BY <1>2, <1>5, <2>1, <2>2, <2>3
<1>6. CASE \/ DeleteSubs(q) \/ DeleteSubVotes(q) \/ DeleteSubReports(q) \/ DeleteSubCheck(q)
           \/ DeleteVotes(q) \/ DeleteReport(q) \/ DeleteCheck(q) \/ DeleteBump(q)
  <2>1. Deleting(q)
    BY <1>6 DEF DeleteSubs, DeleteSubVotes, DeleteSubReports, DeleteSubCheck, DeleteVotes,
                DeleteReport, DeleteCheck, DeleteBump, Deleting, Listing, At
  <2> DEFINE Keeps == /\ tx'[q].report = tx[q].report
                      /\ tx'[q].parent = tx[q].parent /\ tx'[q].company = tx[q].company
  <2>2. DeleteSubs(q) => Keeps
    BY <1>1 DEF DeleteSubs, Tx
  <2>3. ASSUME NEW S, NEW next, DropVotes(q, S, next) \/ DropReports(q, S, next)
        PROVE  Keeps
    BY <1>1, <2>3 DEF DropVotes, DropReports, Tx
  <2>4. ASSUME NEW stage, Goto(q, stage)
        PROVE  Keeps
    BY <1>1, <2>4 DEF Goto, Tx
  <2> QED
    BY <1>6, <2>1, <2>2, <2>3, <2>4
       DEF DeleteSubVotes, DeleteSubReports, DeleteSubCheck, DeleteVotes, DeleteReport,
           DeleteCheck, DeleteBump
<1> QED
  BY <1>3, <1>4, <1>5, <1>6 DEF Arrive, Step, Refuse

\* What a deletion read of its target holds in the beginning, and through every step.
LEMMA InitTarget == Init => TargetStands
<1> SUFFICES ASSUME Init, NEW q \in Requests
             PROVE  ~Deleting(q)
  BY DEF TargetStands
<1> QED
  BY DEF Init, Idle, Deleting, Listing, At

LEMMA StepTarget == Inv /\ Inv' /\ TargetStands /\ [Next]_vars => TargetStands'
<1> SUFFICES ASSUME Inv, Inv', TargetStands, [Next]_vars,
                    NEW p \in Requests, Deleting(p)', Exists(tx[p].report)'
             PROVE  /\ reports'[tx'[p].report].parent = tx'[p].parent
                    /\ reports'[tx'[p].report].company = tx'[p].company
  BY DEF TargetStands
<1>1. Target(p)
  BY TargetIds
<1>2. CASE UNCHANGED vars
  BY <1>1, <1>2 DEF vars, Target, Deleting, Listing, At, Exists
<1>3. ASSUME NEW q \in Requests, Arrive(q) \/ Step(q) \/ Rollback(q)
      PROVE  /\ reports'[tx'[p].report].parent = tx'[p].parent
             /\ reports'[tx'[p].report].company = tx'[p].company
  <2>1. ASSUME Deleting(p), tx'[p].report = tx[p].report,
               tx'[p].parent = tx[p].parent, tx'[p].company = tx[p].company
        PROVE  /\ reports'[tx'[p].report].parent = tx'[p].parent
               /\ reports'[tx'[p].report].company = tx'[p].company
    <3>1. PICK r \in used \ InFlight : r = tx[p].report
      BY <1>1, <2>1 DEF Target
    <3>2. Exists(r)'
      BY <2>1, <3>1 DEF Exists
    <3>3. Exists(r) /\ reports'[r].parent = reports[r].parent /\ reports'[r].company = reports[r].company
      BY <1>3, <3>2, RowsStay
    <3> QED
      BY <1>1, <2>1, <3>1, <3>3 DEF Target
  <2>2. CASE p # q
    <3>1. tx'[p] = tx[p]
      BY <1>3, <2>2, StepOfOne
    <3>2. Deleting(p)
      BY <3>1 DEF Deleting, Listing, At
    <3> QED
      BY <2>1, <3>1, <3>2
  <2>3. ASSUME NEW u \in Users, NEW r \in ReportIds, DeleteGet(p, u, r)
        PROVE  /\ reports'[tx'[p].report].parent = tx'[p].parent
               /\ reports'[tx'[p].report].company = tx'[p].company
    <3>1. tx'[p].report = r /\ tx'[p].parent = reports[r].parent /\ tx'[p].company = reports[r].company
      BY <2>3 DEF Inv, TypeOK, DeleteGet, Idle, Tx
    <3> QED
      BY <2>3, <3>1 DEF DeleteGet, Unwritten
  <2> QED
    BY <1>3, <2>1, <2>2, <2>3, TargetRead
<1>4. \A r \in ReportIds : NotFound(r) => UNCHANGED vars
  BY DEF NotFound
<1>5. \A q \in Requests : Abort(q) \/ Victim(q) => Rollback(q)
  BY DEF Abort, Victim
<1> QED
  BY <1>2, <1>3, <1>4, <1>5 DEF Next

\* Only finitely many ids have been drawn, so the claims of a company can be counted.
DrawnFinite == IsFiniteSet(used)

LEMMA InitFinite == Init => DrawnFinite
  BY FS_EmptySet DEF Init, DrawnFinite

LEMMA StepFinite == Inv /\ DrawnFinite /\ [Next]_vars => DrawnFinite'
<1> SUFFICES ASSUME Inv, DrawnFinite, [Next]_vars
             PROVE  DrawnFinite'
  OBVIOUS
<1>1. used' = used \/ \E r : used' = used \cup {r}
  <2>1. ASSUME NEW q \in Requests, Arrive(q) \/ Step(q) \/ Rollback(q)
        PROVE  used' = used \/ \E r : used' = used \cup {r}
    <3>1. CreateInsert(q) => \E r : used' = used \cup {r}
      BY DEF CreateInsert
    <3>2. CreateCommit(q) \/ EditCommit(q) \/ VoteCommit(q) \/ DeleteCommit(q) => used' = used
      BY DEF CreateCommit, EditCommit, VoteCommit, DeleteCommit
    <3>3. Unwritten => used' = used
      BY DEF Unwritten
    <3> QED
      BY <2>1, <3>1, <3>2, <3>3, Quiet
  <2>2. UNCHANGED vars => used' = used
    BY DEF vars
  <2> QED
    BY <2>1, <2>2 DEF Next, NotFound, Abort, Victim
<1> QED
  BY <1>1, FS_AddElement DEF DrawnFinite

LEMMA ClaimsFinite ==
    ASSUME Inv, DrawnFinite, NEW c
    PROVE  IsFiniteSet(Claims(c)) /\ Cardinality(Claims(c)) \in Int
<1>1. Claims(c) \subseteq used
  BY DEF Claims, Inv, DrawnOnce
<1> QED
  BY <1>1, FS_Subset, FS_CardinalityType DEF DrawnFinite

\* A row with the depth and company it had is a claim of the company as before.
LEMMA ClaimsOf ==
    /\ \A c, r : r \in Claims(c) <=> /\ r \in ReportIds /\ reports[r] # NULL
                                     /\ reports[r].parent = NULL /\ reports[r].company = c
    /\ \A c, r : r \in Claims(c)' <=> /\ r \in ReportIds /\ reports'[r] # NULL
                                      /\ reports'[r].parent = NULL /\ reports'[r].company = c
  BY DEF Claims, Exists

\* CountFollowsClaims of one company.
Follows(c) == count'[c] - count[c] = Cardinality(Claims(c)') - Cardinality(Claims(c))

LEMMA NothingCounted ==
    ASSUME Inv, DrawnFinite, NEW c \in Companies, count'[c] = count[c],
           \A r \in ReportIds : r \in Claims(c)' <=> r \in Claims(c)
    PROVE  Follows(c)
<1>1. Claims(c)' = Claims(c)
  BY ClaimsOf
<1>2. Cardinality(Claims(c)) \in Int /\ count[c] \in Int
  BY ClaimsFinite DEF Inv, TypeOK
<1> QED
  BY <1>1, <1>2 DEF Follows

\* A new claim counts for its company, a new challenge for none.
LEMMA CreateCounted ==
    ASSUME Inv, DrawnFinite, NEW q \in Requests, CreateCommit(q), NEW c \in Companies
    PROVE  Follows(c)
<1>1. PICK n, d, p : n = tx[q].report /\ d = tx[q].company /\ p = tx[q].parent
  OBVIOUS
<1>2. Own(q) /\ tx[q].pc = "create_commit" /\ tx[q] \in Tx
  BY InvOwn DEF CreateCommit, At, Own
<1>3. n \in ReportIds /\ reports[n] = NULL /\ d \in Companies
  BY <1>1, <1>2 DEF Own, OwnStage, OwnIds, IsNew, At, Exists
<1>4. /\ reports'[n] # NULL /\ reports'[n].parent = p /\ reports'[n].company = d
      /\ \A s \in ReportIds \ {n} : reports'[s] = reports[s]
  <2> DEFINE row == [company |-> tx[q].company, user |-> tx[q].user, parent |-> tx[q].parent,
                     text |-> tx[q].text, vote_sum |-> 0]
  <2>1. row \in Row /\ row.parent = p /\ row.company = d
    BY <1>1, <1>2 DEF Own, OwnStage, At, Tx, Row
  <2>2. reports' = [reports EXCEPT ![n] = row]
    BY <1>1 DEF CreateCommit
  <2> HIDE DEF row
  <2> QED
    BY <1>3, <2>1, <2>2, TablesAssumption DEF Inv, TypeOK
<1>5. count' = IF p = NULL THEN [count EXCEPT ![d] = count[d] + 1] ELSE count
  BY <1>1 DEF CreateCommit
<1>6. count \in [Companies -> Int]
  BY DEF Inv, TypeOK
<1>7. CASE p = NULL /\ d = c
  <2>1. Claims(c)' = Claims(c) \cup {n} /\ n \notin Claims(c)
    <3>1. ASSUME NEW r
          PROVE  r \in Claims(c)' <=> r \in Claims(c) \cup {n}
      BY <1>3, <1>4, <1>7, ClaimsOf
    <3> QED
      BY <1>3, <3>1, ClaimsOf
  <2>2. Cardinality(Claims(c)') = Cardinality(Claims(c)) + 1
    BY <2>1, ClaimsFinite, FS_AddElement
  <2>3. count'[c] = count[c] + 1
    BY <1>5, <1>6, <1>7
  <2>4. Cardinality(Claims(c)) \in Int /\ count[c] \in Int
    BY <1>6, ClaimsFinite
  <2> QED
    BY <2>2, <2>3, <2>4 DEF Follows
<1>8. CASE ~(p = NULL /\ d = c)
  <2>1. count'[c] = count[c]
    BY <1>3, <1>5, <1>6, <1>8
  <2>2. \A r \in ReportIds : r \in Claims(c)' <=> r \in Claims(c)
    BY <1>3, <1>4, <1>8, ClaimsOf
  <2> QED
    BY <2>1, <2>2, NothingCounted
<1> QED
  BY <1>7, <1>8

\* A deletion takes the claim out of the company whose count it brings down, unless
\* the claim had gone before.
LEMMA DeleteCounted ==
    ASSUME Inv, DeletesWhole, TargetStands, DrawnFinite,
           NEW q \in Requests, DeleteCommit(q), NEW c \in Companies
    PROVE  Follows(c) \/ DeletesNoClaim(q, c)
<1>1. PICK r, R, d, p : /\ r = tx[q].report /\ R = tx[q].delR
                        /\ d = tx[q].company /\ p = tx[q].parent
  OBVIOUS
<1>2. Own(q) /\ tx[q].pc = "delete_commit" /\ tx[q] \in Tx
  BY InvOwn DEF DeleteCommit, At, Own
<1>3. r \in ReportIds /\ R \subseteq ReportIds /\ d \in Companies
  BY <1>1, <1>2 DEF Own, OwnStage, At, Tx
<1>4. /\ \A s \in ReportIds : reports'[s] = IF s \in R THEN NULL ELSE reports[s]
      /\ count' = IF p = NULL THEN [count EXCEPT ![d] = count[d] - 1] ELSE count
  BY <1>1 DEF DeleteCommit
<1>5. \A s \in R : reports[s] # NULL /\ (s = r \/ reports[s].parent = r)
  <2>1. \A s \in R : Exists(s)
    BY <1>1, <1>2 DEF Own, OwnLocks, AnyLock, XLocks
  <2>2. R \subseteq tx[q].subs \cup {r}
    BY <1>1 DEF DeletesWhole
  <2>3. \A s \in tx[q].subs : Exists(s) => reports[s].parent = r
    BY <1>1 DEF DeletesWhole
  <2> QED
    BY <2>1, <2>2, <2>3 DEF Exists
<1>6. r \in R => reports[r].parent = p /\ reports[r].company = d
  BY <1>1, <1>2, <1>5 DEF TargetStands, Deleting, Listing, At, Exists
\* Only the report itself can have been a claim.
<1>7. \A s \in ReportIds : s \in Claims(c)' <=> s \in Claims(c) /\ ~(s = r /\ r \in R)
  BY <1>3, <1>4, <1>5, ClaimsOf, TablesAssumption
<1>8. count \in [Companies -> Int]
  BY DEF Inv, TypeOK
<1>9. CASE p = NULL /\ d = c /\ r \in R
  <2>1. Claims(c)' = Claims(c) \ {r} /\ r \in Claims(c)
    <3>1. r \in Claims(c)
      BY <1>3, <1>5, <1>6, <1>9, ClaimsOf
    <3>2. ASSUME NEW s
          PROVE  s \in Claims(c)' <=> s \in Claims(c) \ {r}
      BY <1>7, <1>9, ClaimsOf
    <3> QED
      BY <3>1, <3>2
  <2>2. Cardinality(Claims(c)') = Cardinality(Claims(c)) - 1
    BY <2>1, ClaimsFinite, FS_RemoveElement
  <2>3. count'[c] = count[c] - 1
    BY <1>4, <1>8, <1>9
  <2>4. Cardinality(Claims(c)) \in Int /\ count[c] \in Int
    BY <1>8, ClaimsFinite
  <2> QED
    BY <2>2, <2>3, <2>4 DEF Follows
<1>10. CASE ~(p = NULL /\ d = c)
  <2>1. count'[c] = count[c]
    BY <1>3, <1>4, <1>8, <1>10
  <2>2. \A s \in ReportIds : s \in Claims(c)' <=> s \in Claims(c)
    BY <1>6, <1>7, <1>10, ClaimsOf
  <2> QED
    BY <2>1, <2>2, NothingCounted
<1>11. CASE p = NULL /\ d = c /\ r \notin R
  BY <1>1, <1>2, <1>11 DEF DeletesNoClaim, At
<1> QED
  BY <1>9, <1>10, <1>11

\* What an edit and a vote write into a row.
LEMMA RowWritten ==
    ASSUME NEW row \in Row
    PROVE  /\ \A t \in Texts : LET w == [row EXCEPT !.text = t] IN
                 w \in Row /\ w.parent = row.parent /\ w.company = row.company
           /\ \A d \in Int : LET w == [row EXCEPT !.vote_sum = @ + d] IN
                 w \in Row /\ w.parent = row.parent /\ w.company = row.company
  BY DEF Row

\* Edits, votes and everything that is not a commit leave claims and counts alone.
LEMMA StepCounted ==
    Inv /\ DeletesWhole /\ TargetStands /\ DrawnFinite /\ [Next]_vars =>
       [\A c \in Companies : Follows(c) \/ \E q \in Requests : DeletesNoClaim(q, c) /\ DeleteCommit(q)]_vars
<1> SUFFICES ASSUME Inv, DeletesWhole, TargetStands, DrawnFinite, Next, NEW c \in Companies
             PROVE  Follows(c) \/ \E q \in Requests : DeletesNoClaim(q, c) /\ DeleteCommit(q)
  OBVIOUS
<1>1. count' = count /\ reports' = reports => Follows(c)
  BY NothingCounted, ClaimsOf
<1>2. ASSUME NEW q \in Requests, Arrive(q) \/ Step(q) \/ Rollback(q)
      PROVE  Follows(c) \/ (DeletesNoClaim(q, c) /\ DeleteCommit(q))
  <2>1. CASE CreateCommit(q)
    BY <2>1, CreateCounted
  <2>2. CASE DeleteCommit(q)
    BY <2>2, DeleteCounted
  <2>3. CASE EditCommit(q) \/ VoteCommit(q)
    <3>1. count' = count
      BY <2>3 DEF EditCommit, VoteCommit
    <3>2. PICK r \in ReportIds : /\ Exists(r) /\ reports[r] \in Row /\ reports'[r] \in Row
                                 /\ reports'[r].parent = reports[r].parent
                                 /\ reports'[r].company = reports[r].company
                                 /\ \A s \in ReportIds \ {r} : reports'[s] = reports[s]
      <4>1. tx[q].report \in ReportIds /\ Exists(tx[q].report)
        BY <2>3, CommittedRows
      <4>2. reports[tx[q].report] \in Row
        BY <4>1 DEF Inv, TypeOK, Exists
      <4>3. CASE EditCommit(q)
        <5>1. PICK t \in Texts :
                 reports'[tx[q].report] = [reports[tx[q].report] EXCEPT !.text = t]
          BY <4>3, CommittedRows
        <5>2. /\ reports'[tx[q].report] \in Row
              /\ reports'[tx[q].report].parent = reports[tx[q].report].parent
              /\ reports'[tx[q].report].company = reports[tx[q].report].company
          BY <4>2, <5>1, RowWritten
        <5>3. \A s \in ReportIds \ {tx[q].report} : reports'[s] = reports[s]
          BY <4>3, CommittedRows
        <5> QED
          BY <4>1, <4>2, <5>2, <5>3
      <4>4. CASE VoteCommit(q)
        <5>1. tx[q].seen \in Value \cup {0} /\ tx[q].value \in Value
          BY <4>4, InvOwn, CommittedRows DEF Own, Tx
        <5>2. Delta(tx[q].seen, tx[q].value) \in Int
          BY <5>1 DEF Delta, Value
        <5>3. PICK d \in Int : reports'[tx[q].report] =
                                  [reports[tx[q].report] EXCEPT !.vote_sum = @ + d]
          BY <4>4, <5>2, CommittedRows
        <5>4. /\ reports'[tx[q].report] \in Row
              /\ reports'[tx[q].report].parent = reports[tx[q].report].parent
              /\ reports'[tx[q].report].company = reports[tx[q].report].company
          BY <4>2, <5>3, RowWritten
        <5>5. \A s \in ReportIds \ {tx[q].report} : reports'[s] = reports[s]
          BY <4>4, CommittedRows
        <5> QED
          BY <4>1, <4>2, <5>4, <5>5
      <4> QED
        BY <2>3, <4>3, <4>4
    <3>3. \A s \in ReportIds : s \in Claims(c)' <=> s \in Claims(c)
      BY <3>2, ClaimsOf, TablesAssumption DEF Exists
    <3> QED
      BY <3>1, <3>3, NothingCounted
  <2>4. CASE CreateInsert(q) /\ UNCHANGED <<reports, votes, count>>
    BY <1>1, <2>4
  <2>5. CASE Unwritten
    BY <1>1, <2>5 DEF Unwritten
  <2> QED
    BY <1>2, <2>1, <2>2, <2>3, <2>4, <2>5, Quiet
<1>3. \A r \in ReportIds : NotFound(r) => count' = count /\ reports' = reports
  BY DEF NotFound, vars
<1>4. \A q \in Requests : Abort(q) \/ Victim(q) => Rollback(q)
  BY DEF Abort, Victim
<1> QED
  BY <1>1, <1>2, <1>3, <1>4 DEF Next

\* companies.top_level_report_count moves by exactly the claims that come and go,
\* but for the second deletion of one claim.
THEOREM CountMoves == Spec => CountFollowsClaims
<1>1. Spec => []TargetStands
  BY InitTarget, StepTarget, Invariance, PTL DEF Spec
<1>2. Spec => []DrawnFinite
  BY InitFinite, StepFinite, Invariance, PTL DEF Spec
<1>3. Inv /\ DeletesWhole /\ TargetStands /\ DrawnFinite /\ [Next]_vars =>
         [\A c \in Companies :
             \/ count'[c] - count[c] = Cardinality(Claims(c)') - Cardinality(Claims(c))
             \/ \E q \in Requests : DeletesNoClaim(q, c) /\ DeleteCommit(q)]_vars
  BY StepCounted DEF Follows
<1> QED
  BY <1>1, <1>2, <1>3, Invariance, DeletionsAreWhole, PTL DEF Spec, CountFollowsClaims
=============================================================================
