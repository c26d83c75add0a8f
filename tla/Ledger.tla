------------------------------- MODULE Ledger -------------------------------
(***************************************************************************)
(* What the reports API promises about its tables, with every request      *)
(* taking effect in one step: the claims and challenges, their votes and   *)
(* the denormalised vote_sum, which here is recounted from the votes each  *)
(* time.  ReportStore, where a request is a transaction of several         *)
(* statements that interleave with others, implements it.                  *)
(***************************************************************************)
EXTENDS Tables

VARIABLES
    reports,        \* id -> the row, or NULL
    votes,          \* id -> ballot
    retired         \* ids that were drawn from the sequence and have no row

ledger == <<reports, votes, retired>>

Exists(r)      == reports[r] # NULL
TopLevel(r)    == Exists(r) /\ reports[r].parent = NULL
Challenges(r)  == {s \in ReportIds : Exists(s) /\ reports[s].parent = r}
Standing       == {r \in ReportIds : Exists(r)}

LedgerInit ==
    /\ reports = [r \in ReportIds |-> NULL]
    /\ votes = [r \in ReportIds |-> NoVotes]
    /\ retired = {}

\* A claim, or a challenge to an existing claim about the same company.
Submit(r, c, u, p, t) ==
    /\ ~Exists(r) /\ r \notin retired
    /\ p # NULL => TopLevel(p) /\ reports[p].company = c
    /\ reports' = [reports EXCEPT ![r] = [company |-> c, user |-> u, parent |-> p,
                                          text |-> t, vote_sum |-> 0]]
    /\ UNCHANGED <<votes, retired>>

Amend(r, t) ==
    /\ Exists(r)
    /\ reports' = [reports EXCEPT ![r].text = t]
    /\ UNCHANGED <<votes, retired>>

\* A report goes with everything that hangs on it, and its id never returns.
Withdraw(r) ==
    LET gone == {r} \cup Challenges(r)
    IN  /\ Exists(r)
        /\ reports' = [s \in ReportIds |-> IF s \in gone THEN NULL ELSE reports[s]]
        /\ votes' = [s \in ReportIds |-> IF s \in gone THEN NoVotes ELSE votes[s]]
        /\ retired' = retired \cup gone

\* Adds, flips or removes u's vote; the sum is the tally of what is left.
CastVote(r, u, v) ==
    /\ Exists(r)
    /\ votes' = [votes EXCEPT ![r][u] = Toggle(@, v)]
    /\ reports' = [reports EXCEPT ![r].vote_sum = Tally(votes'[r])]
    /\ UNCHANGED retired

\* A request that fails after it drew an id leaves a gap in the sequence.
Burn(r) ==
    /\ ~Exists(r) /\ r \notin retired
    /\ retired' = retired \cup {r}
    /\ UNCHANGED <<reports, votes>>

LedgerNext ==
    \E r \in ReportIds :
        \/ \E c \in Companies, u \in Users, p \in ReportIds \cup {NULL}, t \in Texts :
              Submit(r, c, u, p, t)
        \/ \E t \in Texts : Amend(r, t)
        \/ Withdraw(r)
        \/ \E u \in Users, v \in Value : CastVote(r, u, v)
        \/ Burn(r)

LedgerSpec == LedgerInit /\ [][LedgerNext]_ledger
=============================================================================
