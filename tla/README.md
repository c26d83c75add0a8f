# A formal model of erthiscan-core

TLA+ modules that model the backend under `app/`, TLC configurations that check
them on small instances, and theorems that TLAPS proves for all instances.
Line numbers refer to the files of this repository.

## 1. Inventory

| Component | Files | State it keeps | Operations |
|---|---|---|---|
| Report and vote transactions | `api/reports.py`, `models/report.py`, `models/vote.py` | tables `reports`, `votes`, column `companies.top_level_report_count` | `create_report`, `update_report`, `delete_report`, `vote_on_report` |
| Reports API, reads | `api/reports.py`, `api/companies.py` | none | the answer of `vote_on_report`, `get_company`, `get_my_profile` |
| Company scoring | `enricher/company_score.py` | columns `ethical_score`, `top_level_report_count` | `recalculate_company_score`, `normalize_ethical_score` |
| Recalculation pipeline | `events.py`, `worker.py` | module variable `_producer`, topic `recalc_score`, consumer offsets, Redis key `score_recalc:{id}` | `get_producer`, `emit_recalc_score`, `close_producer`, `_should_recalc`, `handle_recalc_score`, consumer loop |
| Response cache | `cache.py`, `api/companies.py`, `api/barcode.py` | Redis keys `company:*`, `companies:*`, `scan:*` | `cache_get`, `cache_set`, `cache_delete_pattern` and the read endpoints around them |
| Directory query | `api/companies.py` | none | filter, similarity, sort, page arithmetic |
| Sessions | `api/auth.py`, `api/deps.py`, `models/refresh_token.py`, `models/user.py` | tables `users`, `refresh_tokens`, Redis keys `bl:{jti}` | login, refresh, logout, `get_current_user_id`, `get_optional_user_id` |
| Open Food Facts import | `collector/*` | tables `companies`, `products`, staging tables | `import_open_facts_dump` |
| Rate limiter, application shell, migrations | `rate_limit.py`, `main.py`, `config.py`, `models/database.py`, `alembic/` | library state, handles | configuration and wiring |

How they interact: a mutating handler commits to the primary (`WriteSession`),
deletes the cached responses by pattern, and sends an event to Kafka. A worker
takes the event, passes a dedup lock in Redis, recomputes the score of the
company from its votes and commits it. Readers go to Redis first and to a
replica (`ReadSession`) otherwise. The import, run by hand or by a job, writes
the companies that all the others refer to. Every endpoint that acts for a user
asks `deps.py` who that is, which asks Redis whether the token was logged out.
Nothing but the database, the topic and Redis is shared: there are no in-process
locks, and every `await` is a point at which other requests, of this pod or
another, take their turn.

What is hard, and what has to be right:

- **Transactions.** A handler is several statements at READ COMMITTED. Only
  `vote_on_report` takes a lock on purpose (`with_for_update`, line 269); the
  others rely on the row locks their writes imply and on foreign keys. The
  denormalised `vote_sum` and `top_level_report_count` are changed by
  differences, so one lost or repeated difference stays forever. Deletions and
  votes lock the same rows in different orders.
- **Answers.** A page comes from up to five statements and a profile from two,
  each with a snapshot of its own; counts and the user's own vote are read apart.
- **Scoring.** Two groupings and an outer join have to count each claim once,
  each challenge on its claim only, and no other company's.
- **Pipeline.** Handlers need the producer before it has started, and its start
  may fail; events arrive after the commit, out of order, late, not at all, or
  again; the dedup key drops some on purpose; two recalculations may overlap when
  the lock fails; a worker may die between any two steps.
- **Cache.** Fills race with sweeps, replicas lag, Redis may fail half way, and a
  score changes after the sweep that announced it.
- **Directory.** Pages are cut out with OFFSET while companies come and go, and
  the total is read by another statement.
- **Sessions.** A refresh token is to be used once, also when two requests present
  it; logout runs beside refresh; a blacklist entry has to outlive its token,
  though its lifetime is rounded; the answer with a new token may be lost.
- **Import.** Rows with one number under several spellings, a last batch that is
  not full, two imports at once, and the community changing the very rows that
  are upserted.

All hazards, with their lines and the properties that watch them, are listed in
`PROJECT.json`.

## 2. Modules

| Module | What it is |
|---|---|
| `Tables` | rows, ballots, and the arithmetic of a vote (`Toggle`, `Delta`, `Tally`) |
| `Ledger` | abstract specification: each request is one step |
| `ReportStore` | the four handlers statement by statement; implements `Ledger` |
| `ReportStoreInv` | the inductive invariant of `ReportStore` |
| `Reads` | answers of several statements over the tables of `Ledger` |
| `Scoring` | the scoring statement over the tables of `Ledger` |
| `ScorePipeline` | commits, producer, events, workers, dedup lock, recalculation, for one company |
| `ResponseCache` | cached reads, replicas, invalidation, expiry, for one company |
| `Paging`, `Directory` | the page arithmetic, and a client that walks through the pages |
| `Sessions` | login, rotation, logout, blacklist and token checks |
| `DumpImport` | the import, its upserts row by row, and the community beside it |
| `…Proofs` | theorems and their proofs |
| `MC…` | the instances TLC checks: each adds the symmetry of its constants, or the values that a cfg cannot hold |

`Reads` and `Scoring` extend `Ledger`, so their mutations are single steps. That
is sound because `ReportStore`, where they are not, implements `Ledger`
(`Serializable`), and a statement sees committed states only.

An operator named `X_Something` with the comment *Fault* is a broken variant of
`X`, with a bug that a change to the code could plausibly introduce. It is used
by no specification; replacing `X` by it makes the property it is meant for
fail, which shows that the property depends on that part of the code.

### Tables, Ledger, ReportStore

`reports`, `votes` and `count` hold what is committed. A request `q` has a record
`tx[q]` with the next statement (`pc`), the handler's locals (`seen` is
`existing.value`, `subs` is `sub_ids`) and the rows its transaction has deleted.
One action is one statement with the implicit work the database does for it:

| Code (`app/api/reports.py`) | Actions |
|---|---|
| `create_report` 91–149 | `CreateGet`, `CreateInsert` (autoflush of the INSERT, foreign key), `CreateBump`, `CreateCommit` |
| `update_report` 164–184 | `EditGet`, `EditFlush`, `EditCommit` |
| `vote_on_report` 255–301 | `VoteGet` (FOR UPDATE), `VoteRead`, `VoteFlush`, `VoteCommit` |
| `delete_report` 197–241 | `DeleteGet`, `DeleteSubs`, `DeleteSubVotes`, `DeleteSubReports`, `DeleteSubCheck`, `DeleteVotes`, `DeleteReport`, `DeleteCheck`, `DeleteBump`, `DeleteCommit` |
| exceptions | `Refuse` (foreign key, `StaleDataError`), `Abort` (connection or pod lost), `Victim` (deadlock detector), `NotFound` (404) |

Row locks are not a variable: which locks a request holds follows from how far
it has come (`XLocks`, `NLocks`, `KLocks`, `VoteLocks`, `CompanyLocked`). A
statement is enabled when no other request holds a conflicting lock. A DELETE is
two actions because its NO ACTION foreign keys are checked after the rows are
marked, when another snapshot applies.

Abstractions. `text` and `sources` are one opaque value. `depth` is not kept: the
table's CHECK makes it a function of `parent_id`. `sources` is never empty (CHECK
and pydantic). The 400, 403 and 404 answers change nothing; 404 stands for them
in `NotFound`. A statement that waits and then re-reads the row it waited for is
modelled at the moment it proceeds. `user_id` refers to an existing user, since
it comes out of a token issued for one and users are never deleted; companies are
never deleted either.

### Reads

| Code | Actions |
|---|---|
| `vote_on_report` 255–333 | `Vote` (all up to the commit), `VoteCounts`, `VoteOwn`, `Respond` |
| `get_company` 165–300 | `PageGet`, `PageClaims`, `PageVotes`, `PageSubs`, `PageSubVotes`, `Respond` |
| `get_my_profile` 336–411 | `ProfileGet`, `ProfileClaims`, `ProfileChallenges`, `Respond` |
| everything others do | `Elsewhere` |

`read[q]` has the next statement and the answer so far: rows as sets of ids
(`claims`, `subs`), their counts, and the reader's own votes. The early exits are
kept: no claims, no challenges, no user. Row order and the columns that are only
copied are left out. `stood` and `kept` are history: the reports that exist since
the request began, and those on which its user has not voted since. A session
reads one server; a replica goes through the same states as the primary, only
later, so `Ledger` stands for the one that is read.

### Scoring

One operator per subquery of `recalculate_company_score`; groups are sets of
rows that carry the id they were grouped by, so equal sums are not merged. The
normalised score is kept as the exact fraction `ScoreNum / ScoreDen`; the code
divides two integers into a float. For |raw| beyond about 10^8 neighbouring
scores may round to the same float, so the strict order there becomes a weak one.

### ScorePipeline

One company. Commits are numbered and a score is known by the number of the last
commit it accounts for (`Scoring` says what its value is). `Mutate` is a handler's
commit, which moves the true number of claims (`claims`) and the column (`count`)
together. `DeleteAgain` is the commit of a deletion whose claim another deletion has
removed meanwhile (the trace of `store_double_delete`): it lowers the column alone,
and emits its event like any other. `again` remembers these commits, as a score from
before one of them is as good as one from after it. Who loaded what when is in
`ReportStore`; here such a deletion may commit any time after a first one
(`withdrawn`), as often as the bound on commits allows.

`producer` is the module variable of the API pod: `"none"`, `"created"` from the
assignment on (events.py line 19), `"started"` when a `start()` has returned.
`FirstUse`, `Started` and `StartFails` are `get_producer`; a handler that comes
after a failed start finds a producer that nobody starts any more, and its event
is lost (`LoseEvent`), whether the library's `send` on it fails or waits for ever. `Restart` is the end
of the pod, with `close_producer` or without. There is one API pod, as each has a
producer of its own.

Each worker owns a partition: `log` is what the broker has, `pos` what the
consumer has returned, `committed` the group offset. `job` is the message in the
handler and its locals: the totals (`raw`, `top`) and the loaded row (`oldScore`,
`oldCount`), because SQLAlchemy writes only columns whose value differs from the
loaded one. The flush and the commit of the recalculation are one action: nothing
is read in between, and others see the write only after the commit. Constants switch the failures on:
`EmitFails`, `Errors`, `Crashes`, `RedisFails`, `SlowRecalc`. Rebalancing of
partitions between live workers is left out.

### ResponseCache

The primary is the sequence of its committed versions; a replica is a position in
it; a statement returns the position it saw. A page has one position per
statement of `get_company` (lines 186, 191–208, 215–220, 225–249, 254–259), a
list two, a scan one, and the early exits of `get_company` are kept. A handler
sweeps `company:{id}*`, `companies:*` and `scan:*` in that order, SCAN and UNLINK
apart. `company:{id}*` also matches ids that begin with the same digits; those
pages are of other companies and are only deleted needlessly. What a page shows
is in `Reads`, and how old it may be is here.

### Paging, Directory

`Paging` has the arithmetic of lines 137 and 140 alone, so that it can be proved
about. In `Directory` a client asks for one page after the other until the last
answer says that there are no more; each page is `Count` (line 136) and `Fetch`
(line 141). Between any two steps a company's count or score may change, by the
reports API or a worker. The order of rows that agree on the sort column is
chosen anew by every statement, as PostgreSQL may. The companies a search matches
are a fixed set, since `similarity` depends on the name alone. Every page is a
cache miss here: a cached one is a page from up to 120 s ago.

`changes` remembers what happened since the walk began: a company *joined* the
listing, *slipped* in between total and rows, *left* it, or *moved* within it;
`tied` whether two listed companies agreed on the sort column.

### Sessions

A *grant* is a row of `refresh_tokens` and the access token handed out with it,
known by a number. `refresh`, `users` and `blacklist` are the stored state;
`access` is what clients hold.

| Code | Actions |
|---|---|
| `auth_google` 83–142 | `LoginGet`, `LoginCreate`, `LoginRefused` (unique `google_id`), `LoginToken` |
| `refresh` 152–196 | `RefreshGet` (FOR UPDATE), `RefreshRotate`, `RefreshPurge` (expired) |
| `logout` 199–236 | `LogoutDecode`, `LogoutBlacklist`, `LogoutRedisDown`, `LogoutFind` (snapshot of the DELETE), `LogoutDelete` |
| `deps.py` 44–91 | `AuthDecode`, `AuthPass`, `AuthRefuse` (401 or guest, also without Redis), `Served` |
| the rest | `Abort` (pod, connection), `Tick` (time), `Outlive` (the refresh token's 30 days) |

Time counts in ticks, several to a second, because the code rounds: `exp` and the
blacklist's lifetime are whole seconds, while PyJWT compares with the exact time.
What expires carries the ticks it has left, so no clock has to be bounded. That a
refresh token's days are over is related to nothing else, and may happen at any
moment. A grant whose answer was lost has a row and no holder. Signatures, issuer
and audience are the JWT library's; a token that fails there never gets in.

### DumpImport

`ReadRow` (`SkipRow`, `KeepRow`, `Unreadable`) is one row of the stream, `ReadEnd`
the rest of the last batch, `UpsertCompany` and `UpsertProduct` one row of the two
`INSERT … ON CONFLICT` statements, each of which may wait for the row; then
`Commit`, `Fail` or `Victim`. `wanted` are the companies whose row a handler or a
worker is waiting to update. `changes` stands for the community's columns, score
and count; `normalized` says whether `name_normalized` is what the name makes of
it. A barcode is a model value and `KeyOf` says what `int()` makes of it, so that
two spellings of one number, and a digit that is no decimal, can be told apart.
CSV, gzip and the spelling of names are left out. The order in which an upsert
goes through its rows is that of the staging table.

## 3. Runs

Every run completes its state space. Properties are explained where they are
defined; this is what the runs show.

| Run | Checks | Result |
|---|---|---|
| `store_safety` | `TypeOK`, `VoteSumAgrees`, `VoteReadStable`, `NothingDangles`, `CountFollowsClaims`, and `Serializable`: `ReportStore` implements `Ledger` | hold |
| `store_live` | `EveryRequestEnds` | holds |
| `store_double_delete` | `CountAgrees` (models/company.py) | **violated** |
| `reads` | `TypeOK`, `PageIsComplete`, `ProfileIsComplete`, `OwnVoteIsCounted` | hold |
| `scoring` | `ScoreIsShownWeight`, `RankingPreserved`, `OneVoteOneStep`, `ChallengesOnlySubtract`, `WithdrawalIsClean` | hold |
| `pipeline_safety` | `TypeOK`, `OneProducer`, `NoOverlap`, `RecalculatedIsCurrent`, `CountDriftBounded`, `ScoreNeverRegresses` with crashes, errors, failed starts, lost events | hold |
| `pipeline_live` | `EventsFinish`, `FreeKeyMeansFresh` with Redis failures and slow recalculations | hold |
| `pipeline_burst` | `ScoreCatchesUp` (README: eventual consistency) | **violated** |
| `cache` | `TypeOK`, `AnsweredMeansSwept`, `StalenessEnds` with failures and replica lag | hold |
| `directory` | `TypeOK`, `NothingTwice`, `NothingMissed` for every sort order | hold |
| `sessions` | `TypeOK`, `OneUserPerAccount`, `OneTokenPerLogin`, `EndedStaysEnded`, `GivenTokenWorks`, `LoggedOutIsRefused` with lost answers and Redis failures | hold |
| `import` | `TypeOK`, `ImportIsReference`, `ImportEnds`, `UpdatesGetThrough` with overlapping imports | hold |

The violated ones state what a comment or the documentation says; the traces:

- *double delete*: both requests read the claim, one deletes and commits, the
  other's DELETE matches no row, which SQLAlchemy only warns about, and its
  relative UPDATE lowers the count a second time.
- *burst*: commit 1, event 1 takes the key and reads the totals; commit 2, event 2
  finds the key and is dropped; the key expires, and nobody recalculates.

Further differences between documentation and code, which the models contain and
no run of their own shows:

- `worker.py` line 68 says that a restarted worker "picks up exactly where it left
  off without missing any events". `enable_auto_commit` is left at its default, so
  the position of a message may be committed while its handler runs (`AutoCommit`);
  if the pod dies then (`Crash`), nobody handles the message.
- `events.py` line 31 says that the worker takes over the cache invalidation. It
  deletes nothing: a page that was filled after the handler's sweep and before the
  worker's commit keeps the old score for its 120 s.
- `models/company.py` line 23: the count is kept in step by differences, but a
  recalculation writes the number it has counted over it. A claim committed in
  between is missing from it until the next recalculation, and its own event may
  fall to the dedup key. The same goes for the second of two deletions: when its
  event falls to the key, the count stays too low beside a score that is right,
  until a later event gets through. (`CountDriftBounded` says that this is the only
  error a count can have beside an up-to-date score.)
- `worker.py` line 31 calls recalculating without Redis "data consistency". Without
  the lock two workers overlap, and the one that read first may write last.
- `events.py` line 14 promises "a single, persistent connection". After a failed
  first `start()` there is none until the pod restarts, and every event is lost
  with a warning.
- `auth.py` lines 206–207 say that a logout deletes "all persistent refresh tokens".
  A refresh whose commit comes after the DELETE has taken its snapshot keeps its new
  token. (`EndedStaysEnded` is about the logins whose rows the DELETE did remove.)
- `auth.py` line 205: the entry lives "until its natural expiry time". It is rounded
  down, so the token may work again during the last second of its life; that is the
  exception in `LoggedOutIsRefused`.
- `auth.py` line 92 calls the login an "upsert"; the loser of two first logins is
  answered 500 (`LoginRefused`), and succeeds when it tries again.
- A dump with 13 digits that `int()` rejects ends the whole import (`Unreadable`).
- The directory's default order, by number of reports, has ties nearly always, and
  pages are cut out with OFFSET: with `tied`, a walk may repeat companies and miss
  others even if nothing changes.
- `api/barcode.py` line 83 says that `get_product_by_barcode` returns "the most
  up-to-date database information", but it reads from a replica, which may lag.
- README.md line 46 describes an asynchronous `create_report` that answers 202 and
  lets the worker persist the report, while the handler persists it itself and
  answers 201.
- `tests/test_companies.py` line 36 expects a `per_page` field that
  `CompaniesResponse` does not have.

**Bounds.** `ReportIds` bounds how many reports are ever created: two suffice for
a claim with its challenge, or two claims. Two requests show every pairwise
interleaving of statements; the proofs below are for any number. Two users make
author, voter and a rival voter; `store_live` needs one, since row locks do not ask
who holds them. `MaxPerUser` bounds a user's requests in flight. `IdsLeft` makes
every create that starts find an id. `reads` has one reader, since readers do not
disturb each other (`OtherKeeps` in the proof), two companies and two users.
In `scoring`, three reports give a claim with
two challenges or two companies with claims, and two users give sums from -2 to 2.
In the pipeline, three commits (`MaxRev`) give an event that is handled, one that
is dropped and one that comes too late, or a claim, its deletion and a second
deletion; two workers overlap. In the cache, three
versions (`MaxVersions`) give two commits, or a commit and a score; a user's page
has the most statements, and a list key adds a second pattern. In the directory,
three companies and pages of one or two give full, half full and empty pages, and
two changes (`MaxChanges`) one that shifts the listing and one that shifts it back.
In `sessions`, three grants (`MaxGrants`), of which clients get to know two
(`MaxAnswers`), give a login with a successor and another login; a second of two
ticks, and tokens of one second, show all the rounding. `GrantsLeft` makes every
request that starts find a grant. In `import`, dumps of two rows (`MaxRows`) out of
five, batches of two, two imports (`MaxImports`), so that the second may overlap
the first or follow it, and one change per company. Symmetry is used only where
constants are interchangeable, and never with liveness.

**Deadlock** is checked in the store, reads, cache, directory and session runs,
whose systems never stop. The ledger of `scoring`, the pipeline and the import come
to rest when the bounded ids, commits or imports are used up, so their cfgs turn
the check off.

**Fairness.** `ReportStore`: strong fairness for the next statement of each
request, because PostgreSQL queues the waiters of a row and the event loop resumes
every coroutine whose await is done; weak fairness for the deadlock detector.
Arrivals and aborts are never fair. `ScorePipeline`: weak fairness for the start of
the producer and its delivery, for the loop of each worker and for the expiry of
the key; none for users and failures. `ResponseCache`: weak fairness for readers in
progress, replication and expiry; none for arrivals, commits, sweeps and failures,
so `StalenessEnds` does not rest on the invalidation. `DumpImport`: weak fairness
for the steps of an import, for the deadlock detector and for updates whose row is
free, which is enough because the imports of a run are bounded; none for the start
of an import, its failures and the community's wishes.

## 4. Proofs

Proved by TLAPS for every value of the constants, from the named assumptions of
the modules alone: any finite set of users and any sets of companies, reports,
texts, requests and readers, any number of workers, commits, keys, replicas,
grants, imports, any page size, any dump.

| Module | Theorems | What of the runs they cover |
|---|---|---|
| `TablesProofs` | `DeltaIsTallyChange` | a lemma of the next two |
| `ReportStoreProofs` | `Invariance`, `TypeCorrect`, `VoteSumCorrect`, `VoteReadCorrect`, `ReferencesCorrect`, `DeletionsAreWhole`, `ImplementsLedger`, `CountMoves` | all of `store_safety`, the refinement included |
| `LedgerProofs` | `NormalizationIncreasing`, `NormalizationBounded`, `ScoresAreShown`, `RankingIsPreserved`, `VotesMoveOneStep`, `ChallengesSubtract`, `WithdrawalsAreClean` | all of `scoring` |
| | `Invariance`, `TypeCorrect`, `PagesAreComplete`, `ProfilesAreComplete`, `OwnVotesAreCounted` | all of `reads` |
| `ScorePipelineProofs` | `Invariance`, `TypeCorrect`, `ProducerIsSingle`; with `LockHolds`: `LockInvariance`, `RecalculationsAreExclusive`, `RecalculatedStaysCurrent`, `CountDriftsByDeletions`, `ScoreOnlyMovesOn` | all of `pipeline_safety` |
| `ResponseCacheProofs` | `Invariance`, `TypeCorrect`, `InvalidationSweeps` | `cache`, but for liveness |
| `DirectoryProofs` | `OnOnePage`, `NoPageIsEmpty`, `Invariance`, `TypeCorrect`, `NothingIsShownTwice`, `NothingIsMissed` | all of `directory` |
| `SessionsProofs` | `Invariance`, `TypeCorrect`, `FirstLoginsAgree`, `RotationIsExclusive`, `LogoutIsFinal`, `TokensLast`, `LogoutRevokes` | all of `sessions` |
| `DumpImportProofs` | `Invariance`, `TypeCorrect`, `ImportsAreReference` | `import`, but for liveness |

Two assumptions deserve a word. `LockHolds` (`~RedisFails /\ ~SlowRecalc`) is the
hypothesis of the theorems about the dedup lock: without Redis, or when a
recalculation outlasts the 60 s of the key, two workers do overlap, and the code
accepts that. It says nothing of crashes, errors and lost events, which the theorems
allow; `pipeline_safety` runs under it, `pipeline_live` under its opposite.
`RowAssumption` of `DumpImport` and `NullAssumption` of `Sessions` say that NULL is
no row, which an untyped logic cannot know.

Why the invariants are what they are.

*ReportStore.* `VoteSumAgrees` is not inductive: the commit of a vote adds a
difference computed from `seen`, so `VoteReadStable` is needed; that one needs that
no other request may touch the voter's row between `VoteRead` and `VoteCommit`,
which is `LocksHold` for votes on the same report and `RemovalsMatch` with
`VoteLocksHold` for deletions (a deletion that removed the vote is bound to remove
the report, which the voter has locked). `NothingDangles` needs that what the
foreign keys found stays true until the commit (`ChecksStand`), that a parent does
not change its kind (`ParentsStand`), and that a drawn id is known to one request
only (`DrawnOnce`). `StageOK` says which locals are set at which statement. The
proof of a step has one lemma per action. Actions that write no table are reduced
to the requests' own clauses (`Own`, `LocalStep`); the commits are treated one
conjunct at a time.

*The refinement.* `ImplementsLedger` maps each action of `ReportStore` to a step of
`Ledger` or to a stutter, under the mapping that shows an id as retired when it has
been drawn, is not in flight and has no row. Statements stutter: they change
nothing that is committed. `CreateCommit` is `Submit`, with the claim still standing
by `ChecksStand`; `EditCommit` is `Amend`; `VoteCommit` is `CastVote`, where the sum
that `Ledger` recounts is the one the code adds up, by `DeltaIsTallyChange` and
`VoteReadStable`; a create that fails is `Burn`. `DeleteCommit` is `Withdraw`: for
this the rows that the transaction has removed have to be the report and *all* of its
challenges, which `DeletesWhole` and `RemovalsMatch` say, or the report is gone
already and the step stutters. `CountMoves` follows the same case split for the
counter: it is off exactly when a deletion commits for a claim that another
deletion has removed, the trace of `store_double_delete`.

*Scoring.* The inductive invariant `ScoringInv` of the ledger has the types, that
the standing reports are finitely many, that each challenge has a claim about the
same company, that vote sums are tallies, and that no vote outlives its report (a
new report would else begin with a sum of 0 and old votes). The score then is a
matter of algebra. SUM is a fold whose recursion takes the rows in the order of
CHOOSE; induction theorems with a predicate as parameter cannot be used, so the
lemmas take the *set* of the subsets that violate the claim and a smallest one among
them (`SmallestSet`, from the well-foundedness of strict inclusion). They show that
the recursion has exactly one solution (`SumExists`, `SumUnique`), that any row may
be taken first (`SumTake`), and from it how a sum splits over disjoint sets, groups
and differences, and survives a change of keys. `PenaltyRow` and `JoinedRows` go
through the statement subquery by subquery: the join gives one row per claim with
its weight, since each group of challenges finds its claim and a claim without a
group gets 0. `ScoreIsSplit` is the result, the tallies of the claims less the costs
of the challenges; the properties of steps follow from it and from what a step does
to the two sets (`CastScores`, `WithdrawScores`).

*Reads.* That a page is complete rests on `FamiliesHold`: a challenge that stands
during the whole request has a claim about the same company that does, too, so the
statement for challenges has asked for it. `RowsGathered` says what each stage has
found, and `VotesGathered` that the counts read so far have room for the user's
vote as it is now; both survive the steps of others, because these can only shrink
`stood` and `kept` (`OtherKeeps`, `MutationKeeps`).

*ScorePipeline.* `StartedOnce` makes `OneProducer` inductive: a handler starts the
producer only when it has found none, and nobody finds none while it is being
started. With the lock, `TotalsStand` says what a worker between its totals and its
write knows: its totals cover its own event and are no older than the score, and the
row it has loaded is still the row, so that the columns SQLAlchemy leaves out of the
UPDATE need none. For the count it says that the totals were right when they were
read: a later commit that changed a claim makes the score of this worker out of
date, and a second deletion lowers the column by one and adds one commit to those
the score does not know of, so that `CountDriftBounded` keeps its balance (the
cardinality lemmas, `UnseenFinite`). `EventsAreCommitted` gives that an event's
commit lies before any recalculation for it.

*ResponseCache.* A sweep is SCAN and UNLINK pattern by pattern, while others fill
keys. `PatternsDone` says that a handler is done with the patterns before its
present one and with those keys of the present one that its scan did not find: they
were empty, or filled after the commit from the primary. Keys filled from a lagging
replica or by a slow reader are stamped with the time they were cached, which is what
the property is about; `StalenessEnds` is about their content.

*Directory.* While nothing ties, a company is listed at its `Rank`, the number of
companies not behind it. `NoneAhead`: if companies only leave, ranks only fall, so
those shown stay within the positions shown, and the next page shows others.
`NoneBehind`: if companies only join, ranks only grow, so those not yet shown are
behind the positions shown, and the last page the answer counts reaches them.
Division is eliminated by the lemma that a quotient times the divisor is at most the
dividend and less than one divisor below it.

*Sessions.* `Free` makes a rotation the only request that holds its row, so
`OneTokenPerLogin` is kept when the successor is issued, and a logout cannot delete
the row under it: `EndedStaysEnded`. `GivenTokenWorks` needs `FindsOwn`: the rows in
the snapshot of a DELETE stay its user's until it commits, since grants issued in the
meantime have other numbers. For the blacklist, `Outlasts(entry, g)` relates
the ticks of the entry to those of the token: with the rounding of `Ttl` it holds
when the lifetime is computed, both count down together, and it says that the entry
is gone only in the token's last second.

*DumpImport.* `Streamed` says that what is staged or still in the batch is what
counts of the rows read, so a row is kept or skipped as the reference definition
would. `CompaniesUpserted` and `ProductsUpserted` say how far the two statements have
come, and `RowsAreCurrent` that a company an import has upserted is locked, so the
community's columns in it are the current ones at the commit.

Model-checked only: the liveness properties (`EveryRequestEnds`, `EventsFinish`,
`FreeKeyMeansFresh`, `StalenessEnds`, `ImportEnds`, `UpdatesGetThrough`), since the
prover has no rules for fairness here and none for ENABLED; and the two runs that
expect a violation.

## 5. Not modelled

The rate limiter's window belongs to its library; the application shell, settings,
health probes and migrations have no behaviour of their own, and the constraints
that the migrations create are in `Tables`, `ReportStore` and `Sessions`. Trigram
similarity is PostgreSQL's. `pending_vote_count` is written by nothing in `app/`.
Verification of Google's id token and of signatures is the libraries'.

## 6. Plan

Done: all components with state of their own, and a theorem for every property of
the passing runs that is not liveness. What is left is proof:

1. The scores of `Scoring` for the interleaved transactions: an instance of
   `Scoring` over the variables of `ReportStore`, whose properties follow from
   `ImplementsLedger` and the theorems about `LedgerSpec`.
2. `CountAgrees` under the condition that no two deletions of one claim overlap.
3. For the cache, a bound on how stale an answer can be: a response stamped after a
   commit by a reader of the primary shows that commit.
4. For the pipeline without the lock: what still holds when recalculations overlap.
