--------------------------- MODULE ScorePipeline ---------------------------
(***************************************************************************)
(* How a change to the reports or votes of one company reaches the score   *)
(* and the claim count in its row: the mutating handlers of api/reports    *)
(* commit and then emit a recalc_score event (app/events.py), a topic of   *)
(* several partitions carries it, and the workers (app/worker.py) each     *)
(* read a partition, pass the dedup lock in Redis and recalculate.         *)
(*                                                                         *)
(* The commits are numbered, and a score is known by the number of the     *)
(* last commit it takes into account; Scoring says what its value is.      *)
(***************************************************************************)
EXTENDS Integers, Sequences, FiniteSets

CONSTANTS
    Workers,        \* worker pods, one partition of the topic each
    MaxRev,         \* bound: commits to the company
    EmitFails,      \* may the producer fail to start, or an event to reach the broker?
    Errors,         \* may a recalculation raise (database errors)?
    Crashes,        \* may a worker or the API pod die and be restarted?
    RedisFails,     \* may a worker fail to reach Redis?
    SlowRecalc      \* may a recalculation outlast the 60 s of the dedup lock?

ASSUME PipelineAssumption ==
    /\ MaxRev \in Nat
    /\ {EmitFails, Errors, Crashes, RedisFails, SlowRecalc} \subseteq BOOLEAN

VARIABLES
    rev,            \* commits so far to reports, votes and count of the company
    claims,         \* its top-level reports
    withdrawn,      \* has one of them been deleted?
    again,          \* history: commits of deletions whose claim was gone already
    score,          \* companies.ethical_score: the commit it was computed from
    count,          \* companies.top_level_report_count
    pending,        \* commits whose event has not reached the broker yet
    producer,       \* _producer of the API pod: None, created or also started
    starting,       \* commits whose handler is in the call of producer.start()
    log,            \* worker -> the messages of its partition
    pos,            \* worker -> messages its consumer has returned
    committed,      \* worker -> offset the consumer group has committed
    lock,           \* is score_recalc:{company_id} set in Redis?
    job,            \* worker -> the message it handles
    recalculated,   \* history: events whose recalculation was committed
    finished        \* history: events whose handler has returned

reports  == <<rev, claims, withdrawn, again>>
database == <<reports, score, count>>
api      == <<pending, producer, starting>>
topic    == <<log, pos, committed>>
history  == <<recalculated, finished>>
vars     == <<database, api, topic, lock, job, history>>

Job == [pc     : {"poll", "dedup", "totals", "get", "write"},
        event  : 0 .. MaxRev,
        raw    : 0 .. MaxRev,       \* raw_score, as the commit it is taken from
        top    : Nat,               \* top_level_report_count from the totals
        oldScore : 0 .. MaxRev,     \* company.ethical_score as loaded
        oldCount : Int]             \* company.top_level_report_count as loaded

NoJob == [pc |-> "poll", event |-> 0, raw |-> 0, top |-> 0, oldScore |-> 0, oldCount |-> 0]

At(w, stages) == job[w].pc \in stages

Recalculating(w) == At(w, {"totals", "get", "write"})

-----------------------------------------------------------------------------
(* The API *)

\* A handler of api/reports commits: d is 1 for a new claim, -1 for a withdrawn
\* one, 0 for a challenge, an edit or a vote.  The count moves by a relative
\* UPDATE in the same transaction.
Mutate(d) ==
    /\ rev < MaxRev
    /\ claims + d >= 0
    /\ rev' = rev + 1
    /\ claims' = claims + d
    /\ withdrawn' = (withdrawn \/ d = -1)
    /\ count' = count + d
    /\ pending' = pending \cup {rev + 1}
    /\ UNCHANGED <<again, score, producer, starting, topic, lock, job, history>>

\* delete_report, when it had loaded a claim that another deletion has removed
\* meanwhile: its own DELETE matches no row, and the count is lowered once more.
DeleteAgain ==
    /\ rev < MaxRev
    /\ withdrawn
    /\ rev' = rev + 1
    /\ again' = again \cup {rev + 1}
    /\ count' = count - 1
    /\ pending' = pending \cup {rev + 1}
    /\ UNCHANGED <<claims, withdrawn, score, producer, starting, topic, lock, job, history>>

\* Fault: _producer is assigned when start() has returned.
FirstUse_AssignLate(k) ==
    /\ k \in pending \ starting
    /\ producer = "none"
    /\ starting' = starting \cup {k}
    /\ UNCHANGED <<database, pending, producer, topic, lock, job, history>>

\* get_producer: the first handler creates the producer and awaits its start.
FirstUse(k) ==
    /\ k \in pending \ starting
    /\ producer = "none"
    /\ producer' = "created"
    /\ starting' = starting \cup {k}
    /\ UNCHANGED <<database, pending, topic, lock, job, history>>

Started(k) ==
    /\ k \in starting
    /\ producer' = "started"
    /\ starting' = starting \ {k}
    /\ UNCHANGED <<database, pending, topic, lock, job, history>>

\* start() raises, which the handler only logs.  The producer stays where it is,
\* and no later call starts it.
StartFails(k) ==
    /\ EmitFails
    /\ k \in starting
    /\ pending' = pending \ {k}
    /\ starting' = starting \ {k}
    /\ UNCHANGED <<database, producer, topic, lock, job, history>>

\* producer.send: without a key, any partition may be chosen.  One that is being
\* started is waited for.
Emit(k) ==
    /\ k \in pending \ starting
    /\ producer = "started"
    /\ pending' = pending \ {k}
    /\ \E w \in Workers : log' = [log EXCEPT ![w] = Append(@, k)]
    /\ UNCHANGED <<database, producer, starting, pos, committed, lock, job, history>>

\* send raises, which the handler only logs; the producer was never started, so
\* that send fails or waits in vain; or the pod goes down before what send has
\* buffered is delivered.
LoseEvent(k) ==
    /\ EmitFails
    /\ k \in pending \ starting
    /\ producer # "none"
    /\ pending' = pending \ {k}
    /\ UNCHANGED <<database, producer, starting, topic, lock, job, history>>

\* The API pod stops and another one starts: with close_producer after its last
\* request, or at once, and with it the handlers that have not emitted.
Restart ==
    /\ Crashes
    /\ producer # "none" \/ pending # {}
    /\ pending # {} => EmitFails
    /\ pending' = {} /\ starting' = {}
    /\ producer' = "none"
    /\ UNCHANGED <<database, topic, lock, job, history>>

-----------------------------------------------------------------------------
(* A worker *)

\* async for msg in consumer: the position moves before the handler runs.
Poll(w) ==
    /\ At(w, {"poll"})
    /\ pos[w] < Len(log[w])
    /\ pos' = [pos EXCEPT ![w] = @ + 1]
    /\ job' = [job EXCEPT ![w] = [NoJob EXCEPT !.pc = "dedup", !.event = log[w][pos[w] + 1]]]
    /\ UNCHANGED <<database, api, log, committed, lock, history>>

\* Fault: SET without NX, which succeeds when the key is there as well.
DedupWin_NoNX(w) ==
    /\ At(w, {"dedup"})
    /\ lock' = TRUE
    /\ job' = [job EXCEPT ![w].pc = "totals"]
    /\ UNCHANGED <<database, api, topic, history>>

\* _should_recalc: SET score_recalc:{company_id} 1 EX 60 NX
DedupWin(w) ==
    /\ At(w, {"dedup"})
    /\ ~lock
    /\ lock' = TRUE
    /\ job' = [job EXCEPT ![w].pc = "totals"]
    /\ UNCHANGED <<database, api, topic, history>>

\* Fault: the worker leaves its loop at a duplicate, where it should go on.
DedupSkip_EndsLoop(w) ==
    /\ At(w, {"dedup"})
    /\ lock
    /\ job' = [job EXCEPT ![w].pc = "ended"]
    /\ finished' = finished \cup {job[w].event}
    /\ UNCHANGED <<database, api, topic, lock, recalculated>>

\* The key is there: the transaction commits nothing and the event is done.
DedupSkip(w) ==
    /\ At(w, {"dedup"})
    /\ lock
    /\ job' = [job EXCEPT ![w] = NoJob]
    /\ finished' = finished \cup {job[w].event}
    /\ UNCHANGED <<database, api, topic, lock, recalculated>>

\* No client, or a RedisError, after which the key may be set nevertheless.
DedupDown(w) ==
    /\ RedisFails
    /\ At(w, {"dedup"})
    /\ lock' \in {lock, TRUE}
    /\ job' = [job EXCEPT ![w].pc = "totals"]
    /\ UNCHANGED <<database, api, topic, history>>

\* Fault: the totals come from a replica (ReadSession), which may lag.
ReadTotals_Replica(w) ==
    /\ At(w, {"totals"})
    /\ \E r \in 0 .. rev : job' = [job EXCEPT ![w].pc = "get", ![w].raw = r, ![w].top = claims]
    /\ UNCHANGED <<database, api, topic, lock, history>>

\* Fault: the count is not counted but taken from the denormalised column.
ReadTotals_StoredCount(w) ==
    /\ At(w, {"totals"})
    /\ job' = [job EXCEPT ![w].pc = "get", ![w].raw = rev, ![w].top = count]
    /\ UNCHANGED <<database, api, topic, lock, history>>

\* recalculate_company_score: the totals are one SELECT, one snapshot.
ReadTotals(w) ==
    /\ At(w, {"totals"})
    /\ job' = [job EXCEPT ![w].pc = "get", ![w].raw = rev, ![w].top = claims]
    /\ UNCHANGED <<database, api, topic, lock, history>>

\* session.get(Company, company_id), without a lock
GetCompany(w) ==
    /\ At(w, {"get"})
    /\ job' = [job EXCEPT ![w].pc = "write", ![w].oldScore = score, ![w].oldCount = count]
    /\ UNCHANGED <<database, api, topic, lock, history>>

\* Fault: the score is only written when the count has changed.
Write_WithCountOnly(w) ==
    LET j == job[w]
    IN  /\ At(w, {"write"})
        /\ score' = IF j.top # j.oldCount THEN j.raw ELSE score
        /\ count' = IF j.top # j.oldCount THEN j.top ELSE count
        /\ recalculated' = recalculated \cup {j.event}
        /\ finished' = finished \cup {j.event}
        /\ job' = [job EXCEPT ![w] = NoJob]
        /\ UNCHANGED <<reports, api, topic, lock>>

\* The flush updates the columns whose value differs from the loaded one, and
\* the commit follows at once.
Write(w) ==
    LET j == job[w]
    IN  /\ At(w, {"write"})
        /\ score' = IF j.raw # j.oldScore THEN j.raw ELSE score
        /\ count' = IF j.top # j.oldCount THEN j.top ELSE count
        /\ recalculated' = recalculated \cup {j.event}
        /\ finished' = finished \cup {j.event}
        /\ job' = [job EXCEPT ![w] = NoJob]
        /\ UNCHANGED <<reports, api, topic, lock>>

\* The exception is logged, the transaction rolled back, and the loop goes on
\* with the next message.  The dedup key stays.
Fail(w) ==
    /\ Errors
    /\ Recalculating(w)
    /\ finished' = finished \cup {job[w].event}
    /\ job' = [job EXCEPT ![w] = NoJob]
    /\ UNCHANGED <<database, api, topic, lock, recalculated>>

\* enable_auto_commit, the default: now and then the position is committed,
\* whether or not the handler of its last message has returned.
AutoCommit(w) ==
    /\ committed[w] # pos[w]
    /\ committed' = [committed EXCEPT ![w] = pos[w]]
    /\ UNCHANGED <<database, api, log, pos, lock, job, history>>

\* The pod dies; its successor starts from the committed offset.
Crash(w) ==
    /\ Crashes
    /\ job[w] # NoJob \/ pos[w] # committed[w]
    /\ job' = [job EXCEPT ![w] = NoJob]
    /\ pos' = [pos EXCEPT ![w] = committed[w]]
    /\ UNCHANGED <<database, api, log, committed, lock, history>>

\* 60 seconds after the SET.
LockExpires ==
    /\ lock
    /\ SlowRecalc \/ \A w \in Workers : ~Recalculating(w)
    /\ lock' = FALSE
    /\ UNCHANGED <<database, api, topic, job, history>>

-----------------------------------------------------------------------------
Init ==
    /\ rev = 0 /\ claims = 0 /\ withdrawn = FALSE /\ again = {}
    /\ score = 0 /\ count = 0
    /\ pending = {} /\ producer = "none" /\ starting = {}
    /\ log = [w \in Workers |-> <<>>]
    /\ pos = [w \in Workers |-> 0]
    /\ committed = [w \in Workers |-> 0]
    /\ lock = FALSE
    /\ job = [w \in Workers |-> NoJob]
    /\ recalculated = {} /\ finished = {}

Send(k) == FirstUse(k) \/ Started(k) \/ Emit(k)

Handle(w) ==
    \/ Poll(w) \/ DedupWin(w) \/ DedupSkip(w)
    \/ ReadTotals(w) \/ GetCompany(w) \/ Write(w)

Next ==
    \/ \E d \in {-1, 0, 1} : Mutate(d)
    \/ DeleteAgain
    \/ \E k \in 1 .. MaxRev : Send(k) \/ StartFails(k) \/ LoseEvent(k)
    \/ Restart
    \/ \E w \in Workers :
          Handle(w) \/ DedupDown(w) \/ Fail(w) \/ AutoCommit(w) \/ Crash(w)
    \/ LockExpires

Spec == Init /\ [][Next]_vars

\* Coroutines run on, the producer delivers, the consumer polls and keys expire;
\* nothing obliges users to act or anything to break.
Fairness ==
    /\ \A k \in 1 .. MaxRev : WF_vars(Send(k))
    /\ \A w \in Workers : WF_vars(Handle(w))
    /\ WF_vars(LockExpires)

FairSpec == Spec /\ Fairness

-----------------------------------------------------------------------------
(* Properties *)

TypeOK ==
    /\ rev \in 0 .. MaxRev /\ score \in 0 .. MaxRev
    /\ claims \in Nat /\ withdrawn \in BOOLEAN /\ again \subseteq 1 .. MaxRev
    /\ count \in Int
    /\ pending \subseteq 1 .. MaxRev /\ starting \subseteq pending
    /\ producer \in {"none", "created", "started"}
    /\ log \in [Workers -> Seq(1 .. MaxRev)]
    /\ pos \in [Workers -> Nat] /\ committed \in [Workers -> Nat]
    /\ lock \in BOOLEAN
    /\ job \in [Workers -> Job]
    /\ recalculated \subseteq finished /\ finished \subseteq 1 .. MaxRev

\* The pod holds one connection to the broker, however many requests need the
\* producer at once: a second one is never opened while another is being opened.
OneProducer ==
    Cardinality(starting) + (IF producer = "started" THEN 1 ELSE 0) <= 1

\* The dedup lock keeps two workers from recalculating the company at the same
\* time, as long as Redis answers and a recalculation ends within its 60 s.
NoOverlap == \A w, x \in Workers : Recalculating(w) /\ Recalculating(x) => w = x

\* A recalculation never replaces a score by an older one: commits that it once
\* took into account stay in it.
ScoreNeverRegresses == [][score' >= score]_vars

\* An event that was recalculated for has done its work: the score covers the
\* commit that emitted it, since the handler commits before it emits.
RecalculatedIsCurrent == \A k \in recalculated : score >= k

\* Is a score from commit k up to date?  Nothing but the count has changed since.
Reflects(k) == k + 1 .. rev \subseteq again

\* The second deletions that a recalculation from commit k does not know of.
Unseen(k) == {i \in again : i > k}

\* Beside a score that is up to date, the count has lost whatever error earlier
\* recalculations wrote into it.  It is never too high then, and too low by no
\* more than one for each second deletion since: those it keeps, as the score
\* gives no reason to recalculate and their events may fall to the dedup key.
CountDriftBounded ==
    Reflects(score) =>
        /\ claims - Cardinality(Unseen(score)) <= count
        /\ count <= claims

\* Every event is delivered and handled in the end, duplicates, slow
\* recalculations and Redis failures included: no worker stops reading.
EventsFinish == \A k \in 1 .. MaxRev : k \in pending ~> k \in finished

\* An event handled while the dedup key is not set leads to a score that covers
\* it, whether its own worker wins the key or another one does.
FreeKeyMeansFresh ==
    \A k \in 1 .. MaxRev :
        (~lock /\ \E w \in Workers : At(w, {"dedup"}) /\ job[w].event = k) ~> score >= k

-----------------------------------------------------------------------------
(* What the documentation says and the code does not do *)

\* Nothing is under way and nothing is left to do.
AtRest ==
    /\ pending = {}
    /\ \A w \in Workers : job[w] = NoJob /\ pos[w] = Len(log[w])
    /\ ~lock

\* README, "Eventual Consistency": after a mutation the event brings the score
\* up to date.
ScoreCatchesUp == AtRest => Reflects(score)
=============================================================================
