--------------------------- MODULE ResponseCache ---------------------------
(***************************************************************************)
(* The cached read endpoints, for one company: its page and the list of    *)
(* api/companies, and the barcode scan of api/barcode.  They look in Redis *)
(* first, otherwise run their statements on a read replica and put the     *)
(* response into Redis; the mutating handlers of api/reports commit to the *)
(* primary and then delete the cached responses by pattern.  The worker    *)
(* commits scores and deletes nothing.                                     *)
(*                                                                         *)
(* The primary is the sequence of its committed versions; a replica is a   *)
(* position in it, and what a statement returns is the position it saw.    *)
(***************************************************************************)
EXTENDS Integers, Sequences, FiniteSets

CONSTANTS
    Readers,        \* slots for read requests in progress
    Writers,        \* slots for mutating requests in progress
    Replicas,       \* read-only instances behind DB_READ_URL
    GuestPages,     \* company:{id}:u:0
    UserPages,      \* company:{id}:u:{user_id}
    ListKeys,       \* companies:{search}:{sort}:{page}:{per_page}
    ScanKeys,       \* scan:{barcode}
    MaxVersions,    \* bound: versions of the company in the primary
    Failures,       \* may Redis fail to answer, may a pod go down?
    NULL

ASSUME CacheAssumption ==
    /\ MaxVersions \in Nat \ {0}
    /\ Failures \in BOOLEAN

VARIABLES
    db,             \* the committed versions, the last one is current
    applied,        \* replica -> versions it has applied
    cache,          \* key -> entry in Redis, or NULL
    reader,         \* reader -> state of its handler
    writer,         \* writer -> state of its handler, from its commit on
    swept           \* history: versions whose handler has deleted all patterns

vars == <<db, applied, cache, reader, writer, swept>>

Pages == GuestPages \cup UserPages
Keys == Pages \cup ListKeys \cup ScanKeys

Version == [rev    : Nat,       \* commits to reports and votes
            claims : Nat,       \* top-level reports
            scored : Nat]       \* the rev that ethical_score accounts for

Position == 1 .. MaxVersions

\* One position per statement; ttl is the EX argument, 0 when there is none.
Entry == [parts : Seq(Position),
          at    : Position,     \* history: current version when it was set
          ttl   : {120, 300}]

Reader == [key : Keys, replica : Replicas, parts : Seq(Position)]

\* The cache_delete_pattern calls of a handler, in their order.
Patterns == <<Pages, ListKeys, ScanKeys>>

Writer == [pattern : DOMAIN Patterns,
           batch   : (SUBSET Keys) \cup {NULL}, \* keys found by SCAN
           version : Position,
           ok      : BOOLEAN]                   \* no RedisError so far

Current == Len(db)

-----------------------------------------------------------------------------
(* Reading *)

\* get_company: the company, its claims with their counts, the viewer's votes,
\* the challenges, the viewer's votes on those; without claims it stops after the
\* second, and without challenges there is no fifth.  list_companies: the total,
\* then the items.  scan_barcode: one join.
Lengths(k, parts) ==
    CASE k \in ListKeys -> {2}
      [] k \in Pages    -> IF Len(parts) >= 2 /\ db[parts[2]].claims = 0 THEN {2}
                           ELSE IF k \in GuestPages THEN {3} ELSE {4, 5}
      [] OTHER          -> {1}

Complete(k, parts)   == Len(parts) \in Lengths(k, parts)
Unfinished(k, parts) == \E n \in Lengths(k, parts) : Len(parts) < n

\* cache_get finds the response, and the handler returns it.
Hit(r, k) ==
    /\ reader[r] = NULL
    /\ cache[k] # NULL
    /\ UNCHANGED vars

\* Nothing there, or Redis did not answer: the session gets a replica.
Miss(r, k) ==
    /\ reader[r] = NULL
    /\ cache[k] = NULL \/ Failures
    /\ \E i \in Replicas :
          reader' = [reader EXCEPT ![r] = [key |-> k, replica |-> i, parts |-> <<>>]]
    /\ UNCHANGED <<db, applied, cache, writer, swept>>

\* READ COMMITTED: each statement sees what the replica has applied by then.
Read(r) ==
    /\ reader[r] # NULL
    /\ Unfinished(reader[r].key, reader[r].parts)
    /\ reader' = [reader EXCEPT ![r].parts = Append(@, applied[reader[r].replica])]
    /\ UNCHANGED <<db, applied, cache, writer, swept>>

Ttl(k) == IF k \in ScanKeys THEN 300 ELSE 120

\* Fault: the response is set without EX.
Fill_Forever(r) ==
    /\ reader[r] # NULL
    /\ Complete(reader[r].key, reader[r].parts)
    /\ cache' = [cache EXCEPT ![reader[r].key] =
                    [parts |-> reader[r].parts, at |-> Current, ttl |-> 0]]
    /\ reader' = [reader EXCEPT ![r] = NULL]
    /\ UNCHANGED <<db, applied, writer, swept>>

\* cache_set, then the response.
Fill(r) ==
    /\ reader[r] # NULL
    /\ Complete(reader[r].key, reader[r].parts)
    /\ cache' = [cache EXCEPT ![reader[r].key] =
                    [parts |-> reader[r].parts, at |-> Current,
                     ttl |-> Ttl(reader[r].key)]]
    /\ reader' = [reader EXCEPT ![r] = NULL]
    /\ UNCHANGED <<db, applied, writer, swept>>

\* cache_set fails, which does not keep the response back.
Respond(r) ==
    /\ reader[r] # NULL
    /\ Failures
    /\ Complete(reader[r].key, reader[r].parts)
    /\ reader' = [reader EXCEPT ![r] = NULL]
    /\ UNCHANGED <<db, applied, cache, writer, swept>>

-----------------------------------------------------------------------------
(* Writing *)

Commit(version) == Current < MaxVersions /\ db' = Append(db, version)

\* A mutating handler commits: a new claim, a withdrawn one, anything else.
Mutate(w, d) ==
    LET v == db[Current]
    IN  /\ writer[w] = NULL
        /\ v.claims + d >= 0
        /\ Commit([v EXCEPT !.rev = @ + 1, !.claims = @ + d])
        /\ writer' = [writer EXCEPT ![w] = [pattern |-> 1, batch |-> NULL,
                                            version |-> Current + 1, ok |-> TRUE]]
        /\ UNCHANGED <<applied, cache, reader, swept>>

\* scan_iter: a key that is there all the time is found, one that comes or goes
\* meanwhile may be; here the scan looks at one moment, the UNLINK comes later.
Scan(w) ==
    /\ writer[w] # NULL /\ writer[w].batch = NULL
    /\ writer' = [writer EXCEPT ![w].batch =
                     {k \in Patterns[writer[w].pattern] : cache[k] # NULL}]
    /\ UNCHANGED <<db, applied, cache, reader, swept>>

\* The next pattern, or after the last one the event and the response.
NextPattern(w, ok) ==
    LET h == writer[w]
    IN  IF h.pattern < Len(Patterns)
        THEN /\ writer' = [writer EXCEPT ![w] = [h EXCEPT !.pattern = @ + 1, !.batch = NULL,
                                                          !.ok = ok]]
             /\ UNCHANGED swept
        ELSE /\ writer' = [writer EXCEPT ![w] = NULL]
             /\ swept' = IF ok THEN swept \cup {h.version} ELSE swept

Without(keys) == [k \in Keys |-> IF k \in keys THEN NULL ELSE cache[k]]

\* Fault: UNLINK is only sent when the batch is full, not for the rest.
Unlink_FullBatches(w) ==
    /\ writer[w] # NULL /\ writer[w].batch # NULL
    /\ cache' = IF Cardinality(writer[w].batch) >= 500 THEN Without(writer[w].batch) ELSE cache
    /\ NextPattern(w, writer[w].ok)
    /\ UNCHANGED <<db, applied, reader>>

Unlink(w) ==
    /\ writer[w] # NULL /\ writer[w].batch # NULL
    /\ cache' = Without(writer[w].batch)
    /\ NextPattern(w, writer[w].ok)
    /\ UNCHANGED <<db, applied, reader>>

\* A RedisError is logged and the handler goes on; the command may have reached
\* Redis all the same.
SweepDown(w) ==
    /\ Failures
    /\ writer[w] # NULL
    /\ \/ UNCHANGED cache
       \/ writer[w].batch # NULL /\ cache' = Without(writer[w].batch)
    /\ NextPattern(w, FALSE)
    /\ UNCHANGED <<db, applied, reader>>

\* The worker commits a score that accounts for everything so far (ScorePipeline
\* says when it does).
Recalculate ==
    LET v == db[Current]
    IN  /\ v.scored # v.rev
        /\ Commit([v EXCEPT !.scored = v.rev])
        /\ UNCHANGED <<applied, cache, reader, writer, swept>>

-----------------------------------------------------------------------------
(* The environment *)

Replicate(i) ==
    /\ applied[i] < Current
    /\ applied' = [applied EXCEPT ![i] = @ + 1]
    /\ UNCHANGED <<db, cache, reader, writer, swept>>

Expire(k) ==
    /\ cache[k] # NULL /\ cache[k].ttl # 0
    /\ cache' = Without({k})
    /\ UNCHANGED <<db, applied, reader, writer, swept>>

\* The pod that serves a request goes down.
ReaderDies(r) ==
    /\ Failures
    /\ reader[r] # NULL
    /\ reader' = [reader EXCEPT ![r] = NULL]
    /\ UNCHANGED <<db, applied, cache, writer, swept>>

WriterDies(w) ==
    /\ Failures
    /\ writer[w] # NULL
    /\ writer' = [writer EXCEPT ![w] = NULL]
    /\ UNCHANGED <<db, applied, cache, reader, swept>>

Init ==
    /\ db = <<[rev |-> 0, claims |-> 0, scored |-> 0]>>
    /\ applied = [i \in Replicas |-> 1]
    /\ cache = [k \in Keys |-> NULL]
    /\ reader = [r \in Readers |-> NULL]
    /\ writer = [w \in Writers |-> NULL]
    /\ swept = {}

Next ==
    \/ \E r \in Readers :
          \/ \E k \in Keys : Hit(r, k) \/ Miss(r, k)
          \/ Read(r) \/ Fill(r) \/ Respond(r) \/ ReaderDies(r)
    \/ \E w \in Writers :
          \/ \E d \in {-1, 0, 1} : Mutate(w, d)
          \/ Scan(w) \/ Unlink(w) \/ SweepDown(w) \/ WriterDies(w)
    \/ Recalculate
    \/ \E i \in Replicas : Replicate(i)
    \/ \E k \in Keys : Expire(k)

Spec == Init /\ [][Next]_vars

\* Handlers that have read run on, replicas catch up and keys expire.  Nothing
\* makes anybody read, write or invalidate.
Fairness ==
    /\ \A r \in Readers : WF_vars(Read(r) \/ Fill(r) \/ Respond(r))
    /\ \A i \in Replicas : WF_vars(Replicate(i))
    /\ \A k \in Keys : WF_vars(Expire(k))

FairSpec == Spec /\ Fairness

-----------------------------------------------------------------------------
(* Properties *)

TypeOK ==
    /\ db \in Seq(Version) /\ Current \in Position
    /\ applied \in [Replicas -> 1 .. Current]
    /\ cache \in [Keys -> Entry \cup {NULL}]
    /\ reader \in [Readers -> Reader \cup {NULL}]
    /\ writer \in [Writers -> Writer \cup {NULL}]
    /\ swept \subseteq Position

\* When a mutating handler has answered and Redis answered it, no response that
\* was cached before its commit is left under any of the patterns, whatever was
\* read, cached or expired while it swept them.
AnsweredMeansSwept ==
    \A n \in swept, k \in Keys : cache[k] # NULL => cache[k].at >= n

\* When commits come to an end, so do stale and torn responses: those that slip
\* in after an invalidation, from a lagging replica or a slow reader, and those
\* that a failed invalidation leaves.
StalenessEnds ==
    <>[](\A k \in Keys : cache[k] # NULL =>
            \A i \in DOMAIN cache[k].parts : cache[k].parts[i] = Current)
=============================================================================
