------------------------ MODULE ScorePipelineProofs ------------------------
(***************************************************************************)
(* Theorems about ScorePipeline, for any number of workers and commits.    *)
(*                                                                         *)
(* Inv holds whatever fails.  Exclusive adds what the dedup lock is for,   *)
(* and needs that Redis answers and that no recalculation outlasts the     *)
(* 60 s of the lock; events may get lost, recalculations fail, and workers *)
(* and the API pod crash all the same.                                     *)
(***************************************************************************)
EXTENDS ScorePipeline, FiniteSetTheorems, SequenceTheorems, TLAPS

\* The producer is being started by one handler at most, and by none before it is
\* created or after a start has succeeded.
StartedOnce ==
    /\ starting # {} => producer = "created"
    /\ \A k, l \in starting : k = l

\* Events are emitted after their commit, so wherever one is, its commit is done.
EventsAreCommitted ==
    /\ pending \subseteq 1 .. rev /\ again \subseteq 1 .. rev
    /\ \A w \in Workers : \A i \in 1 .. Len(log[w]) : log[w][i] <= rev
    /\ \A w \in Workers : ~At(w, {"poll"}) => job[w].event \in 1 .. rev

\* So is everything that a score takes into account.
ScoresAreCommitted ==
    /\ score <= rev
    /\ \A w \in Workers : job[w].raw <= rev

Inv == TypeOK /\ StartedOnce /\ EventsAreCommitted /\ ScoresAreCommitted

\* What a worker that holds the lock knows of the row, from its totals to its write.
TotalsStand(w) ==
    /\ At(w, {"get", "write"}) =>
          /\ job[w].event <= job[w].raw
          /\ score <= job[w].raw /\ job[w].raw <= rev
          /\ Reflects(job[w].raw) => job[w].top = claims
    /\ At(w, {"write"}) =>
          /\ job[w].oldScore = score
          /\ Reflects(job[w].raw) =>
                /\ job[w].oldCount - Cardinality(Unseen(job[w].raw)) <= count
                /\ count <= job[w].oldCount

\* The lock is held during a recalculation, so nobody else writes the score.
Exclusive ==
    /\ \A w \in Workers : Recalculating(w) => lock
    /\ NoOverlap
    /\ \A w \in Workers : TotalsStand(w)
    /\ RecalculatedIsCurrent
    /\ CountDriftBounded

-----------------------------------------------------------------------------
(* Whatever fails *)

\* All that the invariant needs to know of the bound.
LEMMA BoundIsNat == MaxRev \in Nat
  BY PipelineAssumption

\* What a partition holds and what a worker does are well typed one by one.
LEMMA LocalTypes ==
    ASSUME Inv
    PROVE  /\ \A w \in Workers : log[w] \in Seq(1 .. MaxRev)
           /\ \A w \in Workers : \A i \in 1 .. Len(log[w]) : log[w][i] \in 1 .. MaxRev
           /\ \A w \in Workers : job[w] \in Job
           /\ NoJob \in Job
           /\ rev \in 0 .. MaxRev /\ rev \in Nat /\ score \in Nat
<1>1. log \in [Workers -> Seq(1 .. MaxRev)] /\ job \in [Workers -> Job]
  BY DEF Inv, TypeOK
<1>2. \A w \in Workers : log[w] \in Seq(1 .. MaxRev)
  BY <1>1
<1>3. ASSUME NEW w \in Workers, NEW i \in 1 .. Len(log[w])
      PROVE  log[w][i] \in 1 .. MaxRev
  BY <1>2, ElementOfSeq
<1>4. NoJob \in Job
  BY BoundIsNat DEF NoJob, Job
<1>5. rev \in 0 .. MaxRev /\ score \in 0 .. MaxRev
  BY DEF Inv, TypeOK
<1> QED
  BY <1>1, <1>2, <1>3, <1>4, <1>5, BoundIsNat

\* Nothing is committed, and nobody is at work.
LEMMA InitInv == Init => Inv
<1> SUFFICES ASSUME Init PROVE Inv
  OBVIOUS
<1>1. \A w \in Workers : log[w] = <<>> /\ job[w] = NoJob
  BY DEF Init
<1>2. NoJob \in Job
  BY BoundIsNat DEF NoJob, Job
<1>3. TypeOK
  <2>1. log \in [Workers -> Seq(1 .. MaxRev)] /\ job \in [Workers -> Job]
    BY <1>2 DEF Init
  <2>2. pos \in [Workers -> Nat] /\ committed \in [Workers -> Nat]
    BY DEF Init
  <2>3. /\ rev = 0 /\ claims = 0 /\ score = 0 /\ count = 0 /\ again = {}
        /\ pending = {} /\ producer = "none" /\ starting = {}
        /\ recalculated = {} /\ finished = {}
    BY DEF Init
  <2>4. lock \in BOOLEAN /\ withdrawn \in BOOLEAN
    BY DEF Init
  <2> QED
    BY <2>1, <2>2, <2>3, <2>4, BoundIsNat DEF TypeOK
<1> QED
  BY <1>1, <1>3 DEF Init, Inv, StartedOnce, EventsAreCommitted, ScoresAreCommitted, At, NoJob

\* A commit has a number of its own, which is greater than those before.
LEMMA CommitInv ==
    ASSUME Inv, NEW d \in {-1, 0, 1}, Mutate(d) \/ DeleteAgain
    PROVE  Inv'
<1>1. rev' = rev + 1 /\ rev \in Nat /\ rev' \in 0 .. MaxRev
  BY BoundIsNat DEF Mutate, DeleteAgain, Inv, TypeOK
<1>2. again' \in {again, again \cup {rev + 1}}
  BY DEF Mutate, DeleteAgain
<1>3. TypeOK'
  <2>1. claims' \in Nat /\ count' \in Int /\ withdrawn' \in BOOLEAN
    <3>1. claims \in Nat /\ count \in Int /\ withdrawn \in BOOLEAN
      BY DEF Inv, TypeOK
    <3>2. CASE Mutate(d)
      BY <3>1, <3>2 DEF Mutate
    <3>3. CASE DeleteAgain
      BY <3>1, <3>3 DEF DeleteAgain
    <3> QED
      BY <3>2, <3>3
  <2>2. /\ pending' = pending \cup {rev + 1}
        /\ UNCHANGED <<score, producer, starting, topic, lock, job, history>>
    BY DEF Mutate, DeleteAgain
  <2>3. again' \subseteq 1 .. MaxRev /\ pending' \subseteq 1 .. MaxRev /\ starting' \subseteq pending'
    BY <1>1, <1>2, <2>2, BoundIsNat DEF Inv, TypeOK
  <2> QED
    BY <1>1, <2>1, <2>2, <2>3 DEF Inv, TypeOK, topic, history
<1>4. EventsAreCommitted'
  <2>1. pending' = pending \cup {rev + 1} /\ log' = log /\ job' = job
    BY DEF Mutate, DeleteAgain, topic
  <2>2. \A w \in Workers : \A i \in 1 .. Len(log[w]) : log[w][i] \in Nat
    BY LocalTypes, BoundIsNat
  <2> QED
    BY <1>1, <1>2, <2>1, <2>2 DEF Inv, EventsAreCommitted, At
<1>5. ScoresAreCommitted'
  <2>1. \A w \in Workers : job[w].raw \in Nat
    BY LocalTypes, BoundIsNat DEF Job
  <2> QED
    BY <1>1, <2>1, LocalTypes DEF Mutate, DeleteAgain, Inv, ScoresAreCommitted
<1> QED
  BY <1>3, <1>4, <1>5 DEF Mutate, DeleteAgain, Inv, StartedOnce

\* The handlers' side of an event.
LEMMA ProducerInv ==
    ASSUME Inv, NEW k \in 1 .. MaxRev,
           FirstUse(k) \/ Started(k) \/ StartFails(k) \/ LoseEvent(k) \/ Restart
    PROVE  Inv'
<1>1. UNCHANGED <<database, topic, lock, job, history>>
  BY DEF FirstUse, Started, StartFails, LoseEvent, Restart
<1>2. TypeOK' /\ pending' \subseteq pending
  BY <1>1 DEF FirstUse, Started, StartFails, LoseEvent, Restart, Inv, TypeOK, StartedOnce,
              database, reports, topic, history
<1>3. StartedOnce'
  BY DEF FirstUse, Started, StartFails, LoseEvent, Restart, Inv, StartedOnce
<1>4. EventsAreCommitted' /\ ScoresAreCommitted'
  <2>1. rev' = rev /\ again' = again /\ score' = score /\ log' = log /\ job' = job
    BY <1>1 DEF database, reports, topic
  <2> QED
    BY <1>2, <2>1 DEF Inv, EventsAreCommitted, ScoresAreCommitted, At
<1> QED
  BY <1>2, <1>3, <1>4 DEF Inv

\* An event that the broker takes goes to the end of one partition.
LEMMA EmitInv ==
    ASSUME Inv, NEW k \in 1 .. MaxRev, Emit(k)
    PROVE  Inv'
<1> PICK w \in Workers : log' = [log EXCEPT ![w] = Append(@, k)]
  BY DEF Emit
<1>1. /\ k \in 1 .. rev /\ log[w] \in Seq(1 .. MaxRev) /\ log \in [Workers -> Seq(1 .. MaxRev)]
      /\ pending' \subseteq pending /\ starting \subseteq pending'
      /\ UNCHANGED <<database, producer, starting, pos, committed, lock, job, history>>
  BY DEF Emit, Inv, EventsAreCommitted, TypeOK
<1>2. log' \in [Workers -> Seq(1 .. MaxRev)]
  BY <1>1
<1>3. TypeOK'
  BY <1>1, <1>2 DEF Inv, TypeOK, database, reports, history
<1>4. \A x \in Workers : \A i \in 1 .. Len(log'[x]) : log'[x][i] <= rev
  <2> SUFFICES ASSUME NEW x \in Workers, NEW i \in 1 .. Len(log'[x])
               PROVE  log'[x][i] <= rev
    OBVIOUS
  <2>1. x # w => log'[x] = log[x]
    BY <1>1
  <2>2. log'[w] = Append(log[w], k)
    BY <1>1
  <2>3. i # Len(log[w]) + 1 /\ x = w => i \in 1 .. Len(log[w]) /\ log'[w][i] = log[w][i]
    BY <1>1, <2>2
  <2>4. i = Len(log[w]) + 1 /\ x = w => log'[w][i] = k
    BY <1>1, <2>2
  <2> QED
    BY <1>1, <2>1, <2>3, <2>4 DEF Inv, EventsAreCommitted
<1>5. EventsAreCommitted' /\ ScoresAreCommitted'
  BY <1>1, <1>4 DEF Inv, EventsAreCommitted, ScoresAreCommitted, database, reports, At
<1> QED
  BY <1>1, <1>3, <1>5 DEF Inv, StartedOnce

\* What a step of a worker has to respect: it takes committed events only, writes
\* what it has read, and finishes what it has taken.
LEMMA WorkerStep ==
    ASSUME Inv, NEW w \in Workers, NEW j \in Job,
           UNCHANGED <<reports, api, log>>,
           job' = [job EXCEPT ![w] = j],
           j.pc # "poll" => j.event \in 1 .. rev,
           j.raw <= rev,
           score' \in {score, job[w].raw}, count' \in Int,
           pos' \in [Workers -> Nat], committed' \in [Workers -> Nat], lock' \in BOOLEAN,
           recalculated' \subseteq finished',
           finished' = finished \/ (~At(w, {"poll"}) /\ finished' = finished \cup {job[w].event})
    PROVE  Inv'
<1>1. rev \in 0 .. MaxRev /\ job[w] \in Job /\ job \in [Workers -> Job]
  BY LocalTypes DEF Inv, TypeOK
<1>2. job' \in [Workers -> Job] /\ job'[w] = j /\ \A x \in Workers \ {w} : job'[x] = job[x]
  BY <1>1
<1>3. score' \in 0 .. MaxRev /\ score' <= rev
  BY <1>1 DEF Inv, TypeOK, ScoresAreCommitted, Job
<1>4. finished' \subseteq 1 .. MaxRev
  <2>1. finished \subseteq 1 .. MaxRev
    BY DEF Inv, TypeOK
  <2>2. ~At(w, {"poll"}) => job[w].event \in 1 .. MaxRev
    BY <1>1, BoundIsNat DEF Inv, EventsAreCommitted
  <2> QED
    BY <2>1, <2>2
<1>5. TypeOK'
  <2>1. withdrawn' \in BOOLEAN
    BY DEF Inv, TypeOK, reports
  <2> QED
    BY <1>2, <1>3, <1>4, <2>1 DEF Inv, TypeOK, api, reports
<1>6. EventsAreCommitted' /\ ScoresAreCommitted'
  BY <1>2, <1>3 DEF Inv, EventsAreCommitted, ScoresAreCommitted, At, api, reports
<1> QED
  BY <1>5, <1>6 DEF Inv, StartedOnce, api

\* The actions of a worker respect it.
LEMMA WorkerInv ==
    ASSUME Inv, NEW w \in Workers,
           Handle(w) \/ DedupDown(w) \/ Fail(w) \/ AutoCommit(w) \/ Crash(w)
    PROVE  Inv'
<1>1. /\ job[w] \in Job /\ job \in [Workers -> Job]
      /\ NoJob \in Job /\ NoJob.pc = "poll" /\ NoJob.raw = 0
      /\ rev \in 0 .. MaxRev /\ rev \in Nat /\ score \in 0 .. MaxRev
      /\ claims \in Nat /\ count \in Int
      /\ pos \in [Workers -> Nat] /\ committed \in [Workers -> Nat]
      /\ recalculated \subseteq finished /\ job[w].raw <= rev
  BY LocalTypes DEF Inv, TypeOK, ScoresAreCommitted, NoJob
<1>2. lock \in BOOLEAN
  BY DEF Inv, TypeOK
<1>3. ~At(w, {"poll"}) => job[w].event \in 1 .. rev
  BY DEF Inv, EventsAreCommitted
<1>4. CASE Poll(w)
  <2> DEFINE k == log[w][pos[w] + 1]
             j == [NoJob EXCEPT !.pc = "dedup", !.event = k]
  <2>1. pos[w] + 1 \in 1 .. Len(log[w])
    BY <1>1, <1>4, LocalTypes DEF Poll
  <2>2. k \in 1 .. rev /\ k \in 1 .. MaxRev
    BY <2>1, LocalTypes, BoundIsNat DEF Inv, EventsAreCommitted
  <2> HIDE DEF k
  <2>3. j \in Job /\ j.event = k /\ j.raw = 0
    <3>1. k \in 0 .. MaxRev
      BY <2>2, BoundIsNat
    <3>2. ASSUME NEW r \in Job
          PROVE  /\ [r EXCEPT !.pc = "dedup"] \in Job
                 /\ [r EXCEPT !.pc = "dedup"].raw = r.raw
      BY DEF Job
    <3>3. ASSUME NEW r \in Job
          PROVE  /\ [r EXCEPT !.event = k] \in Job
                 /\ [r EXCEPT !.event = k].event = k /\ [r EXCEPT !.event = k].raw = r.raw
      BY <3>1 DEF Job
    <3>4. j = [[NoJob EXCEPT !.pc = "dedup"] EXCEPT !.event = k]
      OBVIOUS
    <3> HIDE DEF j
    <3> QED
      BY <1>1, <3>2, <3>3, <3>4
  <2>4. job' = [job EXCEPT ![w] = j]
    BY <1>4 DEF Poll, k
  <2> HIDE DEF j
  <2>5. pos' \in [Workers -> Nat]
    BY <1>1, <1>4 DEF Poll
  <2>6. UNCHANGED <<reports, score, count, api, log, committed, lock, history>>
    BY <1>4 DEF Poll, database, reports
  <2>7. lock' \in BOOLEAN
    BY <1>2, <2>6
  <2>8. /\ UNCHANGED <<reports, api, log>> /\ j.raw <= rev
        /\ score' \in {score, job[w].raw} /\ count' \in Int /\ committed' \in [Workers -> Nat]
        /\ recalculated' \subseteq finished' /\ finished' = finished
    BY <1>1, <2>3, <2>6 DEF history
  <2> QED
    BY <2>2, <2>3, <2>4, <2>5, <2>7, <2>8, WorkerStep
<1>5. CASE DedupWin(w) \/ DedupDown(w) \/ ReadTotals(w) \/ GetCompany(w)
  <2>1. ~At(w, {"poll"})
    BY <1>5 DEF DedupWin, DedupDown, ReadTotals, GetCompany, At
  <2>2. PICK j \in Job : job' = [job EXCEPT ![w] = j] /\ j.event = job[w].event /\ j.raw <= rev
    <3>1. CASE DedupWin(w) \/ DedupDown(w)
      <4>1. job' = [job EXCEPT ![w] = [job[w] EXCEPT !.pc = "totals"]]
        BY <1>1, <3>1 DEF DedupWin, DedupDown
      <4>2. [job[w] EXCEPT !.pc = "totals"] \in Job
        BY <1>1 DEF Job
      <4> QED
        BY <1>1, <4>1, <4>2 DEF Job
    <3>2. CASE ReadTotals(w)
      <4> DEFINE j == [job[w] EXCEPT !.pc = "get", !.raw = rev, !.top = claims]
      <4>1. job' = [job EXCEPT ![w] = j]
        BY <1>1, <3>2 DEF ReadTotals
      <4>2. j \in Job /\ j.event = job[w].event /\ j.raw = rev
        BY <1>1 DEF Job
      <4>3. rev <= rev
        BY <1>1
      <4> HIDE DEF j
      <4> QED
        BY <4>1, <4>2, <4>3
    <3>3. CASE GetCompany(w)
      <4> DEFINE j == [job[w] EXCEPT !.pc = "write", !.oldScore = score, !.oldCount = count]
      <4>1. job' = [job EXCEPT ![w] = j]
        BY <1>1, <3>3 DEF GetCompany
      <4>2. j \in Job /\ j.event = job[w].event /\ j.raw = job[w].raw
        BY <1>1 DEF Job
      <4> QED
        BY <1>1, <4>1, <4>2
    <3> QED
      BY <1>5, <3>1, <3>2, <3>3
  <2>3. UNCHANGED <<reports, score, count, api, log, pos, committed, history>>
    BY <1>5 DEF DedupWin, DedupDown, ReadTotals, GetCompany, database, reports, topic
  <2>4. lock' \in BOOLEAN
    BY <1>2, <1>5 DEF DedupWin, DedupDown, ReadTotals, GetCompany
  <2> QED
    BY <1>1, <1>3, <2>1, <2>2, <2>3, <2>4, WorkerStep DEF history
<1>6. CASE DedupSkip(w) \/ Fail(w) \/ Write(w)
  <2>1. ~At(w, {"poll"}) /\ job' = [job EXCEPT ![w] = NoJob]
    BY <1>6 DEF DedupSkip, Fail, Write, Recalculating, At
  <2>2. /\ finished' = finished \cup {job[w].event}
        /\ recalculated' \in {recalculated, recalculated \cup {job[w].event}}
        /\ UNCHANGED <<reports, api, log, pos, committed, lock>>
    BY <1>6 DEF DedupSkip, Fail, Write, database, reports, topic
  <2>3. score' \in {score, job[w].raw} /\ count' \in {count, job[w].top}
    BY <1>6 DEF DedupSkip, Fail, Write, database, reports
  <2>4. count' \in Int /\ NoJob.raw <= rev /\ recalculated' \subseteq finished'
    BY <1>1, <2>2, <2>3 DEF Job
  <2>5. lock' \in BOOLEAN
    BY <1>2, <2>2
  <2>6. /\ UNCHANGED <<reports, api, log>> /\ score' \in {score, job[w].raw}
        /\ pos' \in [Workers -> Nat] /\ committed' \in [Workers -> Nat]
    BY <1>1, <2>2, <2>3
  <2> QED
    BY <1>1, <2>1, <2>2, <2>4, <2>5, <2>6, WorkerStep
<1>7. CASE AutoCommit(w)
  <2>1. committed' \in [Workers -> Nat] /\ UNCHANGED <<database, api, log, pos, lock, job, history>>
    BY <1>1, <1>7 DEF AutoCommit
  <2>2. TypeOK'
    BY <2>1 DEF Inv, TypeOK, database, reports, api, history
  <2> QED
    BY <2>1, <2>2 DEF Inv, StartedOnce, EventsAreCommitted, ScoresAreCommitted, database, reports, api, At
<1>8. CASE Crash(w)
  <2>1. pos' \in [Workers -> Nat] /\ job' = [job EXCEPT ![w] = NoJob]
    BY <1>1, <1>8 DEF Crash
  <2>2. UNCHANGED <<reports, score, count, api, log, committed, lock, history>>
    BY <1>8 DEF Crash, database, reports
  <2>3. lock' \in BOOLEAN
    BY <1>2, <2>2
  <2>4. /\ UNCHANGED <<reports, api, log>> /\ NoJob.raw <= rev
        /\ score' \in {score, job[w].raw} /\ count' \in Int /\ committed' \in [Workers -> Nat]
        /\ recalculated' \subseteq finished' /\ finished' = finished
    BY <1>1, <2>2 DEF history
  <2> QED
    BY <1>1, <2>1, <2>3, <2>4, WorkerStep
<1> QED
  BY <1>4, <1>5, <1>6, <1>7, <1>8 DEF Handle

\* Inv is inductive.
LEMMA StepInv == Inv /\ [Next]_vars => Inv'
<1> SUFFICES ASSUME Inv, [Next]_vars PROVE Inv'
  OBVIOUS
<1>1. CASE (\E d \in {-1, 0, 1} : Mutate(d)) \/ DeleteAgain
  BY <1>1, CommitInv
<1>2. CASE \E k \in 1 .. MaxRev : FirstUse(k) \/ Started(k) \/ StartFails(k) \/ LoseEvent(k)
  BY <1>2, ProducerInv
<1>3. CASE Restart
  <2>1. UNCHANGED <<database, topic, lock, job, history>> /\ pending' = {} /\ starting' = {}
        /\ producer' = "none"
    BY <1>3 DEF Restart
  <2>2. TypeOK'
    BY <2>1 DEF Inv, TypeOK, database, reports, topic, history
  <2> QED
    BY <2>1, <2>2 DEF Inv, StartedOnce, EventsAreCommitted, ScoresAreCommitted, At, database, reports, topic
<1>4. CASE \E k \in 1 .. MaxRev : Emit(k)
  BY <1>4, EmitInv
<1>5. CASE \E w \in Workers :
              Handle(w) \/ DedupDown(w) \/ Fail(w) \/ AutoCommit(w) \/ Crash(w)
  BY <1>5, WorkerInv
<1>6. CASE LockExpires \/ UNCHANGED vars
  <2>1. UNCHANGED <<database, api, topic, job, history>>
    BY <1>6 DEF LockExpires, vars
  <2>2. lock' \in BOOLEAN
    BY <1>6 DEF LockExpires, vars, Inv, TypeOK
  <2>3. TypeOK'
    BY <2>1, <2>2 DEF Inv, TypeOK, database, reports, api, topic, history
  <2> QED
    BY <2>1, <2>3
    DEF Inv, StartedOnce, EventsAreCommitted, ScoresAreCommitted, At, database, reports, api, topic
<1> QED
  BY <1>1, <1>2, <1>3, <1>4, <1>5, <1>6 DEF Next, Send

\* Whatever fails, every reachable state satisfies Inv.
THEOREM Invariance == Spec => []Inv
<1> QED
  BY InitInv, StepInv, PTL DEF Spec

\* The pipeline never leaves its types: what an event, a position or a score
\* column holds is always a commit that took place, or none.
THEOREM TypeCorrect == Spec => []TypeOK
<1>1. Inv => TypeOK
  BY DEF Inv
<1> QED
  BY <1>1, Invariance, PTL

\* However many handlers emit their first event at once, and however often the
\* start fails or the pod restarts, the pod opens one connection to the broker.
THEOREM ProducerIsSingle == Spec => []OneProducer
<1>1. Inv => OneProducer
  <2> SUFFICES ASSUME Inv PROVE OneProducer
    OBVIOUS
  <2>1. CASE starting = {}
    <3>1. Cardinality(starting) = 0
      BY <2>1, FS_EmptySet
    <3> QED
      BY <3>1 DEF OneProducer
  <2>2. CASE starting # {}
    <3>1. PICK k \in starting : starting = {k}
      BY <2>2 DEF Inv, StartedOnce
    <3>2. Cardinality(starting) = 1
      BY <3>1, FS_Singleton
    <3>3. producer # "started"
      BY <2>2 DEF Inv, StartedOnce
    <3> QED
      BY <3>2, <3>3 DEF OneProducer
  <2> QED
    BY <2>1, <2>2
<1> QED
  BY <1>1, Invariance, PTL

-----------------------------------------------------------------------------
(* As long as Redis answers and no recalculation outlasts the lock *)

\* What becomes of Exclusive if nothing happens that it is about.
LEMMA QuietExclusive ==
    ASSUME Exclusive, UNCHANGED <<database, lock, job, recalculated>>
    PROVE  Exclusive'
  BY DEF Exclusive, NoOverlap, TotalsStand, RecalculatedIsCurrent, CountDriftBounded,
         Recalculating, At, database, reports, Reflects, Unseen

\* A worker that takes a message or gives one up leaves the others alone.
LEMMA IdleExclusive ==
    ASSUME Inv, Exclusive, NEW w \in Workers, NEW j \in Job, j.pc \in {"poll", "dedup"},
           job' = [job EXCEPT ![w] = j], UNCHANGED <<database, lock, recalculated>>
    PROVE  Exclusive'
<1>1. job' \in [Workers -> Job] /\ job'[w] = j /\ \A x \in Workers \ {w} : job'[x] = job[x]
  BY DEF Inv, TypeOK
<1>2. ~At(w, {"totals", "get", "write"})'
  BY <1>1 DEF At
<1>3. \A x \in Workers : Recalculating(x)' => x # w /\ Recalculating(x)
  BY <1>1, <1>2 DEF Recalculating, At
<1>4. (\A x \in Workers : Recalculating(x) => lock)' /\ NoOverlap'
  BY <1>3 DEF Exclusive, NoOverlap
<1>5. \A x \in Workers : TotalsStand(x)'
  BY <1>1 DEF Exclusive, TotalsStand, At, database, reports, Reflects, Unseen
<1> QED
  BY <1>4, <1>5 DEF Exclusive, RecalculatedIsCurrent, CountDriftBounded, database, reports, Reflects, Unseen

\* What has been overlooked is finite, and nothing has been overlooked at first.
LEMMA UnseenFinite ==
    ASSUME Inv
    PROVE  /\ rev \in Nat /\ rev + 1 \notin again
           /\ \A k \in Nat : IsFiniteSet(Unseen(k)) /\ Cardinality(Unseen(k)) \in Nat
           /\ Cardinality(Unseen(rev)) = 0
<1>1. rev \in Nat /\ again \subseteq 1 .. rev
  BY LocalTypes DEF Inv, EventsAreCommitted
<1>2. ASSUME NEW k \in Nat
      PROVE  IsFiniteSet(Unseen(k)) /\ Cardinality(Unseen(k)) \in Nat
  <2>1. Unseen(k) \subseteq 1 .. rev
    BY <1>1 DEF Unseen
  <2>2. IsFiniteSet(1 .. rev)
    BY <1>1, FS_Interval
  <2> QED
    BY <2>1, <2>2, FS_Subset, FS_CardinalityType
<1>3. Unseen(rev) = {}
  <2>1. \A i \in again : ~(i > rev)
    BY <1>1
  <2> QED
    BY <2>1 DEF Unseen
<1> QED
  BY <1>1, <1>2, <1>3, FS_EmptySet

\* A commit that changes reports or votes puts every score and every totals out of
\* date.
LEMMA MutateExclusive ==
    ASSUME Inv, Exclusive, NEW d \in {-1, 0, 1}, Mutate(d)
    PROVE  Exclusive'
<1>1. /\ rev' = rev + 1 /\ rev \in Nat /\ score \in Nat /\ rev + 1 \notin again'
      /\ UNCHANGED <<score, lock, job, recalculated>>
  BY LocalTypes, UnseenFinite DEF Mutate, history
<1>2. \A w \in Workers : job[w].raw \in Nat /\ job[w].raw <= rev
  BY LocalTypes, BoundIsNat DEF Job, Inv, ScoresAreCommitted
<1>3. ASSUME NEW k \in Nat, k <= rev
      PROVE  ~Reflects(k)'
  BY <1>1, <1>3 DEF Reflects
<1>4. \A w \in Workers : TotalsStand(w)'
  <2> SUFFICES ASSUME NEW w \in Workers PROVE TotalsStand(w)'
    OBVIOUS
  <2>1. ~Reflects(job[w].raw)'
    BY <1>1, <1>2, <1>3 DEF Reflects
  <2> QED
    BY <1>1, <1>2, <2>1 DEF Exclusive, TotalsStand, At
<1>5. CountDriftBounded'
  BY <1>1, <1>3 DEF Inv, ScoresAreCommitted, CountDriftBounded, Reflects
<1>6. (\A w \in Workers : Recalculating(w) => lock)' /\ NoOverlap' /\ RecalculatedIsCurrent'
  BY <1>1 DEF Exclusive, NoOverlap, RecalculatedIsCurrent, Recalculating, At
<1> QED
  BY <1>4, <1>5, <1>6 DEF Exclusive

\* A second deletion leaves scores and totals up to date, and takes one off the
\* count of which no recalculation knows yet.
LEMMA DeleteAgainExclusive ==
    ASSUME Inv, Exclusive, DeleteAgain
    PROVE  Exclusive'
<1>1. /\ rev' = rev + 1 /\ rev \in Nat /\ score \in Nat /\ again' = again \cup {rev + 1}
      /\ rev + 1 \notin again /\ again \subseteq 1 .. rev /\ count' = count - 1
      /\ UNCHANGED <<claims, score, lock, job, recalculated>>
  BY LocalTypes, UnseenFinite DEF DeleteAgain, Inv, EventsAreCommitted, history
<1>2. \A w \in Workers : job[w].raw \in Nat /\ job[w].raw <= rev /\ job[w].oldCount \in Int
  BY LocalTypes, BoundIsNat DEF Job, Inv, ScoresAreCommitted
<1>3. claims \in Nat /\ count \in Int
  BY DEF Inv, TypeOK
<1>4. ASSUME NEW k \in Nat, k <= rev, k + 1 .. rev + 1 \subseteq again \cup {rev + 1}
      PROVE  Reflects(k)
  BY <1>1, <1>4 DEF Reflects
<1>5. ASSUME NEW k \in Nat, k <= rev
      PROVE  /\ Cardinality({i \in again \cup {rev + 1} : i > k}) = Cardinality(Unseen(k)) + 1
             /\ Cardinality(Unseen(k)) \in Nat
  <2>1. {i \in again \cup {rev + 1} : i > k} = Unseen(k) \cup {rev + 1}
    BY <1>1, <1>5 DEF Unseen
  <2>2. rev + 1 \notin Unseen(k)
    BY <1>1 DEF Unseen
  <2> QED
    BY <2>1, <2>2, UnseenFinite, FS_AddElement
<1>6. \A w \in Workers : TotalsStand(w)'
  <2> SUFFICES ASSUME NEW w \in Workers PROVE TotalsStand(w)'
    OBVIOUS
  <2> DEFINE k == job[w].raw
  <2>1. k \in Nat /\ k <= rev /\ job'[w] = job[w] /\ TotalsStand(w)
    BY <1>1, <1>2 DEF Exclusive
  <2>2. Reflects(job[w].raw)' => Reflects(k)
    BY <1>1, <1>4, <2>1 DEF Reflects
  <2>3. Unseen(job[w].raw)' = {i \in again \cup {rev + 1} : i > k}
    BY <1>1 DEF Unseen
  <2>4. Cardinality(Unseen(job[w].raw)') = Cardinality(Unseen(k)) + 1
    BY <1>5, <2>1, <2>3
  <2>5. Cardinality(Unseen(k)) \in Nat
    BY <1>5, <2>1
  <2>6. At(w, {"write"}) /\ Reflects(job[w].raw)' =>
           /\ job[w].oldCount - Cardinality(Unseen(job[w].raw)') <= count'
           /\ count' <= job[w].oldCount
    BY <1>1, <1>2, <1>3, <2>1, <2>2, <2>4, <2>5 DEF TotalsStand
  <2>7. At(w, {"get", "write"}) =>
           /\ job[w].event <= job[w].raw
           /\ score <= job[w].raw /\ job[w].raw <= rev + 1
           /\ Reflects(job[w].raw)' => job[w].top = claims
    BY <1>1, <2>1, <2>2 DEF TotalsStand
  <2>8. At(w, {"write"}) => job[w].oldScore = score
    BY <2>1 DEF TotalsStand
  <2> QED
    BY <1>1, <2>6, <2>7, <2>8 DEF TotalsStand, At
<1>7. CountDriftBounded'
  <2>1. score <= rev
    BY DEF Inv, ScoresAreCommitted
  <2>2. Reflects(score)' => Reflects(score)
    BY <1>1, <1>4, <2>1 DEF Reflects
  <2>3. Unseen(score)' = {i \in again \cup {rev + 1} : i > score}
    BY <1>1 DEF Unseen
  <2>4. /\ Cardinality(Unseen(score)') = Cardinality(Unseen(score)) + 1
        /\ Cardinality(Unseen(score)) \in Nat
    BY <1>1, <1>5, <2>1, <2>3
  <2>5. Reflects(score) => claims - Cardinality(Unseen(score)) <= count /\ count <= claims
    BY DEF Exclusive, CountDriftBounded
  <2>6. Reflects(score)' =>
           claims' - Cardinality(Unseen(score)') <= count' /\ count' <= claims'
    BY <1>1, <1>3, <2>2, <2>4, <2>5
  <2> QED
    BY <2>6 DEF CountDriftBounded
<1>8. (\A w \in Workers : Recalculating(w) => lock)' /\ NoOverlap' /\ RecalculatedIsCurrent'
  BY <1>1 DEF Exclusive, NoOverlap, RecalculatedIsCurrent, Recalculating, At
<1> QED
  BY <1>6, <1>7, <1>8 DEF Exclusive

\* SET NX succeeds for one worker, and for none while another one recalculates.
LEMMA DedupWinExclusive ==
    ASSUME Inv, Exclusive, NEW w \in Workers, DedupWin(w)
    PROVE  Exclusive'
<1>1. \A x \in Workers : ~Recalculating(x)
  BY DEF DedupWin, Exclusive
<1>2. /\ job \in [Workers -> Job] /\ job' = [job EXCEPT ![w] = [job[w] EXCEPT !.pc = "totals"]]
      /\ UNCHANGED <<database, recalculated>>
  BY DEF DedupWin, Inv, TypeOK, history
<1>3. job'[w].pc = "totals" /\ \A x \in Workers \ {w} : job'[x] = job[x]
  BY <1>2, LocalTypes DEF Job
<1>4. lock'
  BY DEF DedupWin
<1>5. \A x \in Workers : Recalculating(x)' => x = w
  BY <1>1, <1>3 DEF Recalculating, At
<1>6. (\A x \in Workers : Recalculating(x) => lock)' /\ NoOverlap'
  BY <1>4, <1>5 DEF NoOverlap
<1>7. \A x \in Workers : TotalsStand(x)'
  BY <1>1, <1>3 DEF TotalsStand, Recalculating, At
<1> QED
  BY <1>2, <1>6, <1>7 DEF Exclusive, RecalculatedIsCurrent, CountDriftBounded, database, reports, Reflects, Unseen

\* The totals are those of the latest commit, which is not before the event's.
LEMMA ReadTotalsExclusive ==
    ASSUME Inv, Exclusive, NEW w \in Workers, ReadTotals(w)
    PROVE  Exclusive'
<1> DEFINE j == [job[w] EXCEPT !.pc = "get", !.raw = rev, !.top = claims]
<1>1. /\ job \in [Workers -> Job] /\ job' = [job EXCEPT ![w] = j] /\ Recalculating(w)
      /\ job[w] \in Job /\ job[w].event \in 1 .. rev /\ rev \in Nat /\ score \in Nat /\ score <= rev
      /\ UNCHANGED <<database, lock, recalculated>>
  BY LocalTypes
  DEF ReadTotals, Inv, TypeOK, EventsAreCommitted, ScoresAreCommitted, Recalculating, At, history
<1>2. j.pc = "get" /\ j.event = job[w].event /\ j.raw = rev /\ j.top = claims
  BY <1>1 DEF Job
<1> HIDE DEF j
<1>3. job'[w] = j /\ \A x \in Workers \ {w} : job'[x] = job[x]
  BY <1>1
<1>4. \A x \in Workers : Recalculating(x)' => Recalculating(x)
  BY <1>1, <1>3 DEF Recalculating, At
<1>5. (\A x \in Workers : Recalculating(x) => lock)' /\ NoOverlap'
  BY <1>1, <1>4 DEF Exclusive, NoOverlap
<1>6. TotalsStand(w)'
  BY <1>1, <1>2, <1>3 DEF TotalsStand, At, database, reports, Reflects, Unseen
<1>7. \A x \in Workers \ {w} : TotalsStand(x)'
  BY <1>1, <1>3 DEF Exclusive, TotalsStand, At, database, reports, Reflects, Unseen
<1> QED
  BY <1>1, <1>5, <1>6, <1>7
  DEF Exclusive, RecalculatedIsCurrent, CountDriftBounded, database, reports, Reflects, Unseen

\* What it loads of the row stands as long as it holds the lock.
LEMMA GetCompanyExclusive ==
    ASSUME Inv, Exclusive, NEW w \in Workers, GetCompany(w)
    PROVE  Exclusive'
<1> DEFINE j == [job[w] EXCEPT !.pc = "write", !.oldScore = score, !.oldCount = count]
<1>1. /\ job \in [Workers -> Job] /\ job' = [job EXCEPT ![w] = j] /\ At(w, {"get"})
      /\ job[w] \in Job /\ UNCHANGED <<database, lock, recalculated>>
  BY LocalTypes DEF GetCompany, Inv, TypeOK, history
<1>2. /\ j.pc = "write" /\ j.event = job[w].event /\ j.raw = job[w].raw /\ j.top = job[w].top
      /\ j.oldScore = score /\ j.oldCount = count
  BY <1>1 DEF Job
<1> HIDE DEF j
<1>3. job'[w] = j /\ \A x \in Workers \ {w} : job'[x] = job[x]
  BY <1>1
<1>4. \A x \in Workers : Recalculating(x)' => Recalculating(x)
  BY <1>1, <1>3 DEF Recalculating, At
<1>5. (\A x \in Workers : Recalculating(x) => lock)' /\ NoOverlap'
  BY <1>1, <1>4 DEF Exclusive, NoOverlap
<1>6. TotalsStand(w)'
  <2>1. TotalsStand(w) /\ At(w, {"get", "write"})
    BY <1>1 DEF Exclusive, At
  <2>2. job[w].raw \in Nat /\ count \in Int
    BY <1>1, BoundIsNat DEF Job, Inv, TypeOK
  <2>3. count - Cardinality(Unseen(job[w].raw)) <= count /\ count <= count
    BY <2>2, UnseenFinite
  <2>4. /\ rev' = rev /\ again' = again /\ claims' = claims /\ score' = score /\ count' = count
        /\ job'[w].pc = "write" /\ job'[w].event = job[w].event /\ job'[w].raw = job[w].raw
        /\ job'[w].top = job[w].top /\ job'[w].oldScore = score /\ job'[w].oldCount = count
    BY <1>1, <1>2, <1>3 DEF database, reports
  <2> QED
    BY <2>1, <2>3, <2>4 DEF TotalsStand, At, Reflects, Unseen
<1>7. \A x \in Workers \ {w} : TotalsStand(x)'
  BY <1>1, <1>3 DEF Exclusive, TotalsStand, At, database, reports, Reflects, Unseen
<1> QED
  BY <1>1, <1>5, <1>6, <1>7
  DEF Exclusive, RecalculatedIsCurrent, CountDriftBounded, database, reports, Reflects, Unseen

\* The write leaves the score of its totals, which is not older, and their count, less
\* the second deletions since.
LEMMA WriteEffect ==
    ASSUME Inv, Exclusive, NEW w \in Workers, Write(w)
    PROVE  /\ score' = job[w].raw /\ score' >= score
           /\ job[w].event \in Nat /\ job[w].raw \in Nat /\ job[w].event <= job[w].raw
           /\ Reflects(job[w].raw) =>
                 /\ claims - Cardinality(Unseen(job[w].raw)) <= count'
                 /\ count' <= claims
<1>1. job[w] \in Job /\ At(w, {"get", "write"}) /\ At(w, {"write"}) /\ TotalsStand(w)
  BY LocalTypes DEF Write, At, Exclusive
<1>2. job[w].event \in Nat /\ job[w].raw \in Nat
  BY <1>1, BoundIsNat DEF Job
<1>3. /\ score' = IF job[w].raw # job[w].oldScore THEN job[w].raw ELSE score
      /\ count' = IF job[w].top # job[w].oldCount THEN job[w].top ELSE count
  BY DEF Write
<1>4. score' = job[w].raw
  BY <1>1, <1>3 DEF TotalsStand
<1>5. ASSUME Reflects(job[w].raw)
      PROVE  claims - Cardinality(Unseen(job[w].raw)) <= count' /\ count' <= claims
  <2>1. claims \in Nat /\ Cardinality(Unseen(job[w].raw)) \in Nat
    BY <1>2, UnseenFinite DEF Inv, TypeOK
  <2>2. job[w].top = claims
    BY <1>1, <1>5 DEF TotalsStand
  <2>3. CASE job[w].top # job[w].oldCount
    BY <1>3, <2>1, <2>2, <2>3
  <2>4. CASE job[w].top = job[w].oldCount
    BY <1>1, <1>3, <1>5, <2>2, <2>4 DEF TotalsStand
  <2> QED
    BY <2>3, <2>4
<1> QED
  BY <1>1, <1>2, <1>4, <1>5, LocalTypes DEF TotalsStand

\* Nobody else is recalculating when it is done.
LEMMA WriteExclusive ==
    ASSUME Inv, Exclusive, NEW w \in Workers, Write(w)
    PROVE  Exclusive'
<1>1. /\ job \in [Workers -> Job] /\ job' = [job EXCEPT ![w] = NoJob] /\ Recalculating(w)
      /\ UNCHANGED reports /\ recalculated' = recalculated \cup {job[w].event}
  BY DEF Write, Inv, TypeOK, Recalculating, At
<1>2. job'[w].pc = "poll" /\ \A x \in Workers \ {w} : job'[x] = job[x]
  BY <1>1 DEF NoJob
<1>3. \A x \in Workers \ {w} : ~Recalculating(x)
  BY <1>1 DEF Exclusive, NoOverlap
<1>4. \A x \in Workers : ~Recalculating(x)'
  BY <1>2, <1>3 DEF Recalculating, At
<1>5. (\A x \in Workers : Recalculating(x) => lock)' /\ NoOverlap'
  BY <1>4 DEF NoOverlap
<1>6. \A x \in Workers : TotalsStand(x)'
  BY <1>4 DEF TotalsStand, Recalculating, At
<1>7. RecalculatedIsCurrent'
  <2>1. recalculated \subseteq Nat /\ score \in Nat
    BY LocalTypes, BoundIsNat DEF Inv, TypeOK
  <2>2. \A k \in recalculated : score >= k
    BY DEF Exclusive, RecalculatedIsCurrent
  <2> QED
    BY <1>1, <2>1, <2>2, WriteEffect DEF RecalculatedIsCurrent
<1>8. CountDriftBounded'
  BY <1>1, WriteEffect DEF CountDriftBounded, Reflects, Unseen, reports
<1> QED
  BY <1>5, <1>6, <1>7, <1>8 DEF Exclusive

LEMMA InitExclusive == Init => Exclusive
<1> SUFFICES ASSUME Init PROVE Exclusive
  OBVIOUS
<1>1. \A w \in Workers : job[w].pc = "poll"
  BY DEF Init, NoJob
<1>2. recalculated = {} /\ count = 0 /\ claims = 0 /\ Unseen(score) = {}
  BY DEF Init, Unseen
<1>3. CountDriftBounded
  BY <1>2, FS_EmptySet DEF CountDriftBounded
<1> QED
  BY <1>1, <1>2, <1>3 DEF Exclusive, NoOverlap, TotalsStand, RecalculatedIsCurrent,
                          Recalculating, At

\* Exclusive is inductive together with Inv.
LEMMA StepExclusive ==
    ASSUME ~RedisFails, ~SlowRecalc, Inv, Exclusive, [Next]_vars
    PROVE  Exclusive'
<1>1. CASE (\E d \in {-1, 0, 1} : Mutate(d)) \/ DeleteAgain
  BY <1>1, MutateExclusive, DeleteAgainExclusive
<1>2. CASE \/ \E k \in 1 .. MaxRev : Send(k) \/ StartFails(k) \/ LoseEvent(k)
           \/ Restart
           \/ \E w \in Workers : AutoCommit(w)
           \/ UNCHANGED vars
  <2>1. UNCHANGED <<database, lock, job, recalculated>>
    BY <1>2 DEF Send, FirstUse, Started, Emit, StartFails, LoseEvent, Restart, AutoCommit, vars,
                history
  <2> QED
    BY <2>1, QuietExclusive
<1>3. ASSUME NEW w \in Workers, Poll(w) PROVE Exclusive'
  <2> DEFINE j == [[NoJob EXCEPT !.pc = "dedup"] EXCEPT !.event = log[w][pos[w] + 1]]
  <2>1. pos[w] + 1 \in 1 .. Len(log[w])
    BY <1>3, LocalTypes DEF Poll, Inv, TypeOK
  <2>2. log[w][pos[w] + 1] \in 0 .. MaxRev
    BY <2>1, LocalTypes, BoundIsNat
  <2>3. ASSUME NEW r \in Job, NEW k \in 0 .. MaxRev
        PROVE  /\ [r EXCEPT !.pc = "dedup"] \in Job
               /\ [r EXCEPT !.pc = "dedup"].pc = "dedup"
               /\ [r EXCEPT !.event = k] \in Job
               /\ [r EXCEPT !.event = k].pc = r.pc
    BY DEF Job
  <2>4. job' = [job EXCEPT ![w] = j] /\ UNCHANGED <<database, lock, recalculated>>
    BY <1>3 DEF Poll, history
  <2>5. j \in Job /\ j.pc = "dedup"
    <3> DEFINE r == [NoJob EXCEPT !.pc = "dedup"]
               k == log[w][pos[w] + 1]
    <3>1. r \in Job /\ r.pc = "dedup"
      BY <2>2, <2>3, LocalTypes
    <3> HIDE DEF r
    <3>2. [r EXCEPT !.event = k] \in Job /\ [r EXCEPT !.event = k].pc = r.pc
      BY <2>2, <2>3, <3>1
    <3> QED
      BY <3>1, <3>2 DEF r
  <2> HIDE DEF j
  <2> QED
    BY <2>4, <2>5, IdleExclusive
<1>4. ASSUME NEW w \in Workers, DedupSkip(w) \/ Fail(w) \/ Crash(w) PROVE Exclusive'
  <2>1. job' = [job EXCEPT ![w] = NoJob] /\ UNCHANGED <<database, lock, recalculated>>
    BY <1>4 DEF DedupSkip, Fail, Crash, history
  <2>2. NoJob.pc \in {"poll", "dedup"}
    BY DEF NoJob
  <2> QED
    BY <2>1, <2>2, IdleExclusive, LocalTypes
<1>5. ASSUME NEW w \in Workers, DedupWin(w) \/ ReadTotals(w) \/ GetCompany(w) \/ Write(w)
      PROVE  Exclusive'
  BY <1>5, DedupWinExclusive, ReadTotalsExclusive, GetCompanyExclusive, WriteExclusive
<1>6. CASE LockExpires
  <2>1. UNCHANGED <<database, job, recalculated>> /\ \A w \in Workers : ~Recalculating(w)
    BY <1>6 DEF LockExpires, history
  <2> QED
    BY <2>1 DEF Exclusive, NoOverlap, TotalsStand, RecalculatedIsCurrent, CountDriftBounded,
                Recalculating, At, database, reports, Reflects, Unseen
<1>7. \A w \in Workers : ~DedupDown(w)
  BY DEF DedupDown
<1> QED
  BY <1>1, <1>2, <1>3, <1>4, <1>5, <1>6, <1>7 DEF Next, Handle

\* Redis answers, and a recalculation ends within the 60 s of the lock.
LockHolds == ~RedisFails /\ ~SlowRecalc

\* While the lock holds, its invariant holds beside that of the pipeline: one worker
\* recalculates at a time, and what it has read still stands.
THEOREM LockInvariance ==
    ASSUME LockHolds
    PROVE  Spec => [](Inv /\ Exclusive)
<1>1. Init => Inv /\ Exclusive
  BY InitInv, InitExclusive
<1>2. Inv /\ Exclusive /\ [Next]_vars => (Inv /\ Exclusive)'
  BY StepInv, StepExclusive DEF LockHolds
<1> QED
  BY <1>1, <1>2, PTL DEF Spec

\* Two workers never recalculate the company at once, whatever happens to events,
\* workers and recalculations, as long as the lock holds.
THEOREM RecalculationsAreExclusive ==
    ASSUME LockHolds
    PROVE  Spec => []NoOverlap
<1>1. Exclusive => NoOverlap
  BY DEF Exclusive
<1> QED
  BY <1>1, LockInvariance, PTL

\* An event that was recalculated for is in the score, and remains in it.
THEOREM RecalculatedStaysCurrent ==
    ASSUME LockHolds
    PROVE  Spec => []RecalculatedIsCurrent
<1>1. Exclusive => RecalculatedIsCurrent
  BY DEF Exclusive
<1> QED
  BY <1>1, LockInvariance, PTL

\* Beside a score that is up to date, the count is off by the second deletions that no
\* recalculation has seen at most: every other error has been repaired.
THEOREM CountDriftsByDeletions ==
    ASSUME LockHolds
    PROVE  Spec => []CountDriftBounded
<1>1. Exclusive => CountDriftBounded
  BY DEF Exclusive
<1> QED
  BY <1>1, LockInvariance, PTL

\* No recalculation puts an older score in the place of a newer one.
THEOREM ScoreOnlyMovesOn ==
    ASSUME LockHolds
    PROVE  Spec => ScoreNeverRegresses
<1>1. Inv /\ Exclusive /\ [Next]_vars => [score' >= score]_vars
  <2> SUFFICES ASSUME Inv, Exclusive, [Next]_vars
               PROVE  score' >= score \/ UNCHANGED vars
    OBVIOUS
  <2>1. score' = score \/ \E w \in Workers : Write(w)
    BY DEF Next, Send, Handle, Mutate, DeleteAgain, FirstUse, Started, Emit, StartFails,
           LoseEvent, Restart, Poll, DedupWin, DedupSkip, DedupDown, ReadTotals, GetCompany, Fail, AutoCommit, Crash,
           LockExpires, database, reports, vars
  <2> QED
    BY <2>1, WriteEffect, LocalTypes
<1> QED
  BY <1>1, LockInvariance, PTL DEF Spec, ScoreNeverRegresses
=============================================================================
