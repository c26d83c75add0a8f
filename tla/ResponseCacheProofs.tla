------------------------ MODULE ResponseCacheProofs ------------------------
(***************************************************************************)
(* Theorems about ResponseCache, for any keys, requests and replicas, and  *)
(* whether or not Redis answers and pods go down.  Nothing is assumed of   *)
(* NULL: no step of the argument needs it to differ from an entry.         *)
(***************************************************************************)
EXTENDS ResponseCache, SequenceTheorems, TLAPS

\* There is no response under k that was cached before version n.
Fresh(k, n) == cache[k] # NULL => cache[k].at >= n

\* A handler whose commands Redis has answered so far is done with the patterns
\* before its present one, and in that with the keys that its scan did not find.
PatternsDone(w) ==
    LET h == writer[w]
    IN  /\ \A p \in 1 .. h.pattern - 1 : \A k \in Patterns[p] : Fresh(k, h.version)
        /\ h.batch # NULL => \A k \in Patterns[h.pattern] \ h.batch : Fresh(k, h.version)

SweepIsSound(w) ==
    writer[w] # NULL =>
        /\ writer[w].version <= Current
        /\ writer[w].ok => PatternsDone(w)

Inv ==
    /\ TypeOK
    /\ \A w \in Writers : SweepIsSound(w)
    /\ \A n \in swept : n <= Current
    /\ AnsweredMeansSwept

-----------------------------------------------------------------------------
(* Types *)

\* The patterns are three, and cover every key.
LEMMA PatternsCover ==
    /\ Len(Patterns) = 3 /\ DOMAIN Patterns = 1 .. 3
    /\ \A p \in 1 .. 3 : Patterns[p] \subseteq Keys
    /\ \A k \in Keys : \E p \in 1 .. 3 : k \in Patterns[p]
<1>1. Len(Patterns) = 3 /\ DOMAIN Patterns = 1 .. 3
  BY DEF Patterns
<1>2. Patterns[1] = Pages /\ Patterns[2] = ListKeys /\ Patterns[3] = ScanKeys
  BY DEF Patterns
<1>3. \A p \in 1 .. 3 : p = 1 \/ p = 2 \/ p = 3
  OBVIOUS
<1>4. 1 \in 1 .. 3 /\ 2 \in 1 .. 3 /\ 3 \in 1 .. 3
  OBVIOUS
<1> QED
  BY <1>1, <1>2, <1>3, <1>4 DEF Keys

LEMMA BoundIsNat == MaxVersions \in Nat /\ MaxVersions >= 1
  BY CacheAssumption

\* What the variables hold, one by one.
LEMMA LocalTypes ==
    ASSUME TypeOK
    PROVE  /\ Current \in Nat /\ Current \in Position /\ db[Current] \in Version
           /\ \A i \in Replicas : applied[i] \in 1 .. Current /\ applied[i] \in Position
           /\ \A r \in Readers : reader[r] # NULL => reader[r] \in Reader
           /\ \A w \in Writers : writer[w] # NULL => writer[w] \in Writer
<1>1. Current \in Nat /\ Current \in Position /\ 1 <= Current /\ Current <= MaxVersions
  BY BoundIsNat DEF TypeOK, Position
<1>2. db[Current] \in Version
  BY <1>1, ElementOfSeq DEF TypeOK, Current
<1>3. \A i \in Replicas : applied[i] \in 1 .. Current
  BY DEF TypeOK
<1>4. 1 .. Current \subseteq Position
  BY <1>1, BoundIsNat DEF Position
<1> QED
  BY <1>1, <1>2, <1>3, <1>4 DEF TypeOK

LEMMA InitType == Init => TypeOK
<1> SUFFICES ASSUME Init PROVE TypeOK
  OBVIOUS
<1>1. db \in Seq(Version) /\ Current = 1
  <2>1. [rev |-> 0, claims |-> 0, scored |-> 0] \in Version
    BY DEF Version
  <2> QED
    BY <2>1 DEF Init, Current
<1>2. Current \in Position
  BY <1>1, BoundIsNat DEF Position
<1>3. applied \in [Replicas -> 1 .. Current]
  BY <1>1 DEF Init
<1>4. /\ cache \in [Keys -> Entry \cup {NULL}] /\ reader \in [Readers -> Reader \cup {NULL}]
      /\ writer \in [Writers -> Writer \cup {NULL}] /\ swept \subseteq Position
  BY DEF Init
<1> QED
  BY <1>1, <1>2, <1>3, <1>4 DEF TypeOK

\* A commit adds one version, and replicas are still behind.
LEMMA CommitType ==
    ASSUME TypeOK, NEW v \in Version, Commit(v)
    PROVE  /\ db' \in Seq(Version) /\ Current' = Current + 1 /\ Current' \in Position
           /\ applied \in [Replicas -> 1 .. Current']
<1>1. db' = Append(db, v) /\ Current < MaxVersions /\ db \in Seq(Version)
  BY DEF Commit, TypeOK
<1>2. db' \in Seq(Version) /\ Current' = Current + 1
  BY <1>1 DEF Current
<1>3. Current' \in Position /\ 1 .. Current \subseteq 1 .. Current'
  BY <1>1, <1>2, LocalTypes, BoundIsNat DEF Position
<1>4. applied \in [Replicas -> 1 .. Current']
  BY <1>3 DEF TypeOK
<1> QED
  BY <1>2, <1>3, <1>4

\* What deleting keys leaves.
LEMMA WithoutType ==
    ASSUME TypeOK, NEW keys
    PROVE  /\ Without(keys) \in [Keys -> Entry \cup {NULL}]
           /\ \A k \in Keys : Without(keys)[k] = IF k \in keys THEN NULL ELSE cache[k]
  BY DEF TypeOK, Without

\* A state of a mutating handler may change in all but its version.
LEMMA WriterFields ==
    ASSUME NEW h \in Writer, NEW p \in DOMAIN Patterns, NEW b \in (SUBSET Keys) \cup {NULL},
           NEW ok \in BOOLEAN
    PROVE  [h EXCEPT !.pattern = p, !.batch = b, !.ok = ok] \in Writer
  BY ZenonT(20) DEF Writer

\* The next pattern keeps a handler and its history well typed.
LEMMA NextPatternType ==
    ASSUME TypeOK, NEW w \in Writers, writer[w] # NULL, NEW ok \in BOOLEAN, NextPattern(w, ok)
    PROVE  writer' \in [Writers -> Writer \cup {NULL}] /\ swept' \subseteq Position
<1>1. writer[w] \in Writer
  BY LocalTypes
<1>2. CASE writer[w].pattern < Len(Patterns)
  <2> DEFINE h == [writer[w] EXCEPT !.pattern = @ + 1, !.batch = NULL, !.ok = ok]
  <2>1. writer' = [writer EXCEPT ![w] = h] /\ swept' = swept
    BY <1>2 DEF NextPattern
  <2>2. writer[w].pattern + 1 \in DOMAIN Patterns
    BY <1>1, <1>2, PatternsCover DEF Writer
  <2>3. h \in Writer
    <3>1. NULL \in (SUBSET Keys) \cup {NULL}
      OBVIOUS
    <3> QED
      BY <1>1, <2>2, <3>1, WriterFields, Zenon
  <2> HIDE DEF h
  <2> QED
    BY <2>1, <2>3 DEF TypeOK
<1>3. CASE ~(writer[w].pattern < Len(Patterns))
  <2>1. writer' = [writer EXCEPT ![w] = NULL] /\ swept' \subseteq swept \cup {writer[w].version}
    BY <1>3 DEF NextPattern
  <2>2. writer[w].version \in Position
    BY <1>1 DEF Writer
  <2> QED
    BY <2>1, <2>2 DEF TypeOK
<1> QED
  BY <1>2, <1>3

\* Readers keep the types.
LEMMA ReaderType ==
    ASSUME TypeOK, NEW r \in Readers,
           (\E k \in Keys : Hit(r, k) \/ Miss(r, k)) \/ Read(r) \/ Fill(r) \/ Respond(r)
              \/ ReaderDies(r)
    PROVE  TypeOK'
<1>1. CASE \E k \in Keys : Hit(r, k)
  BY <1>1 DEF Hit, vars, TypeOK, Current
<1>2. ASSUME NEW k \in Keys, Miss(r, k) PROVE TypeOK'
  <2>1. PICK i \in Replicas :
           reader' = [reader EXCEPT ![r] = [key |-> k, replica |-> i, parts |-> <<>>]]
    BY <1>2 DEF Miss
  <2>2. [key |-> k, replica |-> i, parts |-> <<>>] \in Reader
    BY DEF Reader
  <2>3. reader' \in [Readers -> Reader \cup {NULL}]
    BY <2>1, <2>2 DEF TypeOK
  <2> QED
    BY <1>2, <2>3 DEF Miss, TypeOK, Current
<1>3. CASE Read(r)
  <2> DEFINE n == Append(reader[r].parts, applied[reader[r].replica])
             h == [reader[r] EXCEPT !.parts = n]
  <2>1. reader[r] \in Reader /\ reader' = [reader EXCEPT ![r] = h]
    BY <1>3, LocalTypes DEF Read
  <2>2. n \in Seq(Position)
    BY <2>1, LocalTypes DEF Reader
  <2> HIDE DEF n
  <2>3. h \in Reader
    BY <2>1, <2>2 DEF Reader
  <2> HIDE DEF h
  <2>4. reader' \in [Readers -> Reader \cup {NULL}]
    BY <2>1, <2>3 DEF TypeOK
  <2> QED
    BY <1>3, <2>4 DEF Read, TypeOK, Current
<1>4. CASE Fill(r)
  <2> DEFINE e == [parts |-> reader[r].parts, at |-> Current, ttl |-> Ttl(reader[r].key)]
  <2>1. /\ reader[r] \in Reader /\ cache' = [cache EXCEPT ![reader[r].key] = e]
        /\ reader' = [reader EXCEPT ![r] = NULL] /\ UNCHANGED <<db, applied, writer, swept>>
    BY <1>4, LocalTypes DEF Fill
  <2>2. Ttl(reader[r].key) \in {120, 300}
    BY DEF Ttl
  <2>3. e \in Entry
    BY <2>1, <2>2, LocalTypes DEF Reader, Entry
  <2> HIDE DEF e
  <2>4. cache' \in [Keys -> Entry \cup {NULL}] /\ reader' \in [Readers -> Reader \cup {NULL}]
    BY <2>1, <2>3 DEF TypeOK
  <2> QED
    BY <2>1, <2>4 DEF TypeOK, Current
<1>5. CASE Respond(r) \/ ReaderDies(r)
  BY <1>5 DEF Respond, ReaderDies, TypeOK, Current
<1> QED
  BY <1>1, <1>2, <1>3, <1>4, <1>5

\* So do mutating handlers.
LEMMA WriterType ==
    ASSUME TypeOK, NEW w \in Writers,
           (\E d \in {-1, 0, 1} : Mutate(w, d)) \/ Scan(w) \/ Unlink(w) \/ SweepDown(w)
              \/ WriterDies(w)
    PROVE  TypeOK'
<1>1. ASSUME NEW d \in {-1, 0, 1}, Mutate(w, d) PROVE TypeOK'
  <2> DEFINE c == db[Current]
             v == [c EXCEPT !.rev = @ + 1, !.claims = @ + d]
             h == [pattern |-> 1, batch |-> NULL, version |-> Current + 1, ok |-> TRUE]
  <2>1. /\ c.claims + d >= 0 /\ Commit(v) /\ writer' = [writer EXCEPT ![w] = h]
        /\ UNCHANGED <<applied, cache, reader, swept>>
    BY <1>1 DEF Mutate
  <2>2. v \in Version
    <3>1. c \in Version /\ c.rev + 1 \in Nat /\ c.claims + d \in Nat
      BY <2>1, LocalTypes DEF Version
    <3>2. v = [c EXCEPT !.rev = c.rev + 1, !.claims = c.claims + d]
      OBVIOUS
    <3> HIDE DEF c, v
    <3> QED
      BY <3>1, <3>2 DEF Version
  <2> HIDE DEF v
  <2>3. /\ db' \in Seq(Version) /\ Current' \in Position /\ Current' = Current + 1
        /\ applied' \in [Replicas -> 1 .. Current']
    BY <2>1, <2>2, CommitType
  <2>4. h \in Writer
    <3>1. 1 \in DOMAIN Patterns /\ Current + 1 \in Position
      BY <2>3, PatternsCover
    <3>2. NULL \in (SUBSET Keys) \cup {NULL} /\ TRUE \in BOOLEAN
      OBVIOUS
    <3> QED
      BY <3>1, <3>2 DEF Writer
  <2> HIDE DEF h
  <2>5. writer' \in [Writers -> Writer \cup {NULL}]
    BY <2>1, <2>4 DEF TypeOK
  <2> QED
    BY <2>1, <2>3, <2>5 DEF TypeOK
<1>2. CASE Scan(w)
  <2> DEFINE b == {k \in Patterns[writer[w].pattern] : cache[k] # NULL}
             h == [writer[w] EXCEPT !.batch = b]
  <2>1. writer[w] \in Writer /\ writer' = [writer EXCEPT ![w] = h]
    BY <1>2, LocalTypes DEF Scan
  <2>2. b \in SUBSET Keys
    BY <2>1, PatternsCover DEF Writer
  <2> HIDE DEF b
  <2>3. h \in Writer
    BY <2>1, <2>2 DEF Writer
  <2> HIDE DEF h
  <2>4. writer' \in [Writers -> Writer \cup {NULL}]
    BY <2>1, <2>3 DEF TypeOK
  <2> QED
    BY <1>2, <2>4 DEF Scan, TypeOK, Current
<1>3. CASE Unlink(w) \/ SweepDown(w)
  <2>1. PICK ok \in BOOLEAN : NextPattern(w, ok)
    BY <1>3, LocalTypes DEF Unlink, SweepDown, Writer
  <2>2. writer' \in [Writers -> Writer \cup {NULL}] /\ swept' \subseteq Position
    BY <1>3, <2>1, NextPatternType DEF Unlink, SweepDown
  <2>3. cache' \in [Keys -> Entry \cup {NULL}]
    <3>1. cache' = cache \/ cache' = Without(writer[w].batch)
      BY <1>3 DEF Unlink, SweepDown
    <3> QED
      BY <3>1, WithoutType DEF TypeOK
  <2>4. UNCHANGED <<db, applied, reader>>
    BY <1>3 DEF Unlink, SweepDown
  <2> QED
    BY <2>2, <2>3, <2>4 DEF TypeOK, Current
<1>4. CASE WriterDies(w)
  BY <1>4 DEF WriterDies, TypeOK, Current
<1> QED
  BY <1>1, <1>2, <1>3, <1>4

\* So does every step.
LEMMA StepType == TypeOK /\ [Next]_vars => TypeOK'
<1> SUFFICES ASSUME TypeOK, [Next]_vars PROVE TypeOK'
  OBVIOUS
<1>1. CASE Recalculate
  <2> DEFINE c == db[Current]
             v == [c EXCEPT !.scored = c.rev]
  <2>1. Commit(v) /\ UNCHANGED <<applied, cache, reader, writer, swept>>
    BY <1>1 DEF Recalculate
  <2>2. v \in Version
    BY LocalTypes DEF Version
  <2> HIDE DEF v
  <2> QED
    BY <2>1, <2>2, CommitType DEF TypeOK
<1>2. ASSUME NEW i \in Replicas, Replicate(i) PROVE TypeOK'
  <2>1. applied[i] + 1 \in 1 .. Current
    BY <1>2, LocalTypes DEF Replicate
  <2>2. applied' \in [Replicas -> 1 .. Current]
    BY <1>2, <2>1 DEF Replicate, TypeOK
  <2> QED
    BY <1>2, <2>2 DEF Replicate, TypeOK, Current
<1>3. ASSUME NEW k \in Keys, Expire(k) PROVE TypeOK'
  BY <1>3, WithoutType DEF Expire, TypeOK, Current
<1>4. CASE UNCHANGED vars
  BY <1>4 DEF vars, TypeOK, Current
<1> QED
  BY <1>1, <1>2, <1>3, <1>4, ReaderType, WriterType DEF Next

-----------------------------------------------------------------------------
(* Sweeping *)

\* Entries come and go, but those that come are as new as the database: what was
\* fresh stays fresh.
LEMMA FreshStays ==
    ASSUME TypeOK, [Next]_vars
    PROVE  /\ Current <= Current'
           /\ \A k \in Keys, n \in Position : n <= Current /\ Fresh(k, n) => Fresh(k, n)'
<1>1. Current <= Current'
  <2>1. UNCHANGED db \/ (\E v : db' = Append(db, v))
    BY DEF Next, vars, Hit, Miss, Read, Fill, Respond, ReaderDies, Mutate, Commit, Scan, Unlink,
           SweepDown, WriterDies, Recalculate, Replicate, Expire
  <2> QED
    BY <2>1 DEF TypeOK, Current
<1>2. \/ UNCHANGED cache
      \/ \E keys : cache' = Without(keys)
      \/ \E r \in Readers : Fill(r)
  BY DEF Next, vars, Hit, Miss, Read, Respond, ReaderDies, Mutate, Scan, Unlink,
         SweepDown, WriterDies, Recalculate, Replicate, Expire
<1>3. ASSUME NEW keys, cache' = Without(keys), NEW k \in Keys, NEW n \in Position, Fresh(k, n)
      PROVE  Fresh(k, n)'
  BY <1>3, WithoutType DEF Fresh
<1>4. ASSUME NEW r \in Readers, Fill(r), NEW k \in Keys, NEW n \in Position, n <= Current, Fresh(k, n)
      PROVE  Fresh(k, n)'
  <2> DEFINE e == [parts |-> reader[r].parts, at |-> Current, ttl |-> Ttl(reader[r].key)]
  <2>1. e.at = Current /\ cache' = [cache EXCEPT ![reader[r].key] = e]
    BY <1>4 DEF Fill
  <2> HIDE DEF e
  <2>2. cache'[k] = e \/ cache'[k] = cache[k]
    BY <2>1 DEF TypeOK
  <2> QED
    BY <1>4, <2>1, <2>2 DEF Fresh
<1> QED
  BY <1>1, <1>2, <1>3, <1>4 DEF Fresh

\* A handler that does not move has nothing to do again.
LEMMA SweepStays ==
    ASSUME TypeOK, [Next]_vars, NEW w \in Writers, writer'[w] = writer[w], SweepIsSound(w)
    PROVE  SweepIsSound(w)'
<1> SUFFICES ASSUME writer[w] # NULL PROVE SweepIsSound(w)'
  BY DEF SweepIsSound
<1>1. writer[w] \in Writer
  BY LocalTypes
<1>2. writer[w].version \in Position /\ writer[w].pattern \in 1 .. 3 /\ writer[w].version <= Current
  BY <1>1, PatternsCover DEF Writer, SweepIsSound
<1>3. writer[w].version <= Current'
  BY <1>2, FreshStays, LocalTypes, StepType DEF Position, TypeOK
<1>4. ASSUME NEW p \in 1 .. 3, NEW k \in Patterns[p], Fresh(k, writer[w].version)
      PROVE  Fresh(k, writer[w].version)'
  BY <1>2, <1>4, PatternsCover, FreshStays
<1>5. PatternsDone(w) => PatternsDone(w)'
  BY <1>2, <1>4 DEF PatternsDone
<1> QED
  BY <1>3, <1>5 DEF SweepIsSound

\* A handler that has just committed has all patterns before it.
LEMMA MutateSweeps ==
    ASSUME TypeOK, NEW w \in Writers, NEW d \in {-1, 0, 1}, Mutate(w, d)
    PROVE  SweepIsSound(w)'
<1> DEFINE h == [pattern |-> 1, batch |-> NULL, version |-> Current + 1, ok |-> TRUE]
<1>1. writer' = [writer EXCEPT ![w] = h] /\ Current' = Current + 1
  BY DEF Mutate, Commit, TypeOK, Current
<1>2. h.pattern = 1 /\ h.batch = NULL /\ h.version = Current'
  BY <1>1
<1> HIDE DEF h
<1>3. writer'[w] = h
  BY <1>1 DEF TypeOK
<1>4. Current' \in Nat
  BY <1>1, LocalTypes
<1>5. PatternsDone(w)'
  <2>1. 1 .. h.pattern - 1 = {}
    BY <1>2
  <2> QED
    BY <1>2, <1>3, <2>1 DEF PatternsDone
<1> QED
  BY <1>2, <1>3, <1>4, <1>5 DEF SweepIsSound

\* What a scan does not find is not there.
LEMMA ScanSweeps ==
    ASSUME TypeOK, NEW w \in Writers, Scan(w), SweepIsSound(w)
    PROVE  SweepIsSound(w)'
<1> DEFINE b == {k \in Patterns[writer[w].pattern] : cache[k] # NULL}
           h == [writer[w] EXCEPT !.batch = b]
<1>1. writer[w] \in Writer /\ writer' = [writer EXCEPT ![w] = h] /\ UNCHANGED <<cache, db>>
  BY LocalTypes DEF Scan
<1>2. \A k \in Patterns[writer[w].pattern] \ b : Fresh(k, writer[w].version)
  BY DEF Fresh
<1>3. /\ h.pattern = writer[w].pattern /\ h.batch = b /\ h.version = writer[w].version
      /\ h.ok = writer[w].ok
  BY <1>1 DEF Writer
<1> HIDE DEF h, b
<1>4. writer'[w] = h
  BY <1>1 DEF TypeOK
<1>5. writer[w] # NULL
  BY DEF Scan
<1> QED
  BY <1>1, <1>2, <1>3, <1>4, <1>5 DEF SweepIsSound, PatternsDone, Fresh, Current

\* UNLINK deletes what the scan found, which leaves nothing old under its pattern;
\* after the last pattern there is nothing old under any key.
LEMMA UnlinkSweeps ==
    ASSUME Inv, NEW w \in Writers, Unlink(w)
    PROVE  /\ SweepIsSound(w)'
           /\ \A n \in swept' \ swept : n <= Current /\ \A k \in Keys : Fresh(k, n)'
<1> DEFINE h == writer[w]
<1>1. /\ h \in Writer /\ h # NULL /\ h.batch # NULL /\ NextPattern(w, h.ok) /\ db' = db
      /\ cache' = Without(h.batch) /\ TypeOK /\ SweepIsSound(w)
  BY LocalTypes DEF Unlink, Inv
<1> PICK v \in Position : v = h.version
  BY <1>1 DEF Writer
<1>2. v <= Current /\ h.pattern \in 1 .. 3
  BY <1>1, PatternsCover DEF Writer, SweepIsSound
<1>3. ASSUME h.ok, NEW p \in 1 .. h.pattern, NEW k \in Patterns[p]
      PROVE  Fresh(k, v)'
  <2>1. k \in Keys /\ cache'[k] = IF k \in h.batch THEN NULL ELSE cache[k]
    BY <1>1, <1>2, PatternsCover, WithoutType
  <2>2. p \in 1 .. h.pattern - 1 \/ p = h.pattern
    BY <1>2
  <2>3. k \notin h.batch => Fresh(k, v)
    BY <1>1, <1>3, <2>2 DEF SweepIsSound, PatternsDone
  <2>4. cache'[k] # NULL => cache'[k].at >= v
    BY <2>1, <2>3 DEF Fresh
  <2> QED
    BY <2>4 DEF Fresh
<1>4. CASE h.pattern < Len(Patterns)
  <2> DEFINE n == [h EXCEPT !.pattern = @ + 1, !.batch = NULL, !.ok = h.ok]
  <2>1. writer' = [writer EXCEPT ![w] = n] /\ swept' = swept
    BY <1>1, <1>4 DEF NextPattern
  <2>2. n.pattern = h.pattern + 1 /\ n.batch = NULL /\ n.version = v
    BY <1>1 DEF Writer
  <2>3. n.ok = h.ok
    BY <1>1 DEF Writer
  <2> HIDE DEF n
  <2>4. writer'[w] = n /\ Current' = Current
    BY <1>1, <2>1 DEF TypeOK, Current
  <2>5. n.ok => PatternsDone(w)'
    <3>1. 1 .. n.pattern - 1 = 1 .. h.pattern
      BY <1>2, <2>2
    <3> QED
      BY <1>3, <2>2, <2>3, <2>4, <3>1 DEF PatternsDone, Fresh
  <2> QED
    BY <1>2, <2>1, <2>2, <2>4, <2>5 DEF SweepIsSound
<1>5. CASE ~(h.pattern < Len(Patterns))
  <2>1. writer' = [writer EXCEPT ![w] = NULL]
        /\ swept' = IF h.ok THEN swept \cup {v} ELSE swept
    BY <1>1, <1>5 DEF NextPattern
  <2>2. SweepIsSound(w)'
    BY <1>1, <2>1 DEF SweepIsSound, TypeOK
  <2>3. ASSUME h.ok, NEW k \in Keys PROVE Fresh(k, v)'
    BY <1>2, <1>3, <1>5, <2>3, PatternsCover
  <2>4. \A n \in swept' \ swept : h.ok /\ n = v
    BY <2>1
  <2>5. ASSUME NEW n \in swept' \ swept PROVE n <= Current /\ \A k \in Keys : Fresh(k, n)'
    BY <1>2, <2>3, <2>4 DEF Fresh
  <2> QED
    BY <2>2, <2>5
<1> QED
  BY <1>4, <1>5

\* After a RedisError nothing is claimed of the handler any more.
LEMMA SweepDownSweeps ==
    ASSUME Inv, NEW w \in Writers, SweepDown(w)
    PROVE  SweepIsSound(w)' /\ swept' = swept
<1> DEFINE h == writer[w]
<1>1. h \in Writer /\ h # NULL /\ NextPattern(w, FALSE) /\ TypeOK /\ SweepIsSound(w)
  BY LocalTypes DEF SweepDown, Inv
<1>2. db' = db
  BY DEF SweepDown
<1>3. CASE h.pattern < Len(Patterns)
  <2> DEFINE n == [h EXCEPT !.pattern = @ + 1, !.batch = NULL, !.ok = FALSE]
  <2>1. writer' = [writer EXCEPT ![w] = n] /\ swept' = swept
    BY <1>1, <1>3 DEF NextPattern
  <2>2. n.version = h.version
    BY <1>1 DEF Writer
  <2>3. ~n.ok
    BY <1>1 DEF Writer
  <2> HIDE DEF n
  <2>4. writer'[w] = n /\ Current' = Current
    BY <1>1, <1>2, <2>1 DEF TypeOK, Current
  <2> QED
    BY <1>1, <2>1, <2>2, <2>3, <2>4 DEF SweepIsSound
<1>4. CASE ~(h.pattern < Len(Patterns))
  <2>1. writer' = [writer EXCEPT ![w] = NULL] /\ swept' = swept
    BY <1>1, <1>4 DEF NextPattern
  <2> QED
    BY <1>1, <2>1 DEF SweepIsSound, TypeOK
<1> QED
  BY <1>3, <1>4

LEMMA InitInv == Init => Inv
  BY InitType DEF Init, Inv, SweepIsSound, AnsweredMeansSwept

\* Inv is inductive.
LEMMA StepInv == Inv /\ [Next]_vars => Inv'
<1> SUFFICES ASSUME Inv, [Next]_vars PROVE Inv'
  OBVIOUS
<1>1. TypeOK /\ TypeOK'
  BY StepType DEF Inv
<1>2. ASSUME NEW w \in Writers PROVE SweepIsSound(w)'
  <2>1. \/ writer'[w] = writer[w]
        \/ (\E d \in {-1, 0, 1} : Mutate(w, d))
        \/ Scan(w) \/ Unlink(w) \/ SweepDown(w)
        \/ writer'[w] = NULL
    <3>1. ASSUME NEW x \in Writers, x # w,
                 (\E d \in {-1, 0, 1} : Mutate(x, d)) \/ Scan(x) \/ Unlink(x) \/ SweepDown(x)
                    \/ WriterDies(x)
          PROVE  writer'[w] = writer[w]
      <4>1. \E v : writer' = [writer EXCEPT ![x] = v]
        BY <3>1 DEF Mutate, Scan, Unlink, SweepDown, NextPattern, WriterDies
      <4> QED
        BY <1>1, <3>1, <4>1 DEF TypeOK
    <3>2. WriterDies(w) => writer'[w] = NULL
      BY <1>1 DEF WriterDies, TypeOK
    <3>3. \/ UNCHANGED writer
          \/ \E x \in Writers :
                \/ \E d \in {-1, 0, 1} : Mutate(x, d)
                \/ Scan(x) \/ Unlink(x) \/ SweepDown(x) \/ WriterDies(x)
      BY DEF Next, vars, Hit, Miss, Read, Fill, Respond, ReaderDies, Recalculate, Replicate, Expire
    <3> QED
      BY <3>1, <3>2, <3>3
  <2>2. SweepIsSound(w)
    BY DEF Inv
  <2>3. writer'[w] = NULL => SweepIsSound(w)'
    BY DEF SweepIsSound
  <2> QED
    BY <1>1, <2>1, <2>2, <2>3, SweepStays, MutateSweeps, ScanSweeps, UnlinkSweeps, SweepDownSweeps
<1>3. ASSUME NEW n \in swept' PROVE n <= Current' /\ \A k \in Keys : Fresh(k, n)'
  <2>1. n \in swept \/ \E w \in Writers : Unlink(w)
    <3>1. UNCHANGED swept \/ \E w \in Writers : Unlink(w) \/ SweepDown(w)
      BY DEF Next, vars, Hit, Miss, Read, Fill, Respond, ReaderDies, Recalculate, Replicate,
             Expire, Mutate, Scan, WriterDies
    <3> QED
      BY <1>3, <3>1, SweepDownSweeps
  <2>2. CASE n \in swept
    <3>1. n \in Position /\ n <= Current /\ \A k \in Keys : Fresh(k, n)
      BY <1>1, <2>2 DEF Inv, TypeOK, AnsweredMeansSwept, Fresh
    <3>2. \A k \in Keys : Fresh(k, n)'
      BY <1>1, <3>1, FreshStays
    <3>3. n \in Nat /\ Current \in Nat /\ Current' \in Nat /\ Current <= Current'
      BY <1>1, <3>1, FreshStays DEF TypeOK, Position
    <3> QED
      BY <3>1, <3>2, <3>3
  <2>3. CASE n \notin swept
    <3>1. PICK w \in Writers : Unlink(w)
      BY <2>1, <2>3
    <3>2. Current' = Current
      BY <3>1 DEF Unlink, Current
    <3> QED
      BY <1>3, <2>3, <3>1, <3>2, UnlinkSweeps
  <2> QED
    BY <2>2, <2>3
<1>4. AnsweredMeansSwept'
  BY <1>3 DEF AnsweredMeansSwept, Fresh
<1> QED
  BY <1>1, <1>2, <1>3, <1>4 DEF Inv

\* Every reachable state satisfies Inv.
THEOREM Invariance == Spec => []Inv
<1> QED
  BY InitInv, StepInv, PTL DEF Spec

\* Positions, entries and handlers keep their types; a replica is never ahead of
\* the primary.
THEOREM TypeCorrect == Spec => []TypeOK
<1>1. Inv => TypeOK
  BY DEF Inv
<1> QED
  BY <1>1, Invariance, PTL

\* A mutating handler that Redis has answered leaves nothing older than its commit
\* under any pattern, however its sweep interleaves with other handlers, readers,
\* expiry and replication.
THEOREM InvalidationSweeps == Spec => []AnsweredMeansSwept
<1>1. Inv => AnsweredMeansSwept
  BY DEF Inv
<1> QED
  BY <1>1, Invariance, PTL
=============================================================================
