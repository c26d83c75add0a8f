-------------------------- MODULE DumpImportProofs --------------------------
(***************************************************************************)
(* Theorems about the import, for dumps of any length, batches of any size *)
(* and any number of imports that overlap.                                 *)
(***************************************************************************)
EXTENDS DumpImport, SequenceTheorems, TLAPS

(* What an import has done so far, said of the record m of its variables *)

\* The rows of the dump that count.
Kept(d) == {k \in DOMAIN d : Counts(d, k)}

\* What is staged for a row.
StagedFor(r) == [barcode |-> r.code, name |-> ProductName(r), company |-> CompanyName(r)]

Items(m) == Range(m.staged) \cup Range(m.batch)

\* Staged, or in the batch, is what counts of the dump, and the names are those of
\* the staged rows.  seen holds the numbers of all rows read.
Streamed(m) ==
    /\ \A k \in DOMAIN m.dump : m.dump[k].code # NULL => KeyOf[m.dump[k].code] \in m.seen
    /\ \A x \in m.seen : \E k \in DOMAIN m.dump : m.dump[k].code # NULL
                                                /\ KeyOf[m.dump[k].code] = x
    /\ Items(m) = {StagedFor(m.dump[k]) : k \in Kept(m.dump)}
    /\ Range(m.names) = {x.company : x \in Items(m)}
    /\ m.pc # "read" => m.batch = <<>>

\* The companies upserted are the names up to the next one.  A row that an import
\* has upserted is locked: the community's column in it is still the current one.
CompaniesUpserted(m) ==
    /\ m.pc \in {"idle", "read"} => m.next = 1 /\ \A n \in Names : m.wrote[n] = NULL
    /\ m.pc = "companies" =>
          \A n \in Names : m.wrote[n] # NULL <=> \E j \in 1 .. Len(m.names) :
                                                    j < m.next /\ m.names[j] = n
    /\ m.pc \in {"products", "commit"} =>
          \A n \in Names : m.wrote[n] # NULL <=> n \in Range(m.names)

ProductsUpserted(m) ==
    /\ m.pc \in {"idle", "read", "companies"} => \A b \in Barcodes : m.put[b] = NULL
    /\ m.pc \in {"products", "commit"} =>
          \A b \in Barcodes :
             /\ m.put[b] # NULL => \E j \in 1 .. Len(m.staged) :
                    /\ m.staged[j].barcode = b
                    /\ m.put[b] = [name |-> m.staged[j].name, company |-> m.staged[j].company]
             /\ \A j \in 1 .. Len(m.staged) :
                    j < m.next /\ m.staged[j].barcode = b => m.put[b] # NULL
    /\ m.pc = "commit" => m.next > Len(m.staged)

RowsAreCurrent(m, current) ==
    \A n \in Names : m.wrote[n] # NULL =>
                        m.wrote[n] = [normalized |-> TRUE, changes |-> current[n]]

\* What the community has changed is in the row, and a company that is not there
\* has no changes.
ChangesAreStored ==
    \A n \in Names : changes[n] = IF companies[n] = NULL THEN 0 ELSE companies[n].changes

Inv ==
    /\ TypeOK
    /\ ChangesAreStored
    /\ \A i \in Importers :
          /\ imp[i].next >= 1
          /\ Streamed(imp[i])
          /\ CompaniesUpserted(imp[i])
          /\ ProductsUpserted(imp[i])
          /\ RowsAreCurrent(imp[i], changes)

-----------------------------------------------------------------------------
(* Sequences of rows *)

LEMMA RangeAppend ==
    ASSUME NEW S, NEW s \in Seq(S), NEW e \in S
    PROVE  /\ Range(<<>>) = {}
           /\ Range(s) \subseteq S
           /\ Range(Append(s, e)) = Range(s) \cup {e}
<1>1. Range(<<>>) = {} /\ Range(s) \subseteq S
  BY DEF Range
<1>2. Range(Append(s, e)) = Range(s) \cup {e}
  <2>1. /\ DOMAIN Append(s, e) = 1 .. Len(s) + 1 /\ DOMAIN s = 1 .. Len(s) /\ Len(s) \in Nat
        /\ \A k \in 1 .. Len(s) : Append(s, e)[k] = s[k]
        /\ Append(s, e)[Len(s) + 1] = e
    OBVIOUS
  <2>2. \A k \in 1 .. Len(s) + 1 : k \in 1 .. Len(s) \/ k = Len(s) + 1
    BY <2>1
  <2>3. Len(s) + 1 \in 1 .. Len(s) + 1 /\ 1 .. Len(s) \subseteq 1 .. Len(s) + 1
    BY <2>1
  <2> QED
    BY <2>1, <2>2, <2>3, Zenon DEF Range
<1> QED
  BY <1>1, <1>2

LEMMA RangeConcat ==
    ASSUME NEW S, NEW s \in Seq(S), NEW t \in Seq(S)
    PROVE  Range(s \o t) = Range(s) \cup Range(t)
<1>1. /\ DOMAIN (s \o t) = 1 .. Len(s) + Len(t)
      /\ DOMAIN s = 1 .. Len(s) /\ DOMAIN t = 1 .. Len(t) /\ Len(s) \in Nat /\ Len(t) \in Nat
      /\ \A k \in 1 .. Len(s) : (s \o t)[k] = s[k]
      /\ \A k \in 1 .. Len(t) : (s \o t)[Len(s) + k] = t[k]
  OBVIOUS
<1>2. \A k \in 1 .. Len(s) + Len(t) :
         k \in 1 .. Len(s) \/ (k - Len(s) \in 1 .. Len(t) /\ k = Len(s) + (k - Len(s)))
  BY <1>1
<1>3. /\ 1 .. Len(s) \subseteq 1 .. Len(s) + Len(t)
      /\ \A k \in 1 .. Len(t) : Len(s) + k \in 1 .. Len(s) + Len(t)
  BY <1>1
<1>4. ASSUME NEW x
      PROVE  x \in Range(s \o t) <=> x \in Range(s) \/ x \in Range(t)
  <2>1. x \in Range(s \o t) => x \in Range(s) \/ x \in Range(t)
    BY <1>1, <1>2 DEF Range
  <2>2. x \in Range(s) => x \in Range(s \o t)
    BY <1>1, <1>3 DEF Range
  <2>3. x \in Range(t) => x \in Range(s \o t)
    BY <1>1, <1>3 DEF Range
  <2> QED
    BY <2>1, <2>2, <2>3
<1> QED
  BY <1>4

\* A row that arrives takes nothing from those before it: it counts when it is the
\* first with its number.
LEMMA RowArrives ==
    ASSUME NEW d \in Seq(Row), NEW r \in Row
    PROVE  LET e == Append(d, r) IN
           /\ e \in Seq(Row)
           /\ DOMAIN e = DOMAIN d \cup {Len(d) + 1} /\ e[Len(d) + 1] = r
           /\ Len(d) + 1 \notin DOMAIN d
           /\ \A k \in DOMAIN d : e[k] = d[k] /\ (Counts(e, k) <=> Counts(d, k))
           /\ Counts(e, Len(d) + 1) <=>
                 /\ r.code # NULL
                 /\ \A j \in DOMAIN d : d[j].code = NULL \/ KeyOf[d[j].code] # KeyOf[r.code]
<1> DEFINE e == Append(d, r)
<1>1. /\ e \in Seq(Row) /\ Len(d) \in Nat /\ DOMAIN d = 1 .. Len(d)
      /\ DOMAIN e = 1 .. Len(d) + 1 /\ e[Len(d) + 1] = r
      /\ \A k \in 1 .. Len(d) : e[k] = d[k]
  OBVIOUS
<1> HIDE DEF e
<1>2. /\ DOMAIN e = DOMAIN d \cup {Len(d) + 1} /\ Len(d) + 1 \notin DOMAIN d
      /\ 1 .. (Len(d) + 1) - 1 = DOMAIN d
      /\ \A k \in DOMAIN d : 1 .. k - 1 \subseteq DOMAIN d
  BY <1>1
<1>3. \A k \in DOMAIN d : e[k] = d[k] /\ (Counts(e, k) <=> Counts(d, k))
  BY <1>1, <1>2 DEF Counts
<1>4. Counts(e, Len(d) + 1) <=>
         /\ r.code # NULL
         /\ \A j \in DOMAIN d : d[j].code = NULL \/ KeyOf[d[j].code] # KeyOf[r.code]
  BY <1>1, <1>2 DEF Counts
<1> QED
  BY <1>1, <1>2, <1>3, <1>4 DEF e

\* Of the rows with one number a single one counts.
LEMMA KeptOnce ==
    ASSUME NEW d \in Seq(Row), NEW k \in Kept(d), NEW l \in Kept(d), d[k].code = d[l].code
    PROVE  k = l
<1>1. k \in 1 .. Len(d) /\ l \in 1 .. Len(d) /\ Counts(d, k) /\ Counts(d, l)
  BY DEF Kept
<1>2. ~(k < l) /\ ~(l < k)
  BY <1>1 DEF Counts
<1> QED
  BY <1>1, <1>2

-----------------------------------------------------------------------------
(* Steps of one import *)

\* What is to be shown of a step that changes the variables of one import alone.
Stands(m) ==
    /\ m \in Import
    /\ m.next >= 1
    /\ Streamed(m)
    /\ CompaniesUpserted(m)
    /\ ProductsUpserted(m)
    /\ RowsAreCurrent(m, changes)

LEMMA InvStands ==
    ASSUME Inv, NEW i \in Importers
    PROVE  Stands(imp[i])
  BY DEF Inv, TypeOK, Stands

LEMMA ImportersStand ==
    ASSUME Inv, NEW i \in Importers, NEW m, Stands(m), imp' = [imp EXCEPT ![i] = m],
           UNCHANGED changes
    PROVE  /\ imp' \in [Importers -> Import]
           /\ \A j \in Importers : Stands(imp[j])'
<1>1. imp \in [Importers -> Import] /\ m \in Import
  BY DEF Inv, TypeOK, Stands
<1>2. imp' \in [Importers -> Import]
  BY <1>1
<1>3. ASSUME NEW j \in Importers
      PROVE  Stands(imp[j])'
  <2>1. imp'[j] = IF j = i THEN m ELSE imp[j]
    BY <1>1
  <2>2. Stands(imp'[j])
    BY <2>1, InvStands
  <2> QED
    BY <2>2 DEF Stands, RowsAreCurrent
<1> QED
  BY <1>2, <1>3

LEMMA OneImporter ==
    ASSUME Inv, NEW i \in Importers, NEW m, Stands(m), imp' = [imp EXCEPT ![i] = m],
           UNCHANGED <<companies, products, wanted, changes>>, imports' \in 0 .. MaxImports
    PROVE  Inv'
<1>1. /\ imp' \in [Importers -> Import]
      /\ \A j \in Importers : Stands(imp[j])'
  BY ImportersStand
<1>2. TypeOK' /\ ChangesAreStored'
  BY <1>1 DEF Inv, TypeOK, ChangesAreStored
<1> QED
  BY <1>1, <1>2 DEF Inv, Stands

\* An import that is over holds nothing.
LEMMA IdleStands == Stands(Idle)
<1>1. Idle \in Import
  BY DEF Idle, Import
<1>2. /\ Idle.pc = "idle" /\ Idle.dump = <<>> /\ Idle.seen = {} /\ Idle.names = <<>>
      /\ Idle.batch = <<>> /\ Idle.staged = <<>> /\ Idle.next = 1
      /\ \A n \in Names : Idle.wrote[n] = NULL
      /\ \A b \in Barcodes : Idle.put[b] = NULL
  BY DEF Idle
<1>3. Streamed(Idle)
  BY <1>2 DEF Streamed, Items, Kept, Range
<1> QED
  BY <1>1, <1>2, <1>3 DEF Stands, CompaniesUpserted, ProductsUpserted, RowsAreCurrent

LEMMA StartInv ==
    ASSUME Inv, NEW i \in Importers, Start(i)
    PROVE  Inv'
<1>1. PICK m : m = [imp[i] EXCEPT !.pc = "read"]
  OBVIOUS
<1>2. imp[i] \in Import /\ imp[i].pc = "idle" /\ Stands(imp[i])
  BY InvStands DEF Start, At, Stands
<1>3. /\ m \in Import /\ m.pc = "read" /\ m.dump = imp[i].dump /\ m.seen = imp[i].seen
      /\ m.names = imp[i].names /\ m.batch = imp[i].batch /\ m.staged = imp[i].staged
      /\ m.next = imp[i].next /\ m.wrote = imp[i].wrote /\ m.put = imp[i].put
  BY <1>1, <1>2 DEF Import
<1>4. Stands(m)
  BY <1>2, <1>3
     DEF Stands, Streamed, Items, CompaniesUpserted, ProductsUpserted, RowsAreCurrent
<1>5. imp' = [imp EXCEPT ![i] = m] /\ UNCHANGED <<companies, products, wanted, changes>>
  BY <1>1 DEF Start
<1>6. imports' \in 0 .. MaxImports
  BY ImportAssumption DEF Start, Inv, TypeOK
<1> QED
  BY <1>4, <1>5, <1>6, OneImporter

LEMMA OverInv ==
    ASSUME Inv, NEW i \in Importers, imp' = [imp EXCEPT ![i] = Idle],
           UNCHANGED <<companies, products, wanted, imports, changes>>
    PROVE  Inv'
<1>1. imports' \in 0 .. MaxImports
  BY DEF Inv, TypeOK
<1> QED
  BY <1>1, IdleStands, OneImporter

\* A row that does not count leaves what is staged as it is.
LEMMA SkipRowInv ==
    ASSUME Inv, NEW i \in Importers, NEW r \in Rows, SkipRow(i, r)
    PROVE  Inv'
<1> DEFINE d == imp[i].dump
<1>1. PICK m : m = [imp[i] EXCEPT !.dump = Append(@, r)]
  OBVIOUS
<1>2. /\ imp[i] \in Import /\ imp[i].pc = "read" /\ Stands(imp[i])
      /\ r \in Row /\ r \in Rows /\ d \in Seq(Row) /\ d \in Seq(Rows)
      /\ r.code # NULL => KeyOf[r.code] \in imp[i].seen
  <2>1. imp[i] \in Import /\ Stands(imp[i])
    BY InvStands DEF Stands
  <2>2. d \in Seq(Rows) /\ Rows \subseteq Row
    BY <2>1, ImportAssumption DEF Import
  <2>3. d \in Seq(Row)
    BY <2>2
  <2> QED
    BY <2>1, <2>2, <2>3 DEF SkipRow, Arrives, At
<1>3. /\ m \in Import /\ m.pc = "read" /\ m.dump = Append(d, r) /\ m.seen = imp[i].seen
      /\ m.names = imp[i].names /\ m.batch = imp[i].batch /\ m.staged = imp[i].staged
      /\ m.next = imp[i].next /\ m.wrote = imp[i].wrote /\ m.put = imp[i].put
  <2>1. Append(d, r) \in Seq(Rows)
    BY <1>2
  <2> QED
    BY <1>1, <1>2, <2>1 DEF Import
<1>4. /\ DOMAIN m.dump = DOMAIN d \cup {Len(d) + 1} /\ m.dump[Len(d) + 1] = r
      /\ Len(d) + 1 \notin DOMAIN d
      /\ \A k \in DOMAIN d : m.dump[k] = d[k] /\ (Counts(m.dump, k) <=> Counts(d, k))
      /\ Counts(m.dump, Len(d) + 1) <=>
            /\ r.code # NULL
            /\ \A j \in DOMAIN d : d[j].code = NULL \/ KeyOf[d[j].code] # KeyOf[r.code]
  BY <1>2, <1>3, RowArrives
<1>5. Streamed(imp[i])
  BY <1>2 DEF Stands
<1> HIDE DEF d
<1>6. Streamed(m)
  <2>1. \A k \in DOMAIN m.dump : m.dump[k].code # NULL => KeyOf[m.dump[k].code] \in m.seen
    BY <1>2, <1>3, <1>4, <1>5 DEF Streamed, d
  <2>2. ASSUME NEW x \in m.seen
        PROVE  \E k \in DOMAIN m.dump : m.dump[k].code # NULL /\ KeyOf[m.dump[k].code] = x
    <3>1. PICK k \in DOMAIN d : d[k].code # NULL /\ KeyOf[d[k].code] = x
      BY <1>3, <1>5 DEF Streamed, d
    <3> QED
      BY <1>4, <3>1
  <2>3. ~Counts(m.dump, Len(d) + 1)
    <3>1. SUFFICES ASSUME r.code # NULL
                   PROVE  \E j \in DOMAIN d : d[j].code # NULL /\ KeyOf[d[j].code] = KeyOf[r.code]
      BY <1>4
    <3> QED
      BY <1>2, <1>5, <3>1 DEF Streamed, d
  <2>4. Kept(m.dump) = Kept(d) /\ Kept(d) \subseteq DOMAIN d
    BY <1>4, <2>3 DEF Kept
  <2>5. {StagedFor(m.dump[k]) : k \in Kept(m.dump)} = {StagedFor(d[k]) : k \in Kept(d)}
    BY <1>4, <2>4
  <2>6. Items(m) = Items(imp[i])
    BY <1>3 DEF Items
  <2> QED
    BY <1>3, <1>5, <2>1, <2>2, <2>5, <2>6 DEF Streamed, d
<1>7. Stands(m)
  BY <1>2, <1>3, <1>6 DEF Stands, CompaniesUpserted, ProductsUpserted, RowsAreCurrent
<1>8. imp' = [imp EXCEPT ![i] = m] /\ UNCHANGED <<companies, products, wanted, imports, changes>>
  BY <1>1 DEF SkipRow
<1>9. imports' \in 0 .. MaxImports
  BY <1>8 DEF Inv, TypeOK
<1> QED
  BY <1>7, <1>8, <1>9, OneImporter

\* A row that counts is staged or waits in the batch, with its company.
LEMMA KeepRowInv ==
    ASSUME Inv, NEW i \in Importers, NEW r \in Rows, KeepRow(i, r)
    PROVE  Inv'
<1> DEFINE d == imp[i].dump
           it == StagedFor(r)
           grown == Append(imp[i].batch, it)
           full == Len(grown) >= BatchSize
           key == KeyOf[r.code]
<1>1. PICK m : m = [imp[i] EXCEPT
                       !.dump = Append(@, r),
                       !.seen = @ \cup {key},
                       !.names = IF Contains(@, it.company) THEN @ ELSE Append(@, it.company),
                       !.batch = IF full THEN <<>> ELSE grown,
                       !.staged = IF full THEN @ \o grown ELSE @]
  OBVIOUS
<1>2. /\ imp[i] \in Import /\ imp[i].pc = "read" /\ Stands(imp[i])
      /\ r \in Row /\ d \in Seq(Row) /\ d \in Seq(Rows)
      /\ r.code \in Barcodes /\ key \in Nat /\ key \notin imp[i].seen
  <2>1. imp[i] \in Import /\ Stands(imp[i])
    BY InvStands DEF Stands
  <2>2. d \in Seq(Rows) /\ Rows \subseteq Row
    BY <2>1, ImportAssumption DEF Import
  <2>3. d \in Seq(Row) /\ r \in Row
    BY <2>2
  <2>4. imp[i].pc = "read" /\ r.code # NULL /\ key \notin imp[i].seen \cup {NULL}
    BY DEF KeepRow, Arrives, At
  <2>5. r.code \in Barcodes
    BY <2>3, <2>4 DEF Row
  <2>6. key \in Nat
    BY <2>4, <2>5, ImportAssumption
  <2> QED
    BY <2>1, <2>2, <2>3, <2>4, <2>5, <2>6
<1>3. it \in Staged /\ it.company \in Names
  <2>1. CompanyName(r) \in Names
    BY <1>2 DEF CompanyName, Names, Row
  <2>2. ProductName(r) \in Titles \cup {NO_INFORMATION}
    BY <1>2 DEF ProductName, Row
  <2> QED
    BY <1>2, <2>1, <2>2 DEF StagedFor, Staged
<1>4. /\ imp[i].batch \in Seq(Staged) /\ imp[i].staged \in Seq(Staged) /\ grown \in Seq(Staged)
      /\ imp[i].names \in Seq(Names) /\ imp[i].seen \in SUBSET Nat
      /\ imp[i].staged \o grown \in Seq(Staged)
      /\ Append(imp[i].names, it.company) \in Seq(Names) /\ Append(d, r) \in Seq(Rows)
  <2>1. /\ imp[i].batch \in Seq(Staged) /\ imp[i].staged \in Seq(Staged)
        /\ imp[i].names \in Seq(Names) /\ imp[i].seen \in SUBSET Nat
    BY <1>2 DEF Import
  <2>2. grown \in Seq(Staged)
    BY <1>3, <2>1
  <2> QED
    BY <1>2, <1>3, <2>1, <2>2
<1> HIDE DEF it, grown, full, key, d
<1>5. /\ m.pc = "read" /\ m.dump = Append(d, r) /\ m.seen = imp[i].seen \cup {key}
      /\ m.names = IF Contains(imp[i].names, it.company) THEN imp[i].names
                   ELSE Append(imp[i].names, it.company)
      /\ m.batch = IF full THEN <<>> ELSE grown
      /\ m.staged = IF full THEN imp[i].staged \o grown ELSE imp[i].staged
      /\ m.next = imp[i].next /\ m.wrote = imp[i].wrote /\ m.put = imp[i].put
  BY <1>1, <1>2 DEF Import, d
<1>6. m \in Import
  <2>1. /\ Append(d, r) \in Seq(Rows) /\ imp[i].seen \cup {key} \in SUBSET Nat
        /\ (IF Contains(imp[i].names, it.company) THEN imp[i].names
            ELSE Append(imp[i].names, it.company)) \in Seq(Names)
        /\ (IF full THEN <<>> ELSE grown) \in Seq(Staged)
        /\ (IF full THEN imp[i].staged \o grown ELSE imp[i].staged) \in Seq(Staged)
    BY <1>2, <1>4
  <2>2. \A dump \in Seq(Rows), seen \in SUBSET Nat, names \in Seq(Names),
           batch \in Seq(Staged), staged \in Seq(Staged) :
           [imp[i] EXCEPT !.dump = dump, !.seen = seen, !.names = names,
                          !.batch = batch, !.staged = staged] \in Import
    BY <1>2 DEF Import
  <2> QED
    BY <1>1, <2>1, <2>2 DEF d
<1>7. Range(m.names) = Range(imp[i].names) \cup {it.company}
  <2>1. CASE Contains(imp[i].names, it.company)
    <3>1. it.company \in Range(imp[i].names)
      BY <1>4, <2>1 DEF Contains, Range
    <3> QED
      BY <1>5, <2>1, <3>1
  <2>2. CASE ~Contains(imp[i].names, it.company)
    BY <1>3, <1>4, <1>5, <2>2, RangeAppend
  <2> QED
    BY <2>1, <2>2
<1>8. Items(m) = Items(imp[i]) \cup {it}
  <2>1. Range(grown) = Range(imp[i].batch) \cup {it}
    BY <1>3, <1>4, RangeAppend DEF grown
  <2>2. CASE full
    <3>1. Range(m.staged) = Range(imp[i].staged) \cup Range(grown)
      BY <1>4, <1>5, <2>2, RangeConcat
    <3>2. Range(m.batch) = {}
      BY <1>5, <2>2 DEF Range
    <3> QED
      BY <2>1, <3>1, <3>2 DEF Items
  <2>3. CASE ~full
    BY <1>5, <2>1, <2>3 DEF Items
  <2> QED
    BY <2>2, <2>3
<1>9. /\ DOMAIN m.dump = DOMAIN d \cup {Len(d) + 1} /\ m.dump[Len(d) + 1] = r
      /\ Len(d) + 1 \notin DOMAIN d
      /\ \A k \in DOMAIN d : m.dump[k] = d[k] /\ (Counts(m.dump, k) <=> Counts(d, k))
      /\ Counts(m.dump, Len(d) + 1) <=>
            /\ r.code # NULL
            /\ \A j \in DOMAIN d : d[j].code = NULL \/ KeyOf[d[j].code] # KeyOf[r.code]
  BY <1>2, <1>5, RowArrives
<1>10. Streamed(imp[i]) /\ r.code # NULL /\ KeyOf[r.code] = key
  BY <1>2, ImportAssumption DEF Stands, key
<1>11. Streamed(m)
  <2>1. \A k \in DOMAIN m.dump : m.dump[k].code # NULL => KeyOf[m.dump[k].code] \in m.seen
    BY <1>5, <1>9, <1>10 DEF Streamed, d
  <2>2. ASSUME NEW x \in m.seen
        PROVE  \E k \in DOMAIN m.dump : m.dump[k].code # NULL /\ KeyOf[m.dump[k].code] = x
    <3>1. CASE x = key
      BY <1>9, <1>10, <3>1
    <3>2. CASE x \in imp[i].seen
      <4>1. PICK k \in DOMAIN d : d[k].code # NULL /\ KeyOf[d[k].code] = x
        BY <1>10, <3>2 DEF Streamed, d
      <4> QED
        BY <1>9, <4>1
    <3> QED
      BY <1>5, <3>1, <3>2
  <2>3. Counts(m.dump, Len(d) + 1)
    <3>1. ASSUME NEW j \in DOMAIN d, d[j].code # NULL
          PROVE  KeyOf[d[j].code] # KeyOf[r.code]
      BY <1>2, <1>10, <3>1 DEF Streamed, d
    <3> QED
      BY <1>9, <1>10, <3>1
  <2>4. Kept(m.dump) = Kept(d) \cup {Len(d) + 1} /\ Kept(d) \subseteq DOMAIN d
    BY <1>9, <2>3 DEF Kept
  <2>5. {StagedFor(m.dump[k]) : k \in Kept(m.dump)} = {StagedFor(d[k]) : k \in Kept(d)} \cup {it}
    BY <1>9, <2>4 DEF it
  <2>6. Items(imp[i]) = {StagedFor(d[k]) : k \in Kept(d)} /\ Range(imp[i].names) = {x.company : x \in Items(imp[i])}
    BY <1>10 DEF Streamed, d
  <2>7. Range(m.names) = {x.company : x \in Items(m)}
    BY <1>7, <1>8, <2>6
  <2> QED
    BY <1>5, <1>8, <2>1, <2>2, <2>5, <2>6, <2>7 DEF Streamed
<1>12. Stands(m)
  BY <1>2, <1>5, <1>6, <1>11 DEF Stands, CompaniesUpserted, ProductsUpserted, RowsAreCurrent
<1>13. imp' = [imp EXCEPT ![i] = m] /\ UNCHANGED <<companies, products, wanted, imports, changes>>
  BY <1>1 DEF KeepRow, it, grown, full, key, StagedFor
<1>14. imports' \in 0 .. MaxImports
  BY <1>13 DEF Inv, TypeOK
<1> QED
  BY <1>12, <1>13, <1>14, OneImporter

LEMMA ReadEndInv ==
    ASSUME Inv, NEW i \in Importers, ReadEnd(i)
    PROVE  Inv'
<1>1. PICK m : m = [imp[i] EXCEPT !.pc = "companies", !.batch = <<>>, !.staged = @ \o imp[i].batch]
  OBVIOUS
<1>2. /\ imp[i] \in Import /\ imp[i].pc = "read" /\ Stands(imp[i])
      /\ imp[i].batch \in Seq(Staged) /\ imp[i].staged \in Seq(Staged)
      /\ imp[i].names \in Seq(Names)
  BY InvStands DEF ReadEnd, At, Stands, Import
<1>3. /\ m.pc = "companies" /\ m.dump = imp[i].dump /\ m.seen = imp[i].seen
      /\ m.names = imp[i].names /\ m.batch = <<>> /\ m.staged = imp[i].staged \o imp[i].batch
      /\ m.next = imp[i].next /\ m.wrote = imp[i].wrote /\ m.put = imp[i].put
  BY <1>1, <1>2 DEF Import
<1>4. m \in Import
  <2>1. imp[i].staged \o imp[i].batch \in Seq(Staged) /\ <<>> \in Seq(Staged)
    BY <1>2
  <2>2. m = [imp[i] EXCEPT !.pc = "companies", !.batch = <<>>,
                           !.staged = imp[i].staged \o imp[i].batch]
    BY <1>1
  <2> QED
    BY <1>2, <2>1, <2>2 DEF Import
<1>5. Items(m) = Items(imp[i])
  <2>1. Range(m.batch) = {}
    BY <1>3 DEF Range
  <2>2. Range(m.staged) = Range(imp[i].staged) \cup Range(imp[i].batch)
    BY <1>2, <1>3, RangeConcat
  <2> QED
    BY <2>1, <2>2 DEF Items
<1>6. Stands(m)
  <2>1. Streamed(m)
    BY <1>2, <1>3, <1>5 DEF Stands, Streamed
  <2>2. CompaniesUpserted(m)
    <3>1. m.next = 1 /\ \A n \in Names : m.wrote[n] = NULL
      BY <1>2, <1>3 DEF Stands, CompaniesUpserted
    <3>2. Len(m.names) \in Nat /\ ~ \E j \in 1 .. Len(m.names) : j < 1
      BY <1>2, <1>3
    <3> QED
      BY <1>3, <3>1, <3>2 DEF CompaniesUpserted
  <2> QED
    BY <1>2, <1>3, <1>4, <2>1, <2>2 DEF Stands, ProductsUpserted, RowsAreCurrent
<1>7. imp' = [imp EXCEPT ![i] = m] /\ UNCHANGED <<companies, products, wanted, imports, changes>>
  BY <1>1 DEF ReadEnd
<1>8. imports' \in 0 .. MaxImports
  BY <1>7 DEF Inv, TypeOK
<1> QED
  BY <1>6, <1>7, <1>8, OneImporter

\* The upsert of a company writes the row as the community has left it.
LEMMA UpsertCompanyInv ==
    ASSUME Inv, NEW i \in Importers, UpsertCompany(i)
    PROVE  Inv'
<1> DEFINE n == imp[i].names[imp[i].next]
<1>1. PICK m : m = [imp[i] EXCEPT !.next = @ + 1, !.wrote[n] = Upserted(n)]
  OBVIOUS
<1>2. /\ imp[i] \in Import /\ imp[i].pc = "companies" /\ Stands(imp[i])
      /\ imp[i].names \in Seq(Names) /\ imp[i].next \in Nat
      /\ imp[i].next >= 1 /\ imp[i].next <= Len(imp[i].names)
      /\ imp[i].wrote \in [Names -> Company \cup {NULL}]
  BY InvStands DEF UpsertCompany, At, Stands, Import
<1>3. n \in Names
  BY <1>2
<1>4. Upserted(n) = [normalized |-> TRUE, changes |-> changes[n]]
  <2>1. companies[n] \in Company \cup {NULL}
    BY <1>3 DEF Inv, TypeOK
  <2>2. changes[n] = IF companies[n] = NULL THEN 0 ELSE companies[n].changes
    BY <1>3 DEF Inv, ChangesAreStored
  <2> QED
    BY <2>1, <2>2 DEF Upserted, Company
<1>5. Upserted(n) \in Company /\ Upserted(n) # NULL
  <2>1. changes[n] \in Nat
    BY <1>3 DEF Inv, TypeOK
  <2>2. Upserted(n) \in Company
    BY <1>4, <2>1 DEF Company
  <2> QED
    BY <2>2, RowAssumption
<1> HIDE DEF n
<1>6. /\ m \in Import /\ m.pc = "companies" /\ m.dump = imp[i].dump /\ m.seen = imp[i].seen
      /\ m.names = imp[i].names /\ m.batch = imp[i].batch /\ m.staged = imp[i].staged
      /\ m.next = imp[i].next + 1 /\ m.put = imp[i].put
      /\ m.wrote = [imp[i].wrote EXCEPT ![n] = Upserted(n)]
  <2>1. /\ imp[i].next + 1 \in Nat
        /\ [imp[i].wrote EXCEPT ![n] = Upserted(n)] \in [Names -> Company \cup {NULL}]
    BY <1>2, <1>3, <1>5
  <2>2. m = [imp[i] EXCEPT !.next = imp[i].next + 1,
                           !.wrote = [imp[i].wrote EXCEPT ![n] = Upserted(n)]]
    BY <1>1, <1>2 DEF Import
  <2>3. \A next \in Nat, wrote \in [Names -> Company \cup {NULL}] :
           [imp[i] EXCEPT !.next = next, !.wrote = wrote] \in Import
    BY <1>2 DEF Import
  <2> QED
    BY <1>2, <2>1, <2>2, <2>3 DEF Import
<1>7. /\ m.wrote[n] = Upserted(n)
      /\ \A k \in Names \ {n} : m.wrote[k] = imp[i].wrote[k]
  BY <1>2, <1>3, <1>6
<1>8. Streamed(m)
  BY <1>2, <1>6 DEF Stands, Streamed, Items
<1>9. CompaniesUpserted(m)
  <2>1. SUFFICES ASSUME NEW k \in Names
                 PROVE  m.wrote[k] # NULL <=>
                           \E j \in 1 .. Len(m.names) : j < m.next /\ m.names[j] = k
    BY <1>6 DEF CompaniesUpserted
  <2>2. CASE k = n
    <3>1. imp[i].next \in 1 .. Len(m.names) /\ imp[i].next < m.next /\ m.names[imp[i].next] = n
      BY <1>2, <1>6 DEF n
    <3> QED
      BY <1>5, <1>7, <2>2, <3>1
  <2>3. CASE k # n
    <3>1. imp[i].wrote[k] # NULL <=>
             \E j \in 1 .. Len(m.names) : j < imp[i].next /\ m.names[j] = k
      BY <1>2, <1>6 DEF Stands, CompaniesUpserted
    <3>2. \A j \in 1 .. Len(m.names) :
             j < m.next /\ m.names[j] = k <=> j < imp[i].next /\ m.names[j] = k
      BY <1>2, <1>6, <2>3 DEF n
    <3> QED
      BY <1>7, <2>3, <3>1, <3>2
  <2> QED
    BY <2>2, <2>3
<1>10. RowsAreCurrent(m, changes)
  BY <1>2, <1>4, <1>7 DEF Stands, RowsAreCurrent
<1>11. Stands(m)
  BY <1>2, <1>6, <1>8, <1>9, <1>10 DEF Stands, ProductsUpserted
<1>12. imp' = [imp EXCEPT ![i] = m] /\ UNCHANGED <<companies, products, wanted, imports, changes>>
  <2>1. imp' = [imp EXCEPT ![i].next = @ + 1, ![i].wrote[n] = Upserted(n)]
    BY DEF UpsertCompany, n
  <2> QED
    BY <1>1, <2>1 DEF UpsertCompany
<1>13. imports' \in 0 .. MaxImports
  BY <1>12 DEF Inv, TypeOK
<1> QED
  BY <1>11, <1>12, <1>13, OneImporter

LEMMA CompaniesDoneInv ==
    ASSUME Inv, NEW i \in Importers, CompaniesDone(i)
    PROVE  Inv'
<1>1. PICK m : m = [imp[i] EXCEPT !.pc = "products", !.next = 1]
  OBVIOUS
<1>2. /\ imp[i] \in Import /\ imp[i].pc = "companies" /\ Stands(imp[i])
      /\ imp[i].names \in Seq(Names) /\ imp[i].staged \in Seq(Staged)
      /\ imp[i].next \in Nat /\ imp[i].next > Len(imp[i].names)
  BY InvStands DEF CompaniesDone, At, Stands, Import
<1>3. /\ m \in Import /\ m.pc = "products" /\ m.dump = imp[i].dump /\ m.seen = imp[i].seen
      /\ m.names = imp[i].names /\ m.batch = imp[i].batch /\ m.staged = imp[i].staged
      /\ m.next = 1 /\ m.wrote = imp[i].wrote /\ m.put = imp[i].put
  BY <1>1, <1>2 DEF Import
<1>4. Streamed(m)
  BY <1>2, <1>3 DEF Stands, Streamed, Items
<1>5. CompaniesUpserted(m)
  <2>1. \A n \in Names : m.wrote[n] # NULL <=> \E j \in 1 .. Len(m.names) :
                                                  j < imp[i].next /\ m.names[j] = n
    BY <1>2, <1>3 DEF Stands, CompaniesUpserted
  <2>2. \A j \in 1 .. Len(m.names) : j < imp[i].next
    BY <1>2, <1>3
  <2>3. Range(m.names) = {m.names[j] : j \in 1 .. Len(m.names)}
    BY <1>2, <1>3 DEF Range
  <2> QED
    BY <1>3, <2>1, <2>2, <2>3 DEF CompaniesUpserted
<1>6. ProductsUpserted(m)
  <2>1. \A b \in Barcodes : m.put[b] = NULL
    BY <1>2, <1>3 DEF Stands, ProductsUpserted
  <2>2. \A j \in 1 .. Len(m.staged) : ~(j < m.next)
    BY <1>2, <1>3
  <2> QED
    BY <1>3, <2>1, <2>2 DEF ProductsUpserted
<1>7. Stands(m)
  BY <1>2, <1>3, <1>4, <1>5, <1>6 DEF Stands, RowsAreCurrent
<1>8. imp' = [imp EXCEPT ![i] = m] /\ UNCHANGED <<companies, products, wanted, imports, changes>>
  BY <1>1 DEF CompaniesDone
<1>9. imports' \in 0 .. MaxImports
  BY <1>8 DEF Inv, TypeOK
<1> QED
  BY <1>7, <1>8, <1>9, OneImporter

LEMMA UpsertProductInv ==
    ASSUME Inv, NEW i \in Importers, UpsertProduct(i)
    PROVE  Inv'
<1> DEFINE row == imp[i].staged[imp[i].next]
           new == [name |-> row.name, company |-> row.company]
<1>1. PICK m : m = [imp[i] EXCEPT !.next = @ + 1, !.put[row.barcode] = new]
  OBVIOUS
<1>2. /\ imp[i] \in Import /\ imp[i].pc = "products" /\ Stands(imp[i])
      /\ imp[i].staged \in Seq(Staged) /\ imp[i].next \in Nat
      /\ imp[i].next >= 1 /\ imp[i].next <= Len(imp[i].staged)
      /\ imp[i].put \in [Barcodes -> Product \cup {NULL}]
  BY InvStands DEF UpsertProduct, At, Stands, Import
<1>3. row \in Staged /\ row.barcode \in Barcodes /\ new \in Product /\ new # NULL
  <2>1. row \in Staged
    BY <1>2
  <2> HIDE DEF row
  <2>2. row.barcode \in Barcodes /\ new \in Product
    BY <2>1 DEF Staged, Product
  <2> QED
    BY <2>1, <2>2, RowAssumption
<1> HIDE DEF row, new
<1>4. /\ m \in Import /\ m.pc = "products" /\ m.dump = imp[i].dump /\ m.seen = imp[i].seen
      /\ m.names = imp[i].names /\ m.batch = imp[i].batch /\ m.staged = imp[i].staged
      /\ m.next = imp[i].next + 1 /\ m.wrote = imp[i].wrote
      /\ m.put = [imp[i].put EXCEPT ![row.barcode] = new]
  <2>1. /\ imp[i].next + 1 \in Nat
        /\ [imp[i].put EXCEPT ![row.barcode] = new] \in [Barcodes -> Product \cup {NULL}]
    BY <1>2, <1>3
  <2>2. m = [imp[i] EXCEPT !.next = imp[i].next + 1,
                           !.put = [imp[i].put EXCEPT ![row.barcode] = new]]
    BY <1>1, <1>2 DEF Import
  <2>3. \A next \in Nat, put \in [Barcodes -> Product \cup {NULL}] :
           [imp[i] EXCEPT !.next = next, !.put = put] \in Import
    BY <1>2 DEF Import
  <2> QED
    BY <1>2, <2>1, <2>2, <2>3 DEF Import
<1>5. /\ m.put[row.barcode] = new
      /\ \A b \in Barcodes \ {row.barcode} : m.put[b] = imp[i].put[b]
  BY <1>2, <1>3, <1>4
<1>6. Streamed(m)
  BY <1>2, <1>4 DEF Stands, Streamed, Items
<1>7. ProductsUpserted(m)
  <2>1. SUFFICES ASSUME NEW b \in Barcodes
                 PROVE  /\ m.put[b] # NULL => \E j \in 1 .. Len(m.staged) :
                              /\ m.staged[j].barcode = b
                              /\ m.put[b] = [name |-> m.staged[j].name,
                                             company |-> m.staged[j].company]
                        /\ \A j \in 1 .. Len(m.staged) :
                              j < m.next /\ m.staged[j].barcode = b => m.put[b] # NULL
    BY <1>4 DEF ProductsUpserted
  <2>2. CASE b = row.barcode
    <3>1. /\ imp[i].next \in 1 .. Len(m.staged)
          /\ m.staged[imp[i].next] = row
          /\ new = [name |-> row.name, company |-> row.company]
      BY <1>2, <1>4 DEF row, new
    <3> QED
      BY <1>3, <1>5, <2>2, <3>1
  <2>3. CASE b # row.barcode
    <3>1. /\ imp[i].put[b] # NULL => \E j \in 1 .. Len(m.staged) :
                /\ m.staged[j].barcode = b
                /\ imp[i].put[b] = [name |-> m.staged[j].name, company |-> m.staged[j].company]
          /\ \A j \in 1 .. Len(m.staged) :
                j < imp[i].next /\ m.staged[j].barcode = b => imp[i].put[b] # NULL
      BY <1>2, <1>4 DEF Stands, ProductsUpserted
    <3>2. \A j \in 1 .. Len(m.staged) : j < m.next /\ m.staged[j].barcode = b => j < imp[i].next
      BY <1>2, <1>4, <2>3 DEF row
    <3> QED
      BY <1>5, <2>3, <3>1, <3>2
  <2> QED
    BY <2>2, <2>3
<1>8. Stands(m)
  BY <1>2, <1>4, <1>6, <1>7 DEF Stands, CompaniesUpserted, RowsAreCurrent
<1>9. imp' = [imp EXCEPT ![i] = m] /\ UNCHANGED <<companies, products, wanted, imports, changes>>
  <2>1. imp' = [imp EXCEPT ![i].next = @ + 1, ![i].put[row.barcode] = new]
    BY DEF UpsertProduct, row, new
  <2> QED
    BY <1>1, <2>1 DEF UpsertProduct
<1>10. imports' \in 0 .. MaxImports
  BY <1>9 DEF Inv, TypeOK
<1> QED
  BY <1>8, <1>9, <1>10, OneImporter

LEMMA ProductsDoneInv ==
    ASSUME Inv, NEW i \in Importers, ProductsDone(i)
    PROVE  Inv'
<1>1. PICK m : m = [imp[i] EXCEPT !.pc = "commit"]
  OBVIOUS
<1>2. /\ imp[i] \in Import /\ imp[i].pc = "products" /\ Stands(imp[i])
      /\ imp[i].next > Len(imp[i].staged)
  BY InvStands DEF ProductsDone, At, Stands
<1>3. /\ m \in Import /\ m.pc = "commit" /\ m.dump = imp[i].dump /\ m.seen = imp[i].seen
      /\ m.names = imp[i].names /\ m.batch = imp[i].batch /\ m.staged = imp[i].staged
      /\ m.next = imp[i].next /\ m.wrote = imp[i].wrote /\ m.put = imp[i].put
  BY <1>1, <1>2 DEF Import
<1>4. Stands(m)
  BY <1>2, <1>3
     DEF Stands, Streamed, Items, CompaniesUpserted, ProductsUpserted, RowsAreCurrent
<1>5. imp' = [imp EXCEPT ![i] = m] /\ UNCHANGED <<companies, products, wanted, imports, changes>>
  BY <1>1 DEF ProductsDone
<1>6. imports' \in 0 .. MaxImports
  BY <1>5 DEF Inv, TypeOK
<1> QED
  BY <1>4, <1>5, <1>6, OneImporter

-----------------------------------------------------------------------------
(* The commit, and the community *)

LEMMA CommitInv ==
    ASSUME Inv, NEW i \in Importers, Commit(i)
    PROVE  Inv'
<1>1. /\ companies' = [n \in Names |-> IF imp[i].wrote[n] = NULL THEN companies[n]
                                       ELSE imp[i].wrote[n]]
      /\ products' = [b \in Barcodes |-> IF imp[i].put[b] = NULL THEN products[b]
                                         ELSE imp[i].put[b]]
      /\ imp' = [imp EXCEPT ![i] = Idle]
      /\ UNCHANGED <<wanted, imports, changes>>
  BY DEF Commit
<1>2. /\ companies \in [Names -> Company \cup {NULL}]
      /\ products \in [Barcodes -> Product \cup {NULL}]
      /\ wanted \subseteq {n \in Names : companies[n] # NULL}
      /\ imports \in 0 .. MaxImports /\ changes \in [Names -> Nat]
  BY DEF Inv, TypeOK
<1>3. /\ imp[i].wrote \in [Names -> Company \cup {NULL}]
      /\ imp[i].put \in [Barcodes -> Product \cup {NULL}]
      /\ RowsAreCurrent(imp[i], changes)
  BY InvStands DEF Stands, Import
<1>4. imp' \in [Importers -> Import] /\ \A j \in Importers : Stands(imp[j])'
  BY <1>1, IdleStands, ImportersStand
<1>5. /\ companies' \in [Names -> Company \cup {NULL}]
      /\ products' \in [Barcodes -> Product \cup {NULL}]
      /\ wanted' \subseteq {n \in Names : companies'[n] # NULL}
  BY <1>1, <1>2, <1>3
<1>6. TypeOK'
  BY <1>1, <1>2, <1>4, <1>5 DEF TypeOK
<1>7. ChangesAreStored'
  <2>1. SUFFICES ASSUME NEW n \in Names
                 PROVE  changes[n] = IF companies'[n] = NULL THEN 0 ELSE companies'[n].changes
    BY <1>1 DEF ChangesAreStored
  <2>2. changes[n] = IF companies[n] = NULL THEN 0 ELSE companies[n].changes
    BY DEF Inv, ChangesAreStored
  <2>3. CASE imp[i].wrote[n] = NULL
    BY <1>1, <2>2, <2>3
  <2>4. CASE imp[i].wrote[n] # NULL
    <3>1. companies'[n] = [normalized |-> TRUE, changes |-> changes[n]]
      BY <1>1, <1>3, <2>4 DEF RowsAreCurrent
    <3>2. companies'[n] # NULL /\ companies'[n].changes = changes[n]
      BY <1>1, <2>4, <3>1
    <3> QED
      BY <3>2
  <2> QED
    BY <2>3, <2>4
<1> QED
  BY <1>4, <1>6, <1>7 DEF Inv, Stands

\* The community changes only rows that no import holds.
LEMMA ChangeInv ==
    ASSUME Inv, NEW n \in Names, Change(n)
    PROVE  Inv'
<1>1. /\ n \in wanted /\ CompanyFree(n)
      /\ companies' = [companies EXCEPT ![n].changes = @ + 1]
      /\ changes' = [changes EXCEPT ![n] = @ + 1]
      /\ wanted' = wanted \ {n}
      /\ UNCHANGED <<products, imp, imports>>
  BY DEF Change
<1>2. /\ companies \in [Names -> Company \cup {NULL}] /\ changes \in [Names -> Nat]
      /\ wanted \subseteq {k \in Names : companies[k] # NULL}
      /\ ChangesAreStored
  BY DEF Inv, TypeOK
<1>3. companies[n] \in Company /\ companies[n] # NULL
  BY <1>1, <1>2
<1>4. PICK row : row = [companies[n] EXCEPT !.changes = @ + 1]
  OBVIOUS
<1>5. row \in Company /\ row # NULL /\ row.changes = companies[n].changes + 1
  <2>1. row \in Company /\ row.changes = companies[n].changes + 1
    BY <1>3, <1>4 DEF Company
  <2> QED
    BY <2>1, RowAssumption
<1>6. companies' = [companies EXCEPT ![n] = row]
  BY <1>1, <1>4
<1>7. TypeOK'
  <2>1. companies' \in [Names -> Company \cup {NULL}]
    BY <1>2, <1>5, <1>6
  <2>2. wanted' \subseteq {k \in Names : companies'[k] # NULL}
    BY <1>1, <1>2, <1>5, <1>6
  <2>3. changes' \in [Names -> Nat]
    BY <1>1, <1>2
  <2> QED
    BY <1>1, <2>1, <2>2, <2>3 DEF Inv, TypeOK
<1>8. ChangesAreStored'
  <2>1. SUFFICES ASSUME NEW k \in Names
                 PROVE  changes'[k] = IF companies'[k] = NULL THEN 0 ELSE companies'[k].changes
    BY DEF ChangesAreStored
  <2>2. changes[k] = IF companies[k] = NULL THEN 0 ELSE companies[k].changes
    BY <1>2 DEF ChangesAreStored
  <2>3. CASE k = n
    BY <1>1, <1>2, <1>3, <1>5, <1>6, <2>2, <2>3
  <2>4. CASE k # n
    BY <1>1, <1>2, <1>6, <2>2, <2>4
  <2> QED
    BY <2>3, <2>4
<1>9. ASSUME NEW i \in Importers
      PROVE  Stands(imp[i])'
  <2>1. \A k \in Names : imp[i].wrote[k] # NULL => k # n
    BY <1>1 DEF CompanyFree
  <2>2. \A k \in Names \ {n} : changes'[k] = changes[k]
    BY <1>1, <1>2
  <2>3. Stands(imp[i])
    BY InvStands
  <2>4. RowsAreCurrent(imp[i], changes')
    BY <2>1, <2>2, <2>3 DEF Stands, RowsAreCurrent
  <2> QED
    BY <1>1, <2>3, <2>4 DEF Stands
<1> QED
  BY <1>7, <1>8, <1>9 DEF Inv, Stands

LEMMA WantInv ==
    ASSUME Inv, NEW n \in Names, Want(n)
    PROVE  Inv'
<1>1. /\ companies[n] # NULL /\ wanted' = wanted \cup {n}
      /\ UNCHANGED <<companies, products, imp, imports, changes>>
  BY DEF Want
<1>2. TypeOK' /\ ChangesAreStored'
  BY <1>1 DEF Inv, TypeOK, ChangesAreStored
<1>3. \A i \in Importers : Stands(imp[i])'
  BY <1>1, InvStands DEF Stands
<1> QED
  BY <1>2, <1>3 DEF Inv, Stands

-----------------------------------------------------------------------------
(* The theorems *)

LEMMA InitInv == Init => Inv
<1> SUFFICES ASSUME Init PROVE Inv
  OBVIOUS
<1>1. /\ companies = [n \in Names |-> IF n \in Old THEN [normalized |-> FALSE, changes |-> 0]
                                      ELSE NULL]
      /\ products = [b \in Barcodes |-> NULL]
      /\ imp = [i \in Importers |-> Idle]
      /\ wanted = {} /\ imports = 0
      /\ changes = [n \in Names |-> 0]
  BY DEF Init
<1>2. [normalized |-> FALSE, changes |-> 0] \in Company
  BY DEF Company
<1>3. [normalized |-> FALSE, changes |-> 0] # NULL
  BY <1>2, RowAssumption
<1>4. Idle \in Import
  BY IdleStands DEF Stands
<1>5. companies \in [Names -> Company \cup {NULL}]
  BY <1>1, <1>2
<1>6. imports \in 0 .. MaxImports
  BY <1>1, ImportAssumption
<1>7. TypeOK
  BY <1>1, <1>4, <1>5, <1>6 DEF TypeOK
<1>8. ChangesAreStored
  BY <1>1, <1>3 DEF ChangesAreStored
<1>9. \A i \in Importers : Stands(imp[i])
  BY <1>1, IdleStands
<1> QED
  BY <1>7, <1>8, <1>9 DEF Inv, Stands

LEMMA StutterInv ==
    ASSUME Inv, UNCHANGED vars
    PROVE  Inv'
<1>1. UNCHANGED <<companies, products, imp, wanted, imports, changes>>
  BY DEF vars
<1>2. TypeOK' /\ ChangesAreStored'
  BY <1>1 DEF Inv, TypeOK, ChangesAreStored
<1>3. \A i \in Importers : Stands(imp[i])'
  BY <1>1, InvStands DEF Stands
<1> QED
  BY <1>2, <1>3 DEF Inv, Stands

\* Inv is inductive, for any dumps, batch size, number of imports and companies.
THEOREM Invariance == Spec => []Inv
<1>1. Inv /\ [Next]_vars => Inv'
  <2> SUFFICES ASSUME Inv, [Next]_vars PROVE Inv'
    OBVIOUS
  <2>1. ASSUME NEW i \in Importers, Start(i) PROVE Inv'
    BY <2>1, StartInv
  <2>2. ASSUME NEW i \in Importers, Step(i) PROVE Inv'
    <3>1. ASSUME NEW r \in Rows, SkipRow(i, r) PROVE Inv'
      BY <3>1, SkipRowInv
    <3>2. ASSUME NEW r \in Rows, Unreadable(i, r) PROVE Inv'
      BY <3>2, OverInv DEF Unreadable
    <3>3. ASSUME NEW r \in Rows, KeepRow(i, r) PROVE Inv'
      BY <3>3, KeepRowInv
    <3>4. ASSUME ReadRow(i) PROVE Inv'
      BY <3>1, <3>2, <3>3, <3>4 DEF ReadRow
    <3> QED
      BY <2>2, <3>4, ReadEndInv, UpsertCompanyInv, CompaniesDoneInv, UpsertProductInv,
         ProductsDoneInv, CommitInv DEF Step
  <2>3. ASSUME NEW i \in Importers, Fail(i) PROVE Inv'
    BY <2>3, OverInv DEF Fail
  <2>4. ASSUME NEW i \in Importers, NEW j \in Importers, Victim(i, j) PROVE Inv'
    BY <2>4, OverInv DEF Victim
  <2>5. ASSUME NEW n \in Names, Want(n) \/ Change(n) PROVE Inv'
    BY <2>5, WantInv, ChangeInv
  <2>6. CASE UNCHANGED vars
    BY <2>6, StutterInv
  <2> QED
    BY <2>1, <2>2, <2>3, <2>4, <2>5, <2>6 DEF Next
<1> QED
  BY <1>1, InitInv, PTL DEF Spec

\* Tables, staging tables and transactions keep their types, and whoever waits to
\* update a company waits for one that is there: no import takes a company away.
THEOREM TypeCorrect == Spec => []TypeOK
<1>1. Inv => TypeOK
  BY DEF Inv
<1> QED
  BY <1>1, Invariance, PTL

\* What a commit writes for a barcode.
LEMMA CommittedProducts ==
    ASSUME Inv, NEW i \in Importers, Commit(i), NEW d, d = imp[i].dump
    PROVE  /\ \A b \in Barcodes :
                 (\A k \in Kept(d) : d[k].code # b) => products'[b] = products[b]
           /\ \A k \in Kept(d) :
                 /\ d[k].code \in Barcodes
                 /\ products'[d[k].code] = [name |-> ProductName(d[k]),
                                            company |-> CompanyName(d[k])]
<1>1. /\ imp[i].pc = "commit" /\ Stands(imp[i]) /\ imp[i] \in Import
      /\ imp[i].dump \in Seq(Rows) /\ imp[i].staged \in Seq(Staged)
      /\ imp[i].next \in Nat /\ imp[i].next > Len(imp[i].staged)
      /\ products' = [b \in Barcodes |-> IF imp[i].put[b] = NULL THEN products[b]
                                         ELSE imp[i].put[b]]
  BY InvStands DEF Commit, At, Stands, Import, ProductsUpserted
<1>2. d \in Seq(Row)
  BY <1>1, ImportAssumption
<1>3. Range(imp[i].staged) = {StagedFor(d[k]) : k \in Kept(d)}
  <2>1. Items(imp[i]) = {StagedFor(d[k]) : k \in Kept(d)} /\ imp[i].batch = <<>>
    BY <1>1 DEF Stands, Streamed
  <2>2. Range(imp[i].batch) = {}
    BY <2>1 DEF Range
  <2> QED
    BY <2>1, <2>2 DEF Items
<1>4. Range(imp[i].staged) = {imp[i].staged[j] : j \in 1 .. Len(imp[i].staged)}
  BY <1>1 DEF Range
<1>5. \A b \in Barcodes :
         /\ imp[i].put[b] # NULL => \E j \in 1 .. Len(imp[i].staged) :
               /\ imp[i].staged[j].barcode = b
               /\ imp[i].put[b] = [name |-> imp[i].staged[j].name,
                                   company |-> imp[i].staged[j].company]
         /\ \A j \in 1 .. Len(imp[i].staged) : imp[i].staged[j].barcode = b => imp[i].put[b] # NULL
  BY <1>1 DEF Stands, ProductsUpserted
<1>6. \A k \in Kept(d) : d[k].code \in Barcodes
  <2>1. ASSUME NEW k \in Kept(d)
        PROVE  d[k].code \in Barcodes
    <3>1. k \in DOMAIN d /\ d[k].code # NULL
      BY DEF Kept, Counts
    <3>2. d[k] \in Row
      BY <1>2, <3>1
    <3> QED
      BY <3>1, <3>2 DEF Row
  <2> QED
    BY <2>1
<1>7. \A k : /\ StagedFor(d[k]).barcode = d[k].code
             /\ StagedFor(d[k]).name = ProductName(d[k])
             /\ StagedFor(d[k]).company = CompanyName(d[k])
  BY DEF StagedFor
<1>8. ASSUME NEW b \in Barcodes, imp[i].put[b] # NULL
      PROVE  \E k \in Kept(d) : /\ d[k].code = b
                               /\ imp[i].put[b] = [name |-> ProductName(d[k]),
                                                   company |-> CompanyName(d[k])]
  <2>1. PICK j \in 1 .. Len(imp[i].staged) :
           /\ imp[i].staged[j].barcode = b
           /\ imp[i].put[b] = [name |-> imp[i].staged[j].name,
                               company |-> imp[i].staged[j].company]
    BY <1>5, <1>8
  <2>2. PICK k \in Kept(d) : imp[i].staged[j] = StagedFor(d[k])
    BY <1>3, <1>4
  <2> QED
    BY <1>7, <2>1, <2>2
<1>9. ASSUME NEW b \in Barcodes, \A k \in Kept(d) : d[k].code # b
      PROVE  products'[b] = products[b]
  BY <1>1, <1>8, <1>9
<1>10. ASSUME NEW k \in Kept(d)
       PROVE  products'[d[k].code] = [name |-> ProductName(d[k]), company |-> CompanyName(d[k])]
  <2>1. PICK j \in 1 .. Len(imp[i].staged) : imp[i].staged[j] = StagedFor(d[k])
    BY <1>3, <1>4
  <2>2. imp[i].put[d[k].code] # NULL
    BY <1>5, <1>6, <1>7, <2>1
  <2>3. PICK l \in Kept(d) : /\ d[l].code = d[k].code
                             /\ imp[i].put[d[k].code] = [name |-> ProductName(d[l]),
                                                         company |-> CompanyName(d[l])]
    BY <1>6, <1>8, <2>2
  <2>4. l = k
    BY <1>2, <2>3, KeptOnce
  <2> QED
    BY <1>1, <1>6, <2>2, <2>3, <2>4
<1> QED
  BY <1>6, <1>9, <1>10

\* The companies that a commit writes are those of the rows that count, each with
\* what the community has made of it.
LEMMA CommittedCompanies ==
    ASSUME Inv, NEW i \in Importers, Commit(i), NEW d, d = imp[i].dump, NEW n \in Names
    PROVE  companies'[n] = IF \E k \in Kept(d) : CompanyName(d[k]) = n
                           THEN [normalized |-> TRUE, changes |-> changes[n]]
                           ELSE companies[n]
<1>1. /\ imp[i].pc = "commit" /\ Stands(imp[i])
      /\ companies' = [k \in Names |-> IF imp[i].wrote[k] = NULL THEN companies[k]
                                       ELSE imp[i].wrote[k]]
  BY InvStands DEF Commit, At
<1>2. /\ Items(imp[i]) = {StagedFor(d[k]) : k \in Kept(d)}
      /\ Range(imp[i].names) = {x.company : x \in Items(imp[i])}
      /\ imp[i].wrote[n] # NULL <=> n \in Range(imp[i].names)
      /\ imp[i].wrote[n] # NULL =>
            imp[i].wrote[n] = [normalized |-> TRUE, changes |-> changes[n]]
  BY <1>1 DEF Stands, Streamed, CompaniesUpserted, RowsAreCurrent
<1>3. \A k : StagedFor(d[k]).company = CompanyName(d[k])
  BY DEF StagedFor
<1>4. n \in Range(imp[i].names) <=> \E k \in Kept(d) : CompanyName(d[k]) = n
  BY <1>2, <1>3
<1> QED
  BY <1>1, <1>2, <1>4

LEMMA CommitIsReference ==
    ASSUME Inv, NEW i \in Importers, Commit(i), NEW d, d = imp[i].dump
    PROVE  IsReference(d)
<1>1. /\ \A b \in Barcodes :
            (\A k \in Kept(d) : d[k].code # b) => products'[b] = products[b]
      /\ \A k \in Kept(d) :
            products'[d[k].code] = [name |-> ProductName(d[k]), company |-> CompanyName(d[k])]
  BY CommittedProducts
<1>2. \A n \in Names :
         companies'[n] = IF \E k \in Kept(d) : CompanyName(d[k]) = n
                         THEN [normalized |-> TRUE, changes |-> changes[n]]
                         ELSE companies[n]
  BY CommittedCompanies
<1>3. ASSUME NEW k \in Kept(d)
      PROVE  products'[d[k].code].company = CompanyName(d[k])
  <2>1. PICK name, company : name = ProductName(d[k]) /\ company = CompanyName(d[k])
    OBVIOUS
  <2>2. products'[d[k].code] = [name |-> name, company |-> company]
    BY <1>1, <2>1
  <2> QED
    BY <2>1, <2>2
<1>4. ASSUME NEW b \in Barcodes, NEW k \in Kept(d), d[k].code = b
      PROVE  products'[b] =
                [name |-> IF d[k].product = NULL THEN NO_INFORMATION ELSE d[k].product,
                 company |-> IF d[k].company = NULL THEN Missing(b) ELSE d[k].company]
  BY <1>1, <1>4 DEF ProductName, CompanyName
<1>5. ASSUME NEW b \in Barcodes
      PROVE  IF \E k \in Kept(d) : d[k].code = b
             THEN \E k \in Kept(d) :
                     /\ d[k].code = b
                     /\ products'[b] =
                          [name |-> IF d[k].product = NULL THEN NO_INFORMATION
                                    ELSE d[k].product,
                           company |-> IF d[k].company = NULL THEN Missing(b)
                                       ELSE d[k].company]
             ELSE products'[b] = products[b]
  BY <1>1, <1>4
<1>6. ASSUME NEW n \in Names
      PROVE  companies'[n] =
               IF \E k \in Kept(d) : products'[d[k].code].company = n
               THEN [normalized |-> TRUE, changes |-> changes[n]]
               ELSE companies[n]
  BY <1>2, <1>3
<1> QED
  BY <1>5, <1>6 DEF IsReference, Kept

\* Whatever other imports and the community do meanwhile, an import that commits
\* has brought in exactly the rows that count, by keep-first deduplication, kept
\* the scores and counts of the companies, and touched nothing else.
THEOREM ImportsAreReference == Spec => ImportIsReference
<1>1. ASSUME Inv, NEW i \in Importers, Commit(i)
      PROVE  IsReference(imp[i].dump)
  BY <1>1, CommitIsReference
<1>2. Inv => [\A i \in Importers : Commit(i) => IsReference(imp[i].dump)]_vars
  BY <1>1
<1> QED
  BY <1>2, Invariance, PTL DEF ImportIsReference
=============================================================================
