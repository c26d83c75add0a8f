----------------------------- MODULE DumpImport -----------------------------
(***************************************************************************)
(* The import of the Open Food Facts dump (app/collector): a stream of     *)
(* rows is cleaned, deduplicated and staged, and two upserts bring the     *)
(* tables companies and products up to date, all in one transaction.       *)
(*                                                                         *)
(* Nothing keeps two imports from overlapping, and the community goes on   *)
(* reporting, voting and recalculating while one runs.                     *)
(***************************************************************************)
EXTENDS Integers, Sequences, FiniteSets, SequencesExt

CONSTANTS
    Importers,      \* processes that run the import
    Barcodes,       \* strings of 13 digits, by str.isdigit
    KeyOf,          \* barcode -> int(barcode), or NULL where int raises: isdigit
                    \* accepts digits of any script, and some that are no decimals
    Brands,         \* company names that a dump may hold
    Old,            \* companies from before the column name_normalized was added
    Titles,         \* product names that a dump may hold
    Rows,           \* rows that a dump may consist of
    MaxRows,        \* bound: rows of a dump
    BatchSize,      \* 5000
    MaxImports,     \* bound: imports ever started
    MaxChanges,     \* bound: changes to each company by the community
    NO_INFORMATION,
    NULL

\* The columns of a row that are read, blanks stripped and the first one that is
\* not empty taken.  No code: it is not 13 digits long.
Row == [code    : Barcodes \cup {NULL},
        product : Titles \cup {NULL},
        company : Brands \cup {NULL}]

ASSUME ImportAssumption ==
    /\ Rows \subseteq Row /\ Old \subseteq Brands
    /\ KeyOf \in [Barcodes -> Nat \cup {NULL}]
    /\ {MaxRows, MaxImports, MaxChanges} \subseteq Nat /\ BatchSize \in Nat \ {0}
    /\ NULL \notin Barcodes \cup Titles \cup Brands \cup Nat
    /\ NO_INFORMATION \notin Titles \cup {NULL}

\* The name of the company that stands in for a missing one.
Missing(barcode) == <<"__missing_company__:", barcode>>

Names == Brands \cup {Missing(b) : b \in Barcodes}

\* name_normalized depends on the name alone: it is what python_normalize_name
\* makes of it, or not (the column was added empty).  changes stands for the
\* community's columns, ethical_score and top_level_report_count.
Company == [normalized : BOOLEAN, changes : Nat]
Product == [name : Titles \cup {NO_INFORMATION}, company : Names]
Staged  == [barcode : Barcodes, name : Titles \cup {NO_INFORMATION}, company : Names]

ASSUME RowAssumption == NULL \notin Company \cup Product

VARIABLES
    companies,      \* name -> row, or NULL
    products,       \* barcode -> row, or NULL
    imp,            \* importer -> its variables, staging tables and transaction
    wanted,         \* companies that a handler or a worker is about to update
    imports,        \* imports started so far
    changes         \* history: name -> updates by the community

vars == <<companies, products, imp, wanted, imports, changes>>

Import == [pc       : {"idle", "read", "companies", "products", "commit"},
           dump     : Seq(Rows),        \* history: the rows read
           seen     : SUBSET Nat,       \* seen_barcodes
           names    : Seq(Names),       \* companies_normalized
           batch    : Seq(Staged),
           staged   : Seq(Staged),      \* stage_products
           next     : Nat,              \* the staged row that the upsert is at
           wrote    : [Names -> Company \cup {NULL}],     \* rows upserted, not committed
           put      : [Barcodes -> Product \cup {NULL}]]

Idle == [pc |-> "idle", dump |-> <<>>, seen |-> {}, names |-> <<>>, batch |-> <<>>,
         staged |-> <<>>, next |-> 1,
         wrote |-> [n \in Names |-> NULL], put |-> [b \in Barcodes |-> NULL]]

At(i, stages) == imp[i].pc \in stages

\* ON CONFLICT DO UPDATE locks every row it meets, also those that its WHERE then
\* leaves alone, and an inserted row is waited for like a locked one.
CompanyFree(n)    == \A i \in Importers : imp[i].wrote[n] = NULL
ProductFree(i, b) == \A j \in Importers \ {i} : imp[j].put[b] = NULL

-----------------------------------------------------------------------------
(* Streaming *)

Start(i) ==
    /\ At(i, {"idle"})
    /\ imports < MaxImports
    /\ imports' = imports + 1
    /\ imp' = [imp EXCEPT ![i].pc = "read"]
    /\ UNCHANGED <<companies, products, wanted, changes>>

Arrives(i, r) == At(i, {"read"}) /\ Len(imp[i].dump) < MaxRows /\ r \in Rows

\* The barcode is not 13 digits, or another row with its number came first.
SkipRow(i, r) ==
    /\ Arrives(i, r)
    /\ r.code # NULL => KeyOf[r.code] \in imp[i].seen
    /\ imp' = [imp EXCEPT ![i].dump = Append(@, r)]
    /\ UNCHANGED <<companies, products, wanted, imports, changes>>

\* int() raises ValueError, and the whole import is rolled back.
Unreadable(i, r) ==
    /\ Arrives(i, r)
    /\ r.code # NULL /\ KeyOf[r.code] = NULL
    /\ imp' = [imp EXCEPT ![i] = Idle]
    /\ UNCHANGED <<companies, products, wanted, imports, changes>>

\* normalize_company_name
CompanyName(r) == IF r.company = NULL THEN Missing(r.code) ELSE r.company

\* Fault: a missing name is staged as it is.
ProductName_Raw(r) == r.product

\* normalize_product_name
ProductName(r) == IF r.product = NULL THEN NO_INFORMATION ELSE r.product

\* Full batches are copied into stage_products.
KeepRow(i, r) ==
    LET name  == CompanyName(r)
        batch == Append(imp[i].batch,
                        [barcode |-> r.code, name |-> ProductName(r), company |-> name])
        full  == Len(batch) >= BatchSize
    IN  /\ Arrives(i, r)
        /\ r.code # NULL /\ KeyOf[r.code] \notin imp[i].seen \cup {NULL}
        /\ imp' = [imp EXCEPT
              ![i].dump = Append(@, r),
              ![i].seen = @ \cup {KeyOf[r.code]},
              ![i].names = IF Contains(@, name) THEN @ ELSE Append(@, name),
              ![i].batch = IF full THEN <<>> ELSE batch,
              ![i].staged = IF full THEN @ \o batch ELSE @]
        /\ UNCHANGED <<companies, products, wanted, imports, changes>>

\* The stream ends; the last batch and the names of the companies are copied.
ReadEnd(i) ==
    /\ At(i, {"read"})
    /\ imp' = [imp EXCEPT ![i].pc = "companies", ![i].batch = <<>>,
                          ![i].staged = @ \o imp[i].batch]
    /\ UNCHANGED <<companies, products, wanted, imports, changes>>

-----------------------------------------------------------------------------
(* Upserts: row by row, since each row may have to be waited for *)

\* Fault: the conflicting row is replaced by the one with a score of 0.
Upserted_Replaced(n) == [normalized |-> TRUE, changes |-> 0]

\* INSERT INTO companies ... ON CONFLICT (name) DO UPDATE SET name_normalized
Upserted(n) ==
    IF companies[n] = NULL
    THEN [normalized |-> TRUE, changes |-> 0]
    ELSE [companies[n] EXCEPT !.normalized = TRUE]

UpsertCompany(i) ==
    LET n == imp[i].names[imp[i].next]
    IN  /\ At(i, {"companies"})
        /\ imp[i].next <= Len(imp[i].names)
        /\ CompanyFree(n)
        /\ imp' = [imp EXCEPT ![i].next = @ + 1,
                              ![i].wrote[n] = Upserted(n)]
        /\ UNCHANGED <<companies, products, wanted, imports, changes>>

CompaniesDone(i) ==
    /\ At(i, {"companies"})
    /\ imp[i].next > Len(imp[i].names)
    /\ imp' = [imp EXCEPT ![i].pc = "products", ![i].next = 1]
    /\ UNCHANGED <<companies, products, wanted, imports, changes>>

\* INSERT INTO products ... SELECT ... JOIN companies ON the name: every staged
\* name is there, upserted by this transaction.
UpsertProduct(i) ==
    LET row == imp[i].staged[imp[i].next]
        b   == row.barcode
    IN  /\ At(i, {"products"})
        /\ imp[i].next <= Len(imp[i].staged)
        /\ imp[i].wrote[row.company] # NULL
        /\ ProductFree(i, b)
        /\ imp' = [imp EXCEPT ![i].next = @ + 1,
                              ![i].put[b] = [name |-> row.name, company |-> row.company]]
        /\ UNCHANGED <<companies, products, wanted, imports, changes>>

ProductsDone(i) ==
    /\ At(i, {"products"})
    /\ imp[i].next > Len(imp[i].staged)
    /\ imp' = [imp EXCEPT ![i].pc = "commit"]
    /\ UNCHANGED <<companies, products, wanted, imports, changes>>

\* The commit, which drops the staging tables.  VACUUM changes no row.
Commit(i) ==
    /\ At(i, {"commit"})
    /\ companies' = [n \in Names |-> IF imp[i].wrote[n] = NULL THEN companies[n]
                                     ELSE imp[i].wrote[n]]
    /\ products' = [b \in Barcodes |-> IF imp[i].put[b] = NULL THEN products[b]
                                       ELSE imp[i].put[b]]
    /\ imp' = [imp EXCEPT ![i] = Idle]
    /\ UNCHANGED <<wanted, imports, changes>>

\* Fault: the exception is caught inside the transaction, which stays open.
Fail_Caught(i) ==
    /\ ~At(i, {"idle"})
    /\ imp' = [imp EXCEPT ![i].pc = "idle"]
    /\ UNCHANGED <<companies, products, wanted, imports, changes>>

\* The stream breaks off, the database is gone or the process is killed: an
\* exception that nobody catches, and the transaction is rolled back.
Fail(i) ==
    /\ ~At(i, {"idle"})
    /\ imp' = [imp EXCEPT ![i] = Idle]
    /\ UNCHANGED <<companies, products, wanted, imports, changes>>

\* i waits for a row that j has upserted.
WaitsFor(i, j) ==
    \/ /\ At(i, {"companies"}) /\ imp[i].next <= Len(imp[i].names)
       /\ imp[j].wrote[imp[i].names[imp[i].next]] # NULL
    \/ /\ At(i, {"products"}) /\ imp[i].next <= Len(imp[i].staged)
       /\ imp[j].put[imp[i].staged[imp[i].next].barcode] # NULL

\* Fault: after a deadlock the statement is tried again, the rows still locked.
Victim_Retry(i, j) ==
    /\ i # j /\ WaitsFor(i, j) /\ WaitsFor(j, i)
    /\ UNCHANGED vars

\* Two imports that stage rows in different orders may wait for each other.
\* PostgreSQL ends one of them.
Victim(i, j) ==
    /\ i # j /\ WaitsFor(i, j) /\ WaitsFor(j, i)
    /\ imp' = [imp EXCEPT ![i] = Idle]
    /\ UNCHANGED <<companies, products, wanted, imports, changes>>

-----------------------------------------------------------------------------
(* The community *)

\* A handler or a worker is about to update the score or the count of a company.
Want(n) ==
    /\ companies[n] # NULL /\ n \notin wanted
    /\ changes[n] < MaxChanges
    /\ wanted' = wanted \cup {n}
    /\ UNCHANGED <<companies, products, imp, imports, changes>>

\* Its UPDATE, which waits for the row, and its commit.
Change(n) ==
    /\ n \in wanted
    /\ CompanyFree(n)
    /\ companies' = [companies EXCEPT ![n].changes = @ + 1]
    /\ changes' = [changes EXCEPT ![n] = @ + 1]
    /\ wanted' = wanted \ {n}
    /\ UNCHANGED <<products, imp, imports>>

-----------------------------------------------------------------------------
Init ==
    /\ companies = [n \in Names |-> IF n \in Old THEN [normalized |-> FALSE, changes |-> 0]
                                    ELSE NULL]
    /\ products = [b \in Barcodes |-> NULL]
    /\ imp = [i \in Importers |-> Idle]
    /\ wanted = {}
    /\ imports = 0
    /\ changes = [n \in Names |-> 0]

ReadRow(i) == \E r \in Rows : SkipRow(i, r) \/ Unreadable(i, r) \/ KeepRow(i, r)

Step(i) ==
    \/ ReadRow(i) \/ ReadEnd(i)
    \/ UpsertCompany(i) \/ CompaniesDone(i) \/ UpsertProduct(i) \/ ProductsDone(i)
    \/ Commit(i)

Next ==
    \/ \E i \in Importers : Start(i) \/ Step(i) \/ Fail(i) \/ \E j \in Importers : Victim(i, j)
    \/ \E n \in Names : Want(n) \/ Change(n)

Spec == Init /\ [][Next]_vars

\* The process runs on, the rows it waits for are handed on by PostgreSQL, whose
\* deadlock detector runs after a second; failures and arrivals are not fair.
Fairness ==
    /\ \A i \in Importers : WF_vars(Step(i))
    /\ \A i, j \in Importers : WF_vars(Victim(i, j))
    /\ \A n \in Names : WF_vars(Change(n))

FairSpec == Spec /\ Fairness

-----------------------------------------------------------------------------
(* Properties *)

TypeOK ==
    /\ companies \in [Names -> Company \cup {NULL}]
    /\ products \in [Barcodes -> Product \cup {NULL}]
    /\ imp \in [Importers -> Import]
    /\ wanted \subseteq {n \in Names : companies[n] # NULL}
    /\ imports \in 0 .. MaxImports
    /\ changes \in [Names -> Nat]

\* What an import of the dump d is to do, said without streams, batches or
\* staging: of the rows with one number the first counts.
Counts(d, k) ==
    /\ d[k].code # NULL
    /\ \A j \in 1 .. k - 1 : d[j].code = NULL \/ KeyOf[d[j].code] # KeyOf[d[k].code]

IsReference(d) ==
    LET rows == {k \in DOMAIN d : Counts(d, k)}
    IN  /\ \A b \in Barcodes :
              IF \E k \in rows : d[k].code = b
              THEN \E k \in rows :
                      /\ d[k].code = b
                      /\ products'[b] =
                           [name |-> IF d[k].product = NULL THEN NO_INFORMATION
                                     ELSE d[k].product,
                            company |-> IF d[k].company = NULL THEN Missing(b)
                                        ELSE d[k].company]
              ELSE products'[b] = products[b]
        /\ \A n \in Names :
              companies'[n] =
                IF \E k \in rows : products'[d[k].code].company = n
                THEN [normalized |-> TRUE, changes |-> changes[n]]
                ELSE companies[n]

\* An import that commits has brought in exactly the rows that count, whatever
\* other imports and the community did meanwhile, and touches nothing else.
ImportIsReference ==
    [][\A i \in Importers : Commit(i) => IsReference(imp[i].dump)]_vars

\* Every import comes to an end, with its commit or without.
ImportEnds == \A i \in Importers : imp[i].pc # "idle" ~> imp[i].pc = "idle"

\* A handler or worker that waits for a company which an import has locked gets
\* through: the locks of even a long import are released.
UpdatesGetThrough == \A n \in Names : n \in wanted ~> n \notin wanted
=============================================================================
