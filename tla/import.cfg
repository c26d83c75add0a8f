SPECIFICATION FairSpec
CONSTANTS
    Importers = {i1, i2}
    b1 = b1
    b1x = b1x
    b2 = b2
    bx = bx
    A = A
    B = B
    t1 = t1
    t2 = t2
    Barcodes = {b1, b1x, b2, bx}
    KeyOf <- MCKeyOf
    Brands = {A, B}
    Old = {A}
    Titles = {t1, t2}
    Rows <- MCRows
    MaxRows = 2
    BatchSize = 2
    MaxImports = 2
    MaxChanges = 1
    NO_INFORMATION = NO_INFORMATION
    NULL = NULL
INVARIANT TypeOK
PROPERTIES
    ImportIsReference
    ImportEnds
    UpdatesGetThrough
\* When the bounded imports and changes are used up nothing is left to do.
CHECK_DEADLOCK FALSE
