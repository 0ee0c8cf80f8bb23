SPECIFICATION Spec
CONSTANTS
    Fibers = {f1, f2}
    s1 = s1
    s2 = s2
    s3 = s3
    Scopes = {s1}
    Kinds = {k1, k2}
    NamedIds = {n1}
    AutoIds = {a1, a2}
    Shareable = {n1, a1, a2}
    Declarations <- NoDeclarations
    MaxGeneration = 2
    None = None
SYMMETRY Symmetry
INVARIANTS TypeOK CleanedUpOnce
PROPERTY StaleStaysStale
CHECK_DEADLOCK FALSE
