SPECIFICATION FairSpec
CONSTANTS
    Fibers = {f1, f2}
    s1 = s1
    s2 = s2
    s3 = s3
    Scopes = {s1}
    Kinds = {k1}
    NamedIds = {n1}
    AutoIds = {a1}
    Shareable = {n1, a1}
    Declarations <- NoDeclarations
    MaxGeneration = 2
    None = None
PROPERTY ImplementsLifetime CleanupHappens OperationsReturn
CHECK_DEADLOCK FALSE
