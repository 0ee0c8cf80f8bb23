SPECIFICATION Spec
CONSTANTS
    Fibers = {f1, f2}
    s1 = s1
    s2 = s2
    s3 = s3
    Scopes = {s1, s2, s3}
    Kinds = {k1}
    NamedIds = {}
    AutoIds = {a1, a2, a3}
    Shareable = {}
    Declarations <- ChainDeclarations
    MaxGeneration = 0
    None = None
SYMMETRY Symmetry
PROPERTY ScopeDrained ChildrenFirst
CHECK_DEADLOCK FALSE
