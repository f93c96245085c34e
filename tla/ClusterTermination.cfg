CONSTANTS
    Names = {n1, n2, n3}
    Handlers = {h1}
    Scalers = {s1}
    Order <- BothKinds
    Size = 1
    Calls = 1
    Failures = 1
    None = None
SPECIFICATION FairSpec
INVARIANTS TypeOK
PROPERTIES StaysTerminated ClusterGoes
