CONSTANTS
    Vms = {v1, v2, v3, v4}
    Scalers = {s1}
    Target = 2
    HostsNum = 2
    Sizes = {3}
    Retries = 1
    None = None
SPECIFICATION Spec
SYMMETRY Symmetry
INVARIANTS TypeOK NoOvershoot GroupIsInCluster ClusterizedIsFormed StatusNamesFormer
PROPERTIES PasswordSetOnce ImplementsLife
