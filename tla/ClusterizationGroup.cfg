CONSTANTS
    Vms = {v1, v2, v3}
    Scalers = {s1}
    Target = 2
    HostsNum = 2
    Sizes = {}
    Retries = 1
    None = None
SPECIFICATION Spec
PROPERTIES ClusterizedIsInGroup
