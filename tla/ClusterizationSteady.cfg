CONSTANTS
    Vms = {v1, v2, v3}
    Scalers = {s1, s2}
    Target = 2
    HostsNum = 2
    Sizes = {}
    Retries = 0
    None = None
SPECIFICATION SteadySpec
PROPERTIES ClusterComes
