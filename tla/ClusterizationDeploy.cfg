CONSTANTS
    Vms = {v1, v2}
    Scalers = {s1}
    Target = 2
    HostsNum = 2
    Sizes = {}
    Retries = 0
    None = None
SPECIFICATION FairSpec
PROPERTIES FailedDeployIsDeleted
