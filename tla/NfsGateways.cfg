CONSTANTS
    Gateways = {g1, g2, g3}
    Existing = {g1}
    Scalers = {s1}
    Target = 2
    GatewaysNum = 2
    PortsOf <- MCPortsOf
    Sizes = {3}
    Retries = 1
    None = None
SPECIFICATION FairSpec
INVARIANTS TypeOK ServedByInterfaceGroup MigratedIsCounted NoExtraGateways
    MigratedOnce
PROPERTIES  LockEventuallyFree
