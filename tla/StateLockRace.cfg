CONSTANTS
    Invocations = {i1, i2, i3}
    Generations = {1, 2, 3, 4, 5}
    Timeout = 1
    Stale = 1
    None = None
SPECIFICATION Spec
PROPERTIES DeletesOnlyLeftovers
