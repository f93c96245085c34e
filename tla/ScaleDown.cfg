\* Two overlapping executions, a cluster of one that grows and shrinks; the second
\* instance joins in time or late.
SPECIFICATION Spec
CONSTANTS
    Vms = {1, 2}
    First = {1}
    Execs = {e1, e2}
    Sizes = {1, 2}
    Grace = 2
    ExecTime = 1
    MaxBatch = 2
SYMMETRY Symmetry
INVARIANTS TypeOK MemberIsKept
PROPERTIES ImplementsLife OnlyUnprotectedGo
