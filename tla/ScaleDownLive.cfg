\* Two founders, one of which may be unprotected or not in the group; the cluster
\* shrinks to one, a third instance replaces one that is lost, and one call of
\* terminate deletes one instance.
SPECIFICATION FairSpec
CONSTANTS
    Vms = {1, 2, 3}
    First = {1, 2}
    Execs = {e1}
    Sizes = {1}
    Grace = 1
    ExecTime = 0
    MaxBatch = 1
 
PROPERTIES OnlyUnprotectedGo LeftoversGo
