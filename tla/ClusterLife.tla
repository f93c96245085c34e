----------------------------- MODULE ClusterLife -----------------------------
(***************************************************************************)
(* What the functions promise about the life of one cluster (INFO.md): its *)
(* credentials are made once, then all its first instances form it at      *)
(* once; its members are served by an instance group; from the moment it   *)
(* is called clusterized, more members join.  Clusterization implements    *)
(* this with handlers that are interleaved, fail and are called again.     *)
(***************************************************************************)
EXTENDS Naturals, FiniteSets

CONSTANTS
    Vms,
    Size,     \* how many instances form the cluster
    None

VARIABLES
    phase,        \* "empty", "formed", "open" (clusterized)
    credentials,  \* the instance for whose cluster they were made, or None
    members,
    served        \* members in the instance group

vars == <<phase, credentials, members, served>>

Init ==
    /\ phase = "empty"
    /\ credentials = None
    /\ members = {}
    /\ served = {}

MakeCredentials(v) ==
    /\ phase = "empty" /\ credentials = None
    /\ credentials' = v
    /\ UNCHANGED <<phase, members, served>>

Form(S) ==
    /\ phase = "empty" /\ credentials \in S
    /\ Cardinality(S) = Size
    /\ phase' = "formed"
    /\ members' = S
    /\ UNCHANGED <<credentials, served>>

Serve(S) ==
    /\ S \subseteq members
    /\ served' = served \cup S
    /\ UNCHANGED <<phase, credentials, members>>

\* No cluster is called clusterized while nobody is served.
Open ==
    /\ phase = "formed" /\ served # {}
    /\ phase' = "open"
    /\ UNCHANGED <<credentials, members, served>>

Join(v) ==
    /\ phase = "open"
    /\ members' = members \cup {v}
    /\ UNCHANGED <<phase, credentials, served>>

Next ==
    \/ \E v \in Vms : MakeCredentials(v) \/ Join(v)
    \/ \E S \in SUBSET Vms : Form(S) \/ Serve(S)
    \/ Open

Spec == Init /\ [][Next]_vars
==============================================================================
