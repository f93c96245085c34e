----------------------------- MODULE MemberLife -----------------------------
(***************************************************************************)
(* What scaling promises to each instance of a cluster that is formed: it  *)
(* is created, joins, is a member until the cluster gives it up, and only  *)
(* then deleted.  That holds for guarded members: those that joined in     *)
(* time, and the founders that were protected.  The others can be lost.    *)
(* The instance group serves members, and lets go of what is deleted.      *)
(* ScaleDown implements this with executions that overlap, compare old     *)
(* lists and fail at any request.                                          *)
(***************************************************************************)
CONSTANTS
    Vms,
    First     \* the instances that formed the cluster

VARIABLES
    joining,    \* created, on the way into the cluster
    members,
    guarded,    \* the members that only the cluster can give up
    leftovers,  \* given up by the cluster, not yet deleted
    deleted,
    served      \* in the instance group

vars == <<joining, members, guarded, leftovers, deleted, served>>

Init ==
    /\ joining = {}
    /\ members = First
    /\ guarded \subseteq First
    /\ leftovers = {}
    /\ deleted = {}
    /\ served \subseteq First

\* Each instance is created once.
Create(v) ==
    /\ v \notin joining \cup members \cup leftovers \cup deleted
    /\ joining' = joining \cup {v}
    /\ UNCHANGED <<members, guarded, leftovers, deleted, served>>

Join(v) ==
    /\ v \in joining
    /\ joining' = joining \ {v}
    /\ members' = members \cup {v}
    /\ guarded' \in {guarded, guarded \cup {v}}
    /\ UNCHANGED <<leftovers, deleted, served>>

Serve(v) ==
    /\ v \in members
    /\ served' = served \cup {v}
    /\ UNCHANGED <<joining, members, guarded, leftovers, deleted>>

\* The cluster gives up nobody who is not served.
GiveUp(S) ==
    /\ S \subseteq members \cap served
    /\ members' = members \ S
    /\ guarded' = guarded \ S
    /\ leftovers' = leftovers \cup S
    /\ UNCHANGED <<joining, deleted, served>>

\* Nobody is deleted who is joining or a guarded member.
Delete(S) ==
    /\ S \cap (joining \cup guarded) = {}
    /\ S \subseteq members \cup leftovers
    /\ members' = members \ S
    /\ leftovers' = leftovers \ S
    /\ deleted' = deleted \cup S
    /\ UNCHANGED <<joining, guarded, served>>

Leave(v) ==
    /\ v \in deleted
    /\ served' = served \ {v}
    /\ UNCHANGED <<joining, members, guarded, leftovers, deleted>>

Next ==
    \/ \E v \in Vms : Create(v) \/ Join(v) \/ Serve(v) \/ Leave(v)
    \/ \E S \in SUBSET Vms : GiveUp(S) \/ Delete(S)

Spec == Init /\ [][Next]_vars
=============================================================================
