------------------------------ MODULE ScaleDown ------------------------------
(***************************************************************************)
(* The scale_down workflow, once a cluster is formed: "fetch" collects the *)
(* instances of the instance group and the desired size, "scale_down" lets *)
(* the weka cluster give up members, and "terminate" deletes the instances *)
(* of the group that are no longer hosts of the cluster.                   *)
(*                                                                         *)
(* The list of hosts is old when "terminate" compares it with the group:   *)
(* an instance may have joined in between.  What keeps a member from being *)
(* taken for a leftover is its age, so this module has a clock.  Nothing   *)
(* bounds the age at which an instance joins; those that join so late that *)
(* their age does not spare them are remembered in "late".  Names are      *)
(* numbers here: they begin with the time of creation, and listings are    *)
(* ordered by name.                                                        *)
(***************************************************************************)
EXTENDS Naturals, FiniteSets

CONSTANTS
    Vms,       \* instance names in the order of their creation
    First,     \* the instances that formed the cluster
    Execs,     \* executions of the workflow that can overlap
    Sizes,     \* sizes an administrator asks resize for
    Grace,     \* 30 minutes: the age below which terminate spares an instance
    ExecTime,  \* 27 minutes: how long an execution takes, 9 for each function
    MaxBatch   \* 50: the most instances that one call of terminate deletes

ASSUME VmsAssumption ==
    /\ Vms \subseteq Nat
    /\ First \subseteq Vms
    /\ IsFiniteSet(Vms)
ASSUME TimeAssumption ==
    /\ Grace \in Nat /\ ExecTime \in Nat
    /\ ExecTime < Grace
ASSUME SizesAssumption == Sizes \subseteq Nat /\ MaxBatch \in Nat \ {0}

VARIABLES
    desired,    \* "desired_size" of the state object
    weka,       \* hosts of the weka cluster
    group,      \* members of the instance group
    protected,  \* instances with deletion protection
    status,     \* status of each instance
    age,        \* time since its creation
    exec,       \* the executions of the workflow
    late        \* history: who joined with an age that an execution can outlast

machines == <<protected, status, age, late>>
vars == <<desired, weka, group, machines, exec>>

Statuses == {"absent", "joining", "running", "suspended", "stopping", "gone"}
Exists(v) == status[v] \notin {"absent", "gone"}
Alive(v) == status[v] \in {"running", "suspended"}

\* An instance as "fetch" describes it: its address and a text made from the
\* pointer to its number.  "terminate" compares that text with the self link.
HgInstance(v) == [ip |-> v, id |-> <<"pointer", v>>]
SelfLink(v) == <<"link", v>>

Off == [at |-> "off", time |-> 0, desired |-> 0, hosts |-> {}, remove |-> {},
        names |-> {}]

ExecType == [at : {"off", "fetched", "scaled", "listed", "checked", "picked",
                   "unprotected"},
             time : 0 .. ExecTime,
             desired : Nat,
             hosts : SUBSET Vms,
             remove : SUBSET {HgInstance(v) : v \in Vms},
             names : SUBSET Vms]

TypeOK ==
    /\ desired \in Nat
    /\ weka \subseteq Vms /\ group \subseteq Vms /\ protected \subseteq Vms
    /\ status \in [Vms -> Statuses]
    /\ age \in [Vms -> 0 .. Grace]
    /\ exec \in [Execs -> ExecType]
    /\ late \subseteq Vms

\* A cluster has been formed and finalized.  "clusterize" leaves an instance in
\* the list when its protection fails, so founders can be unprotected, except the
\* one that completed the list; a truncated listing leaves some out of the group.
Init ==
    /\ desired = Cardinality(First)
    /\ weka = First
    /\ group \in SUBSET First \ {{}}
    /\ protected \in SUBSET First \ {{}}
    /\ status = [v \in Vms |-> IF v \in First THEN "running" ELSE "absent"]
    /\ age = [v \in Vms |-> IF v \in First THEN Grace ELSE 0]
    /\ exec = [e \in Execs |-> Off]
    /\ late = {}

\* Variants that the runs reject: instances are spared for a shorter time, the
\* deletion protection is not removed, functions have no time limit, and a
\* suspended member is deleted in spite of its protection.
OldSoon(v) == age[v] + 1 >= Grace
LeftProtected(e, failed) == {}
NoTimeLimit(e) == TRUE
SuspendedAny == {v \in group : status[v] = "suspended"}

------------------------------------------------------------------------------
(* Instances come and fail, time passes                                     *)

SetStatus(v, from, to) ==
    /\ status[v] = from
    /\ status' = [status EXCEPT ![v] = to]
    /\ UNCHANGED <<desired, age, exec>>

\* scale_up
Create(v) ==
    /\ Cardinality({u \in Vms : Exists(u)}) < desired
    /\ \A u \in Vms : u < v => status[u] # "absent"
    /\ SetStatus(v, "absent", "joining")
    /\ UNCHANGED <<weka, group, protected, late>>

\* The join script, at any age.
Join(v) ==
    /\ SetStatus(v, "joining", "running")
    /\ weka' = weka \cup {v}
    /\ late' = IF age[v] + ExecTime < Grace THEN late ELSE late \cup {v}
    /\ UNCHANGED <<group, protected>>

\* join_finalization, called by an instance that joined: SetDeletionProtection,
\* then AddInstancesToGroup.  Either may fail, and is not tried again then.
Protect(v) ==
    /\ v \in weka \ (First \cup group)
    /\ Alive(v) /\ v \notin protected
    /\ protected' = protected \cup {v}
    /\ UNCHANGED <<desired, weka, group, status, age, exec, late>>

AddToGroup(v) ==
    /\ v \in (weka \cap protected) \ (First \cup group)
    /\ Alive(v)
    /\ group' = group \cup {v}
    /\ UNCHANGED <<desired, weka, machines, exec>>

Suspend(v) ==
    /\ SetStatus(v, "running", "suspended")
    /\ UNCHANGED <<weka, group, protected, late>>

\* A deleted instance leaves its group.
Vanish(v) ==
    /\ SetStatus(v, "stopping", "gone")
    /\ group' = group \ {v}
    /\ UNCHANGED <<weka, protected, late>>

Resize(size) ==
    /\ desired' = size
    /\ UNCHANGED <<weka, group, machines, exec>>

\* Each of the three functions has a time limit (540 seconds), and so has the
\* execution.
InTime(e) == exec[e].time < ExecTime

Tick ==
    /\ \A e \in Execs : exec[e].at # "off" => InTime(e)
    /\ age' = [v \in Vms |-> IF Exists(v) /\ age[v] < Grace
                               THEN age[v] + 1 ELSE age[v]]
    /\ exec' = [e \in Execs |-> IF exec[e].at = "off" THEN Off
                                ELSE [exec[e] EXCEPT !.time = @ + 1]]
    /\ UNCHANGED <<desired, weka, group, protected, status, late>>

------------------------------------------------------------------------------
(* fetch and scale_down                                                     *)

Advance(e, from, to) ==
    /\ exec[e].at = from
    /\ exec' = [exec EXCEPT ![e] = to]

\* FetchHostGroupInfo: the group is listed by GetInstanceGroupInstanceNames and
\* GetInstances, whose listings end unnoticed at an error.
Present == {v \in group : Exists(v)}

Fetch(e, names) ==
    /\ Advance(e, "off", [Off EXCEPT !.at = "fetched", !.desired = desired,
                                     !.names = names])
    /\ names \subseteq Present
    /\ UNCHANGED <<desired, weka, group, machines>>

\* The weka cluster gives up hosts that are down, and fetched hosts beyond the size
\* that was fetched; the answer lists all hosts that it keeps, fetched or not.
GiveUp(e, hosts) ==
    /\ Advance(e, "fetched",
               [exec[e] EXCEPT !.at = "scaled", !.desired = 0, !.hosts = hosts,
                               !.names = {},
                               !.remove = {HgInstance(v) : v \in weka \ hosts}])
    /\ hosts # {}
    /\ \A v \in weka \ hosts : v \in exec[e].names \/ ~Alive(v)
    /\ \/ Cardinality(hosts) >= exec[e].desired
       \/ \A v \in weka \ hosts : status[v] # "running"
    /\ weka' = hosts
    /\ UNCHANGED <<desired, group, machines>>

\* The cluster names no hosts.
AnswerEmpty(e) ==
    /\ Advance(e, "fetched", [exec[e] EXCEPT !.at = "scaled", !.desired = 0,
                                             !.hosts = {}, !.names = {}])
    /\ UNCHANGED <<desired, weka, group, machines>>

------------------------------------------------------------------------------
(* terminate                                                                *)

\* "hosts list must not be empty"
HostsGiven(e) == exec[e].hosts # {}

RefuseEmpty(e) ==
    /\ ~HostsGiven(e)
    /\ Advance(e, "scaled", Off)
    /\ UNCHANGED <<desired, weka, group, machines>>

\* GetInstanceGroupInstanceNames: an error of the listing ends it unnoticed.
ListGroup(e, names) ==
    /\ HostsGiven(e)
    /\ names \subseteq group
    /\ Advance(e, "scaled", [exec[e] EXCEPT !.at = "listed", !.names = names])
    /\ UNCHANGED <<desired, weka, group, machines>>

\* TerminateUnhealthyInstances deletes suspended instances of the group, which
\* is refused for protected ones; errors are only reported.
Suspended == {v \in group \ protected : status[v] = "suspended"}

TerminateUnhealthy(e) ==
    /\ Advance(e, "listed", [exec[e] EXCEPT !.at = "checked"])
    /\ \E deleted \in SUBSET Suspended :
         status' = [v \in Vms |-> IF v \in deleted THEN "stopping" ELSE status[v]]
    /\ UNCHANGED <<desired, weka, group, protected, age, late>>

SetForExplicitRemoval(e, v) ==
    \E i \in exec[e].remove : i.ip = v /\ i.id = SelfLink(v)

OldEnough(v) == age[v] >= Grace

\* getDeltaInstancesIds, terminateUnneededInstances
Unneeded(e) ==
    {v \in exec[e].names \ exec[e].hosts :
        /\ Alive(v)
        /\ SetForExplicitRemoval(e, v) \/ OldEnough(v)}

\* The first 50 in the order of the listing.
FirstOf(S) == {v \in S : Cardinality({u \in S : u < v}) < MaxBatch}

\* The listings of instances may end early, too.
Pick(e, listed) ==
    /\ Advance(e, "checked",
               [exec[e] EXCEPT !.at = "picked", !.hosts = {}, !.remove = {},
                               !.names = FirstOf(listed)])
    /\ listed \subseteq Unneeded(e)
    /\ UNCHANGED <<desired, weka, group, machines>>

\* UnsetDeletionProtection for each; an error is forgotten.
Unprotected(e, failed) == exec[e].names \ failed

Unprotect(e, failed) ==
    /\ failed \subseteq exec[e].names
    /\ Advance(e, "picked", [exec[e] EXCEPT !.at = "unprotected"])
    /\ protected' = protected \ Unprotected(e, failed)
    /\ UNCHANGED <<desired, weka, group, status, age, late>>

Deletable(e) == {v \in exec[e].names \ protected : Exists(v)}

\* TerminateInstances
Delete(e, failed) ==
    /\ failed \subseteq exec[e].names
    /\ Advance(e, "unprotected", Off)
    /\ status' = [v \in Vms |-> IF v \in Deletable(e) \ failed
                                  THEN "stopping" ELSE status[v]]
    /\ UNCHANGED <<desired, weka, group, protected, age, late>>

\* An error of a request, or the time limit of a function, ends the execution.
ExecFails(e) ==
    /\ exec[e].at # "off"
    /\ exec' = [exec EXCEPT ![e] = Off]
    /\ UNCHANGED <<desired, weka, group, machines>>

------------------------------------------------------------------------------

VmStep(v) ==
    \/ Create(v) \/ Join(v) \/ Protect(v) \/ AddToGroup(v)
    \/ Suspend(v) \/ Vanish(v)

ExecStep(e) ==
    \/ AnswerEmpty(e) \/ RefuseEmpty(e)
    \/ TerminateUnhealthy(e) \/ ExecFails(e)
    \/ \E hosts \in SUBSET weka : GiveUp(e, hosts)
    \/ \E failed \in SUBSET exec[e].names : Unprotect(e, failed) \/ Delete(e, failed)

\* Listings are complete, or not.
CompleteStep(e) ==
    Fetch(e, Present) \/ ListGroup(e, group) \/ Pick(e, Unneeded(e))

TruncatedStep(e) ==
    \/ \E names \in SUBSET Present \ {Present} : Fetch(e, names)
    \/ \E names \in SUBSET group \ {group} : ListGroup(e, names)
    \/ \E listed \in SUBSET Unneeded(e) \ {Unneeded(e)} : Pick(e, listed)

SteadyNext ==
    \/ \E v \in Vms : VmStep(v)
    \/ \E e \in Execs : ExecStep(e) \/ CompleteStep(e)
    \/ \E size \in Sizes : Resize(size)
    \/ Tick

Next == SteadyNext \/ \E e \in Execs : TruncatedStep(e)

Spec == Init /\ [][Next]_vars

\* The scheduler starts the workflow again and again.  Its requests may fail, but
\* not every time at the same place.  Time passes, deletions are carried out.
\* Listings are complete: otherwise each of the two could omit the same instance
\* in turn.
Fairness ==
    /\ WF_vars(\E v \in Vms : Vanish(v))
    /\ \A e \in Execs :
         /\ WF_vars(Fetch(e, Present) \/ RefuseEmpty(e))
         /\ SF_vars(\E hosts \in SUBSET weka : GiveUp(e, hosts))
         /\ SF_vars(ListGroup(e, group))
         /\ SF_vars(TerminateUnhealthy(e))
         /\ SF_vars(Pick(e, Unneeded(e)))
         /\ SF_vars(Unprotect(e, {}))
         /\ SF_vars(Delete(e, {}))
    /\ SF_vars(Tick)

FairSpec == Init /\ [][SteadyNext]_vars /\ Fairness

------------------------------------------------------------------------------
(* Properties                                                               *)

\* What no execution does to a member, however old its lists are: one that joined
\* in time is not deleted, and in the group it has its deletion protection; a
\* founder is deleted only if "clusterize" failed to protect it.
MemberIsKept ==
    \A v \in weka \ late :
        /\ v \notin First => Alive(v) /\ (v \in group => v \in protected)
        /\ v \in First /\ ~Alive(v) => v \notin protected

\* Protection is for good, and without it only the suspended go: no step takes it
\* from a member that did not join late, and the only way to delete such a member
\* is to find it unprotected and suspended in the group, which happens to founders.
\* In particular terminate never takes a running member for a leftover.
OnlyUnprotectedGo ==
    [][\A v \in weka \ late :
         /\ v \in protected => v \in protected'
         /\ Alive(v) /\ ~Alive(v)' => /\ v \in (First \cap group) \ protected
                                     /\ status[v] = "suspended"]_vars

\* Each instance has the life that MemberLife promises; guarded there are the
\* members that joined in time and the founders that are protected.
Life == INSTANCE MemberLife WITH
    joining <- {v \in Vms : status[v] = "joining"},
    members <- {v \in weka : Alive(v)},
    guarded <- {v \in weka \ late : v \in First => v \in protected},
    leftovers <- {v \in Vms \ weka : Alive(v)},
    deleted <- {v \in Vms : status[v] \in {"stopping", "gone"}},
    served <- group

ImplementsLife == Life!Spec

\* "change the cluster size (up or down)": whenever the group has instances that
\* the cluster has given up, it comes to have members only, because each of them is
\* deleted in the end, whichever requests fail and however often terminate deletes
\* only a part of them.
LeftoversGo == group \ weka # {} ~> group \subseteq weka
==============================================================================
