---------------------------- MODULE Clusterization ----------------------------
(***************************************************************************)
(* How a cluster of backend instances comes into being and grows.          *)
(*                                                                         *)
(* The scale_up workflow creates instances until there are desired_size.   *)
(* Each one runs the script it gets from "deploy" and calls "clusterize",  *)
(* which adds it to the list in the state object; the one that completes   *)
(* the list gets the script that forms the weka cluster, and calls         *)
(* "clusterize_finalization" when that is done.  Instances that come later *)
(* get a join script and call "join_finalization".  Instances that do not  *)
(* fit are terminated.                                                     *)
(*                                                                         *)
(* Operations on the state object are bracketed by its lock (StateLock),   *)
(* so each is one step here, except clusterize_finalization, which keeps   *)
(* the lock while it talks to other services.  Instances call the function *)
(* with "curl --retry 10": a call whose answer is lost is made again.      *)
(***************************************************************************)
EXTENDS Naturals, Sequences, FiniteSets, Functions

CONSTANTS
    Vms,        \* instance names; each is used once
    Scalers,    \* scale_up workflow executions that can overlap
    Target,     \* cluster_size: clusterization_target and first desired_size
    HostsNum,   \* HOSTS_NUM in the function's environment
    Sizes,      \* sizes an administrator asks resize for
    Retries,    \* bound on the calls an instance repeats
    None

ASSUME SizeAssumption ==
    /\ Target \in Nat \ {0}
    /\ HostsNum \in Nat \ {0}
    /\ Sizes \subseteq Nat \ {0}
    /\ Retries \in Nat

\* terraform computes both from cluster_size.  A larger cluster_size of a later
\* apply reaches HOSTS_NUM only: the state object ignores changes.
ASSUME HostsAssumption == Target <= HostsNum

ASSUME VmsAssumption == IsFiniteSet(Vms) /\ None \notin Vms
ASSUME ScalersAssumption == IsFiniteSet(Scalers) /\ Scalers # {}

VARIABLES
    \* the state object
    instances,    \* "instances": the instances that wait for the cluster
    clusterized,  \* "clusterized"
    desired,      \* "desired_size"
    finalizer,    \* whose clusterize_finalization holds the object's lock
    \* the cloud project
    pc,           \* what each instance does, or the handler it waits for
    snap,         \* "state.Instances" of the handler an instance waits for
    retries,      \* calls the instance has repeated
    protected,    \* instances with deletion protection
    group,        \* members of the instance group
    password,     \* for whose cluster the admin password was generated
    weka,         \* members of the weka cluster
    \* the scale_up executions
    scale         \* what each one does, and how many instances it will create

state == <<instances, clusterized, desired, finalizer>>
cloud == <<protected, group, password, weka>>
local == <<pc, snap, retries>>
vars == <<state, local, cloud, scale>>

\* The points of the handler Clusterize, of ClusterizeFinalization, and what an
\* instance does without a handler.
Clusterizing == {"add", "extra", "protect", "decide"}
Finalizing == {"regroup", "commit"}
Points == Clusterizing \cup Finalizing \cup
          {"absent", "boot", "deploy", "deployFailed", "request", "idle", "form", "finalize",
           "join", "joinProtect", "joinGroup", "member", "selfDelete",
           "broken", "gone"}

Exists(v) == pc[v] \notin {"absent", "gone"}
Backends == {v \in Vms : Exists(v)}

\* Its deploy script is through: its weka containers can be clustered.
HasContainers(v) == pc[v] \in Clusterizing \cup {"request", "idle", "form"}

TypeOK ==
    /\ instances \in Seq(Vms)
    /\ clusterized \in BOOLEAN
    /\ desired \in Nat
    /\ finalizer \in Vms \cup {None}
    /\ pc \in [Vms -> Points]
    /\ snap \in [Vms -> Seq(Vms)]
    /\ retries \in [Vms -> 0 .. Retries]
    /\ protected \in SUBSET Vms
    /\ group \in SUBSET Vms
    /\ password \in Vms \cup {None}
    /\ weka \in SUBSET Vms
    /\ scale \in [Scalers -> [at : {"off", "list", "read", "create"},
                              backends : Nat, missing : Nat]]

Off == [at |-> "off", backends |-> 0, missing |-> 0]

\* terraform uploads the state object with an empty list and both sizes equal
\* to cluster_size.
Init ==
    /\ instances = <<>>
    /\ clusterized = FALSE
    /\ desired = Target
    /\ finalizer = None
    /\ pc = [v \in Vms |-> "absent"]
    /\ snap = [v \in Vms |-> <<>>]
    /\ retries = [v \in Vms |-> 0]
    /\ protected = {}
    /\ group = {}
    /\ password = None
    /\ weka = {}
    /\ scale = [s \in Scalers |-> Off]

Goto(v, point) == pc' = [pc EXCEPT ![v] = point]

\* Only v moves on, nothing else changes.
Step(v, from, to) ==
    /\ pc[v] = from
    /\ Goto(v, to)
    /\ UNCHANGED <<state, snap, retries, cloud, scale>>

\* The state object can be locked.
Unlocked == finalizer = None

\* Variants that the runs reject: no check of "clusterized", a list that is full
\* one instance early, creation of the whole cluster whenever one instance is
\* missing, every backend added to the group, a list that is not emptied, calls
\* repeated without a limit, and one instance that forms the cluster too early.
RoomWhenClusterized == Len(instances) < Target
RoomForAllButOne == ~clusterized /\ Len(instances) + 1 < Target
MissingAll(s) == IF scale[s].backends < desired THEN desired ELSE 0
FoundAny(v) == Backends
WriteWithoutReset(v) ==
    /\ pc[v] = "commit"
    /\ clusterized' = TRUE
    /\ UNCHANGED <<instances, desired, snap, cloud, scale>>
RetryAlways(v, to) ==
    /\ retries' = [retries EXCEPT ![v] = @ + 1]
    /\ Goto(v, to)
CompletesEarly(v) == Len(snap[v]) + 1 >= HostsNum

------------------------------------------------------------------------------
(* scale_up                                                                 *)

ScaleTo(s, to) ==
    /\ scale' = [scale EXCEPT ![s] = to]
    /\ UNCHANGED <<state, local, cloud>>

\* Cloud Scheduler starts an execution every minute, over one that still runs.
StartScaleUp(s) ==
    /\ scale[s].at = "off"
    /\ ScaleTo(s, [Off EXCEPT !.at = "list"])

\* GetInstancesByClusterLabel
ListBackends(s) ==
    /\ scale[s].at = "list"
    /\ ScaleTo(s, [at |-> "read", backends |-> Cardinality(Backends),
                   missing |-> 0])

Missing(s) == IF scale[s].backends < desired
                THEN desired - scale[s].backends ELSE 0

\* GetClusterState, after the listing
ReadDesiredSize(s) ==
    /\ scale[s].at = "read"
    /\ Unlocked
    /\ ScaleTo(s, IF Missing(s) = 0 THEN Off
                  ELSE [at |-> "create", backends |-> 0, missing |-> Missing(s)])

\* CreateBackendInstance, once for each missing instance
CreateBackend(s) ==
    /\ scale[s].at = "create"
    /\ \E v \in Vms :
         /\ pc[v] = "absent"
         /\ Goto(v, "boot")
    /\ scale' = [scale EXCEPT ![s] =
                   IF scale[s].missing > 1
                     THEN [at |-> "create", backends |-> 0,
                           missing |-> scale[s].missing - 1]
                     ELSE Off]
    /\ UNCHANGED <<state, snap, retries, cloud>>

\* An error of any of the requests ends the execution (two executions of the
\* same second also generate the same names).  A run of the model that is out of
\* names ends here too.
ScaleUpFails(s) ==
    /\ scale[s].at # "off"
    /\ ScaleTo(s, Off)

------------------------------------------------------------------------------
(* The instance's startup script and its deploy script                      *)

\* GetBackendsDeployScript: before the cluster is finalized an instance gets the
\* deploy script, later a join script with the addresses of the group.
FetchDeployScript(v) ==
    /\ Unlocked
    /\ ~clusterized
    /\ Step(v, "boot", "deploy")

FetchJoinScript(v) ==
    /\ Unlocked
    /\ clusterized
    /\ group \cap Backends # {}
    /\ Step(v, "boot", "join")

\* Installation or download fails, or there is nobody to join: the startup
\* script reports it and exits, the instance stays.
BootFails(v) == Step(v, "boot", "broken")

DeploySucceeds(v) == Step(v, "deploy", "request")

\* "(/tmp/deploy.sh 2>&1 | tee /tmp/weka_deploy.log) || self_deleting": without
\* pipefail the status of the pipeline is that of tee, so nothing follows.
DeployFails(v) == Step(v, "deploy", "deployFailed")
JoinFails(v) == Step(v, "join", "deployFailed")
StartupEnds(v) == Step(v, "deployFailed", "broken")

------------------------------------------------------------------------------
(* clusterize                                                               *)

\* The request of the instance reaches the function.
CallClusterize(v) == Step(v, "request", "add")

HasRoom == ~clusterized /\ Len(instances) < Target

\* addInstanceToStateInstances, under the lock
AppendInstance(v) ==
    /\ pc[v] = "add"
    /\ Unlocked
    /\ HasRoom
    /\ instances' = Append(instances, v)
    /\ UNCHANGED <<clusterized, desired, finalizer, retries, cloud, scale>>

AddInstance(v) ==
    /\ AppendInstance(v)
    /\ snap' = [snap EXCEPT ![v] = instances']
    /\ Goto(v, "protect")

\* RetryWriteState has sent the write again and returns an error, although the
\* object was written: an error script for an instance that is in the list.
AddUnacknowledged(v) ==
    /\ AppendInstance(v)
    /\ Goto(v, "idle")
    /\ UNCHANGED snap

\* ExtraInstanceForClusterizationError
RefuseExtra(v) ==
    /\ Unlocked
    /\ ~HasRoom
    /\ Step(v, "add", "extra")

\* Reading or writing the state object fails: an error script.
AddFails(v) == Step(v, "add", "idle")

\* ReportErrorAndTerminateInstance: after a report in the state object the machine
\* is deleted, unless it is protected or the request fails; then it gets a script
\* with which it deletes itself.
TerminateExtra(v) ==
    /\ Unlocked
    /\ v \notin protected
    /\ Step(v, "extra", "gone")

TerminateExtraFails(v) ==
    /\ Unlocked
    /\ Step(v, "extra", "selfDelete")

\* self_deleting: the protection is removed first.
SelfDelete(v) ==
    /\ pc[v] = "selfDelete"
    /\ Goto(v, "gone")
    /\ protected' = protected \ {v}
    /\ UNCHANGED <<state, snap, retries, group, password, weka, scale>>

SetDeletionProtection(v) ==
    /\ pc[v] = "protect"
    /\ Goto(v, "decide")
    /\ protected' = protected \cup {v}
    /\ UNCHANGED <<state, snap, retries, group, password, weka, scale>>

\* A report and an error script: the instance stays in the list.
ProtectionFails(v) ==
    /\ Unlocked
    /\ Step(v, "protect", "idle")

\* The instance completes the list.  SetDeletionProtection has reported its
\* success in the state object before the handler goes on.
Completes(v) == Len(snap[v]) = HostsNum

\* "This is instance n/m that is ready for clusterization"
Wait(v) ==
    /\ Unlocked
    /\ ~Completes(v)
    /\ Step(v, "decide", "idle")

\* The admin and deployment passwords are generated and stored, the script that
\* forms the cluster is returned.
SetPassword(v, to) ==
    /\ pc[v] = "decide"
    /\ Unlocked
    /\ Completes(v)
    /\ password' = v
    /\ Goto(v, to)
    /\ UNCHANGED <<state, snap, retries, protected, group, weka, scale>>

GenerateScript(v) == SetPassword(v, "form")

\* The secrets manager fails for the second password: an error script ...
DeploymentSecretFails(v) == SetPassword(v, "idle")

\* ... or for the first.
AdminSecretFails(v) ==
    /\ Unlocked
    /\ Completes(v)
    /\ Step(v, "decide", "idle")

------------------------------------------------------------------------------
(* The weka cluster, outside of this repository                             *)

CanForm(v) ==
    /\ Cardinality(Range(snap[v])) = HostsNum
    /\ \A u \in Range(snap[v]) : HasContainers(u)

FormCluster(v) ==
    /\ pc[v] = "form"
    /\ CanForm(v)
    /\ weka' = Range(snap[v])
    /\ Goto(v, "finalize")
    /\ UNCHANGED <<state, snap, retries, protected, group, password, scale>>

FormFails(v) == Step(v, "form", "idle")

JoinCluster(v) ==
    /\ pc[v] = "join"
    /\ weka' = weka \cup {v}
    /\ Goto(v, "joinProtect")
    /\ UNCHANGED <<state, snap, retries, protected, group, password, scale>>

------------------------------------------------------------------------------
(* clusterize_finalization: the lock is kept throughout                     *)

LockAndRead(v) ==
    /\ pc[v] = "finalize"
    /\ Unlocked
    /\ finalizer' = v
    /\ snap' = [snap EXCEPT ![v] = instances]
    /\ Goto(v, "regroup")
    /\ UNCHANGED <<instances, clusterized, desired, retries, cloud, scale>>

\* AddInstancesToGroup adds the instances that GetInstances finds.  An error in
\* the listing ends it without being returned.
AddInstancesToGroup(v, found) ==
    /\ pc[v] = "regroup"
    /\ found # {}
    /\ group' = group \cup found
    /\ Goto(v, "commit")
    /\ UNCHANGED <<state, snap, retries, protected, password, weka, scale>>

Found(v) == Range(snap[v]) \cap Backends

AddAllToGroup(v) == AddInstancesToGroup(v, Found(v))

AddSomeToGroup(v) ==
    \E found \in SUBSET Found(v) \ {Found(v)} : AddInstancesToGroup(v, found)

\* The list is emptied and the cluster is clusterized.
WriteClusterized(v) ==
    /\ pc[v] = "commit"
    /\ instances' = <<>>
    /\ clusterized' = TRUE
    /\ UNCHANGED <<desired, snap, cloud, scale>>

Commit(v) ==
    /\ WriteClusterized(v)
    /\ finalizer' = None
    /\ Goto(v, "member")
    /\ UNCHANGED retries

\* As AddUnacknowledged: the cluster is clusterized and its caller hears of an
\* error.
CommitUnacknowledged(v) ==
    /\ WriteClusterized(v)
    /\ finalizer' = None
    /\ Goto(v, "idle")
    /\ UNCHANGED retries

\* An error is answered with status 400, which curl does not retry.
FinalizationFails(v) ==
    /\ pc[v] \in Finalizing
    /\ finalizer' = None
    /\ Goto(v, "idle")
    /\ UNCHANGED <<instances, clusterized, desired, snap, retries, cloud, scale>>

------------------------------------------------------------------------------
(* join_finalization                                                        *)

ProtectJoined(v) ==
    /\ pc[v] = "joinProtect"
    /\ protected' = protected \cup {v}
    /\ Goto(v, "joinGroup")
    /\ UNCHANGED <<state, snap, retries, group, password, weka, scale>>

AddJoinedToGroup(v) ==
    /\ pc[v] = "joinGroup"
    /\ group' = group \cup {v}
    /\ Goto(v, "member")
    /\ UNCHANGED <<state, snap, retries, protected, password, weka, scale>>

\* Either request fails: the joined instance is not told to try again.
JoinFinalizationFails(v) ==
    \/ Step(v, "joinProtect", "idle")
    \/ Step(v, "joinGroup", "idle")

------------------------------------------------------------------------------
(* Calls without an answer                                                  *)

Retry(v, to) ==
    /\ retries[v] < Retries
    /\ retries' = [retries EXCEPT ![v] = @ + 1]
    /\ Goto(v, to)

\* The handler ends early, or the script it returned is lost: curl calls again.
ClusterizeUnanswered(v) ==
    /\ pc[v] \in Clusterizing \cup {"form", "selfDelete"}
    /\ Retry(v, "request")
    /\ snap' = [snap EXCEPT ![v] = <<>>]
    /\ UNCHANGED <<state, cloud, scale>>

\* The lock is left behind.
FinalizationUnanswered(v) ==
    /\ pc[v] \in Finalizing
    /\ Retry(v, "finalize")
    /\ UNCHANGED <<state, snap, cloud, scale>>

CommitUnanswered(v) ==
    /\ WriteClusterized(v)
    /\ Retry(v, "finalize")
    /\ UNCHANGED finalizer

\* Lock deletes the lock object ten minutes after its creation.
DeleteStaleLock ==
    /\ finalizer # None
    /\ pc[finalizer] \notin Finalizing
    /\ finalizer' = None
    /\ UNCHANGED <<instances, clusterized, desired, local, cloud, scale>>

------------------------------------------------------------------------------
(* resize                                                                   *)

\* updateDesiredSize refuses a cluster that is not clusterized.
Resize(size) ==
    /\ Unlocked
    /\ clusterized
    /\ desired' = size
    /\ UNCHANGED <<instances, clusterized, finalizer, local, cloud, scale>>

------------------------------------------------------------------------------
(* status                                                                   *)

\* "ClusterizationInstance" of the summary that is read from the state object
ClusterizationInstance ==
    IF Len(instances) >= Target THEN instances[Target] ELSE None

------------------------------------------------------------------------------

\* What an instance and the handlers it calls do when every request is answered.
VmStep(v) ==
    \/ FetchDeployScript(v) \/ FetchJoinScript(v)
    \/ DeploySucceeds(v) \/ StartupEnds(v)
    \/ CallClusterize(v) \/ AddInstance(v)
    \/ RefuseExtra(v) \/ TerminateExtra(v) \/ SelfDelete(v)
    \/ SetDeletionProtection(v) \/ Wait(v) \/ GenerateScript(v)
    \/ FormCluster(v) \/ LockAndRead(v) \/ AddAllToGroup(v) \/ Commit(v)
    \/ JoinCluster(v) \/ ProtectJoined(v) \/ AddJoinedToGroup(v)

ScaleStep(s) ==
    \/ StartScaleUp(s) \/ ListBackends(s) \/ ReadDesiredSize(s)
    \/ CreateBackend(s)

\* A request, a script or a service fails.
Fault(v) ==
    \/ BootFails(v) \/ DeployFails(v) \/ JoinFails(v)
    \/ AddUnacknowledged(v) \/ CommitUnacknowledged(v)
    \/ AddFails(v) \/ TerminateExtraFails(v)
    \/ ProtectionFails(v) \/ AdminSecretFails(v) \/ DeploymentSecretFails(v)
    \/ FormFails(v) \/ AddSomeToGroup(v) \/ FinalizationFails(v)
    \/ JoinFinalizationFails(v)

\* An answer is lost.
Loss(v) ==
    \/ ClusterizeUnanswered(v) \/ FinalizationUnanswered(v)
    \/ CommitUnanswered(v)

SteadyNext ==
    \/ \E v \in Vms : VmStep(v)
    \/ \E s \in Scalers : ScaleStep(s) \/ ScaleUpFails(s)
    \/ \E size \in Sizes : Resize(size)

Next ==
    \/ SteadyNext
    \/ \E v \in Vms : Fault(v) \/ Loss(v)
    \/ DeleteStaleLock

Spec == Init /\ [][Next]_vars

\* Instances and the handlers they call go on.  The scheduler starts scale_up
\* again and again; executions may fail, but not every time at the same request.
Fairness ==
    /\ \A v \in Vms : WF_vars(VmStep(v))
    /\ \A s \in Scalers : /\ WF_vars(StartScaleUp(s))
                           /\ SF_vars(ListBackends(s))
                           /\ SF_vars(ReadDesiredSize(s))
                           /\ SF_vars(CreateBackend(s))
    /\ WF_vars(DeleteStaleLock)

FairSpec == Spec /\ Fairness

\* The same when instances meet no fault and no answer is lost.
SteadySpec == Init /\ [][SteadyNext]_vars /\ Fairness

------------------------------------------------------------------------------
(* Properties                                                               *)

\* The admin password is generated for one cluster: whatever fails or is called
\* again, no second instance completes the list, so nobody overwrites the
\* password that a forming cluster was given.
PasswordSetOnce == [][password # None => password' = password]_vars

\* INFO.md: an instance in the instance group "is now a part of the cluster".
GroupIsInCluster == group \subseteq weka

\* A cluster is only called clusterized, and resized, when all the instances it
\* was to start with have formed it.
ClusterizedIsFormed ==
    clusterized => /\ password # None
                   /\ Cardinality(weka) >= HostsNum
                   /\ instances = <<>>

\* While the cluster is formed, status names the instance that was given the
\* credentials and forms it, whoever has called clusterize since.
StatusNamesFormer ==
    password # None /\ ~clusterized => ClusterizationInstance = password

\* The interleaved handlers implement the life of a cluster that ClusterLife
\* describes, whatever is refused, lost or called again.
Phase == CASE clusterized -> "open"
           [] ~clusterized /\ weka # {} -> "formed"
           [] ~clusterized /\ weka = {} -> "empty"

Life == INSTANCE ClusterLife WITH
    Size <- HostsNum,
    phase <- Phase,
    credentials <- password,
    members <- weka,
    served <- group

ImplementsLife == Life!Spec

\* Of the scale_up executions that overlap, each creates no more instances than
\* desired (while nobody asks for fewer): what one execution at a time has created
\* is never more than desired.
NoOvershoot == Cardinality(Backends) <= Cardinality(Scalers) * desired

\* INFO.md: "a new cluster will be created in a few minutes according to the
\* cluster size you set", also when executions of scale_up overlap: the
\* instances that do not fit go away, the others are members, in the group and
\* protected.
ClusterComes ==
    <>[](/\ clusterized
         /\ weka = group
         /\ weka \subseteq protected
         /\ Cardinality(weka) >= desired
         /\ \A v \in Backends : pc[v] \in {"idle", "member"})

\* INFO.md: resize returns an error until the cluster is fully formed, and then
\* "all vms where added to the instance group".
ClusterizedIsInGroup ==
    [][clusterized' /\ ~clusterized => weka \subseteq group]_vars

\* errors.go, common.go: an instance is an extra one when the list is full
\* without it ("might happen if someone increases the desired number").
ExtraIsNotListed ==
    \A v \in Vms : pc[v] = "extra" => v \notin Range(instances)

\* "deploy failed, self deleting...": an instance whose deployment failed does
\* not stay.
FailedDeployIsDeleted ==
    \A v \in Vms : pc[v] = "deployFailed" ~> pc[v] = "gone"
==============================================================================
