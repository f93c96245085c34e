----------------------------- MODULE NfsGateways -----------------------------
(***************************************************************************)
(* NFS gateways: how an interface group comes into being, and how gateways *)
(* of an older deployment are taken over.                                  *)
(*                                                                         *)
(* Gateways have a state object of their own, nfs_state, with a lock of    *)
(* its own.  scale_up counts gateways by a label, and creates missing      *)
(* ones.  New gateways call "clusterize"; the one that completes the list  *)
(* sets up the interface group and calls "clusterize_finalization"; later  *)
(* ones join.  Gateways that terraform created before there was a          *)
(* nfs_state have no labels: scale_up migrates them once, when the         *)
(* backends are clusterized, and only then creates new ones.               *)
(*                                                                         *)
(* As in Clusterization, an operation under the lock is one step, except   *)
(* the two that keep it while they call other services: finalization and   *)
(* migration.                                                              *)
(***************************************************************************)
EXTENDS Naturals, Sequences, SequencesExt

CONSTANTS
    Gateways,   \* instance names; each is used once
    Existing,   \* those of an older deployment
    Scalers,    \* scale_up executions that can overlap
    Target,     \* "clusterization_target" of nfs_state, and the first desired_size
    GatewaysNum,\* NFS_PROTOCOL_GATEWAYS_NUM in the environment of the functions
    PortsOf,    \* how many ports of an interface group a gateway has
    Sizes,      \* sizes an administrator asks resize for
    Retries,    \* bound on the calls an instance repeats
    None

ASSUME NumberAssumption ==
    /\ Target \in Nat \ {0} /\ Sizes \subseteq Nat /\ Retries \in Nat
    /\ PortsOf \in [Gateways -> Nat \ {0}]

\* Both come from nfs_protocol_gateways_number.
ASSUME GatewaysAssumption == GatewaysNum \in Nat /\ Target <= GatewaysNum

ASSUME NameAssumption ==
    /\ IsFiniteSet(Gateways) /\ Existing \subseteq Gateways
    /\ Gateways \cap Scalers = {} /\ None \notin Gateways \cup Scalers
ASSUME ScalersAssumption == IsFiniteSet(Scalers) /\ Scalers # {}

VARIABLES
    \* nfs_state
    instances, clusterized,
    migrated,     \* "nfs_instances_migrated"
    desired,      \* "desired_size"
    holder,       \* gateway or execution whose handler keeps the lock
    \* the project
    backendsUp,   \* "clusterized" of the backends' state object
    labelled,     \* gateways with the label weka_protocol_gateway
    ports,        \* gateways with the label nfs_interface_group_port
    group,        \* members of the NFS instance group
    protected,    \* gateways with deletion protection
    interfaces,   \* the interface group of the weka cluster
    \* handlers and scripts
    pc, snap, todo, retries,
    exec          \* the scale_up executions

object == <<instances, clusterized, migrated, holder>>
outside == <<backendsUp, desired>>
project == <<labelled, ports, group, protected>>
local == <<pc, snap, todo, retries>>
vars == <<object, outside, project, interfaces, local, exec>>

\* In its critical section, also when waiting there for the lock it holds.
Finalizing == {"label", "report", "regroup", "commit"}
Migrating == {"regroup", "label", "write"}

Points == Finalizing \cup
    {"absent", "boot", "deploy", "request", "extra", "protect", "decide",
     "form", "check", "finalize", "join", "joinProtect", "joinGroup",
     "joinLabel", "idle", "broken", "serving", "gone"}

\* The ports that gateways have in the interface group: a migration has an entry
\* for each of them.
PortsIn(members) == UNION {{v} \X (1 .. PortsOf[v]) : v \in members}

Off == [at |-> "off", backendsUp |-> FALSE, number |-> 0, found |-> {},
        ok |-> FALSE, todo |-> {}, failed |-> FALSE]

ExecType == [at : Migrating \cup {"off", "list", "read", "create", "inspect",
                                  "lock", "protect"},
             backendsUp : BOOLEAN, number : Nat,
             found : SUBSET Gateways, ok : BOOLEAN,
             todo : SUBSET PortsIn(Gateways),
             failed : BOOLEAN]

TypeOK ==
    /\ instances \in Seq(Gateways)
    /\ clusterized \in BOOLEAN /\ migrated \in BOOLEAN
    /\ holder \in Gateways \cup Scalers \cup {None}
    /\ backendsUp \in BOOLEAN /\ desired \in Nat
    /\ labelled \subseteq Gateways /\ ports \subseteq Gateways
    /\ group \subseteq Gateways /\ protected \subseteq Gateways
    /\ interfaces \in [members : SUBSET Gateways, ok : BOOLEAN]
    /\ pc \in [Gateways -> Points]
    /\ snap \in [Gateways -> Seq(Gateways)]
    /\ todo \in [Gateways -> SUBSET Gateways]
    /\ retries \in [Gateways -> 0 .. Retries]
    /\ exec \in [Scalers -> ExecType]

\* A new deployment, or an upgraded one: its gateways serve, their interface
\* group may be impaired.
Init ==
    /\ instances = <<>> /\ clusterized = FALSE /\ migrated = FALSE
    /\ desired = Target /\ holder = None
    /\ labelled = {} /\ ports = {} /\ group = {} /\ protected = {}
    /\ \E old \in {{}, Existing}, ok \in BOOLEAN :
         /\ backendsUp \in BOOLEAN /\ (old # {} => backendsUp)
         /\ interfaces = [members |-> old, ok |-> ok /\ old # {}]
         /\ pc = [v \in Gateways |-> IF v \in old THEN "serving" ELSE "absent"]
    /\ snap = [v \in Gateways |-> <<>>]
    /\ todo = [v \in Gateways |-> {}]
    /\ retries = [v \in Gateways |-> 0]
    /\ exec = [s \in Scalers |-> Off]

Exists(v) == pc[v] \notin {"absent", "gone"}

Unlocked == holder = None

Goto(v, point) == pc' = [pc EXCEPT ![v] = point]

\* Only v moves on.
Step(v, from, to) ==
    /\ pc[v] = from
    /\ Goto(v, to)
    /\ UNCHANGED <<object, outside, project, interfaces, snap, todo, retries,
                   exec>>

\* Only the execution moves on.
Advance(s, from, to) ==
    /\ exec[s].at = from
    /\ exec' = [exec EXCEPT ![s] = to]
    /\ UNCHANGED <<outside, interfaces, local>>

\* The execution neither holds the lock nor changes the project.
ExecOnly(s, from, to) ==
    /\ Advance(s, from, to)
    /\ UNCHANGED <<object, project>>

\* Variants that the run rejects: migration only when no gateway is missing, or
\* whether or not it was done; failed labels ignored; a list that completes one
\* gateway early; a setup that does not set "nfs_instances_migrated"; calls
\* repeated without a limit; a function without a time limit.
MigrateWhenNoneMissing(s) ==
    ~migrated /\ exec[s].backendsUp /\ exec[s].number >= desired
MigrateAgain(s) == exec[s].backendsUp
LabelsAreTried(s) ==
    /\ exec[s].todo = {}
    /\ ExecOnly(s, "label", [exec[s] EXCEPT !.at = "write"])
CompletesEarly(v) == Len(snap[v]) + 1 >= GatewaysNum
SetNothing(v) == Len(snap[v]) = GatewaysNum /\ Unlocked /\ Step(v, "decide", "form")
RetryAlways(v, to) ==
    /\ retries' = [retries EXCEPT ![v] = @ + 1]
    /\ Goto(v, to)
    /\ UNCHANGED <<snap, todo>>
NoTimeOut(v) == FALSE

------------------------------------------------------------------------------
(* scale_up                                                                 *)

\* The state of the backends is read before the gateways are looked at.
StartScaleUp(s) ==
    ExecOnly(s, "off", [Off EXCEPT !.at = "list", !.backendsUp = backendsUp])

\* GetInstancesByProtocolGwLabel
Counted == {v \in labelled : Exists(v)}

ListGateways(s) ==
    ExecOnly(s, "list", [exec[s] EXCEPT !.at = "read",
                                        !.number = Cardinality(Counted)])

\* Existing gateways are migrated before missing ones are created.
MustMigrate(s) == ~migrated /\ exec[s].backendsUp

Missing(s) == IF exec[s].number < desired THEN desired - exec[s].number ELSE 0

\* "desired_size" is read after the gateways were listed.
ReadNfsState(s) ==
    /\ Unlocked
    /\ ExecOnly(s, "read",
         CASE MustMigrate(s) -> [exec[s] EXCEPT !.at = "inspect", !.number = 0]
           [] ~MustMigrate(s) /\ Missing(s) > 0 ->
                [exec[s] EXCEPT !.at = "create", !.number = Missing(s)]
           [] OTHER -> Off)

\* CreateNFSInstance: the template has the label.  Names are made from the time, so
\* they are new.
CreateGateway(s) ==
    /\ exec[s].at = "create"
    /\ \E v \in Gateways \ Existing :
         /\ pc[v] = "absent"
         /\ Goto(v, "boot")
         /\ labelled' = labelled \cup {v}
    /\ exec' = [exec EXCEPT ![s] =
                  IF exec[s].number > 1
                    THEN [exec[s] EXCEPT !.number = exec[s].number - 1]
                    ELSE Off]
    /\ UNCHANGED <<object, outside, ports, group, protected, interfaces,
                   snap, todo, retries>>

\* A request fails, or the function ends.
ScaleUpFails(s) ==
    /\ exec[s].at \notin Migrating \cup {"off"}
    /\ ExecOnly(s, exec[s].at, Off)

------------------------------------------------------------------------------
(* MigrateExistingNFSInstances                                              *)

\* The interface group and its ports are read before the lock is taken; the names
\* of their hosts, read after it, do not change.  The hosts stand for the ports.
InspectInterfaceGroup(s) ==
    ExecOnly(s, "inspect", [exec[s] EXCEPT
        !.at = "lock", !.found = interfaces.members, !.ok = interfaces.ok])

LockForMigration(s) ==
    /\ Unlocked
    /\ holder' = s
    /\ Advance(s, "lock", [exec[s] EXCEPT
         !.at = IF exec[s].found = {} THEN "write" ELSE "regroup"])
    /\ UNCHANGED <<instances, clusterized, migrated, project>>

\* addNfsInstancesToGroup; a listing that ends with an error is used as it is.
RegroupMigrated(s) ==
    /\ \E listed \in SUBSET exec[s].found \ {{}} : group' = group \cup listed
    /\ Advance(s, "regroup", [exec[s] EXCEPT !.at = "label",
                                             !.todo = PortsIn(exec[s].found)])
    /\ UNCHANGED <<object, labelled, ports, protected>>

\* setLabelsOnNfsInstances goes on after an error and returns it at the end.
LabelMigrated(s) ==
    \E p \in exec[s].todo :
      /\ Advance(s, "label", [exec[s] EXCEPT !.todo = exec[s].todo \ {p}])
      /\ labelled' = labelled \cup {p[1]}
      /\ ports' = ports \cup {p[1]}
      /\ UNCHANGED <<object, group, protected>>

LabelMigratedFails(s) ==
    \E p \in exec[s].todo :
      ExecOnly(s, "label", [exec[s] EXCEPT !.todo = exec[s].todo \ {p},
                                           !.failed = TRUE])

LabelsAreSet(s) ==
    /\ exec[s].todo = {} /\ ~exec[s].failed
    /\ ExecOnly(s, "label", [exec[s] EXCEPT !.at = "write"])

\* A working interface group is the clusterized state; otherwise its gateways are
\* put in the list, once for each port.
Entries(order) == [i \in DOMAIN order |-> order[i][1]]

WriteMigrated(s, then) ==
    /\ \E order \in SetToSeqs(PortsIn(exec[s].found)) :
         instances' = IF exec[s].ok THEN instances ELSE instances \o Entries(order)
    /\ clusterized' = (clusterized \/ exec[s].ok)
    /\ migrated' = TRUE
    /\ holder' = None
    /\ Advance(s, "write", then)
    /\ UNCHANGED project

CommitMigration(s) ==
    WriteMigrated(s, IF exec[s].found = {} THEN Off
                     ELSE [Off EXCEPT !.at = "protect", !.todo = PortsIn(exec[s].found)])

\* RetryWriteState returns an error although the object was written.
MigrationUnacknowledged(s) == WriteMigrated(s, Off)

MigrationFails(s) ==
    /\ exec[s].at \in Migrating
    /\ holder' = None
    /\ Advance(s, exec[s].at, Off)
    /\ UNCHANGED <<instances, clusterized, migrated, project>>

\* The function ends, or UnlockBucket fails: the lock is left behind.
MigrationDies(s) ==
    /\ exec[s].at \in Migrating
    /\ ExecOnly(s, exec[s].at, Off)

\* SetDeletionProtection for each of them, its errors ignored, but reported in
\* nfs_state: hence after the lock was released.
ProtectMigrated(s) ==
    /\ Unlocked
    /\ \E p \in exec[s].todo :
         /\ protected' \in {protected, protected \cup {p[1]}}
         /\ Advance(s, "protect",
              IF exec[s].todo = {p} THEN Off
              ELSE [exec[s] EXCEPT !.todo = exec[s].todo \ {p}])
    /\ UNCHANGED <<object, labelled, ports, group>>

------------------------------------------------------------------------------
(* deploy and clusterize                                                    *)

\* GetNfsDeployScript
FetchDeployScript(v) == Unlocked /\ ~clusterized /\ Step(v, "boot", "deploy")
FetchJoinScript(v) == Unlocked /\ clusterized /\ Step(v, "boot", "join")

BootFails(v) == Step(v, "boot", "broken")

\* Gateways are installed from the backends.
DeploySucceeds(v) == backendsUp /\ Step(v, "deploy", "request")
DeployFails(v) == Step(v, "deploy", "broken")

HasRoom == ~clusterized /\ Len(instances) < Target

\* addInstanceToStateInstances, under the lock
AppendGateway(v) ==
    /\ pc[v] = "request"
    /\ Unlocked
    /\ HasRoom
    /\ instances' = Append(instances, v)
    /\ UNCHANGED <<clusterized, migrated, holder, outside, project,
                   interfaces, todo, retries, exec>>

AddGateway(v) ==
    /\ AppendGateway(v)
    /\ snap' = [snap EXCEPT ![v] = instances']
    /\ Goto(v, "protect")

\* The write is applied and its caller hears of an error.
AddUnacknowledged(v) ==
    /\ AppendGateway(v)
    /\ Goto(v, "idle")
    /\ UNCHANGED snap

\* ExtraInstanceForClusterizationError
RefuseExtra(v) == Unlocked /\ ~HasRoom /\ Step(v, "request", "extra")
AddFails(v) == Step(v, "request", "idle")

\* The handler terminates it, or else the script it gets does.
TerminateExtra(v) ==
    /\ pc[v] = "extra"
    /\ Unlocked
    /\ Goto(v, "gone")
    /\ protected' = protected \ {v}
    /\ UNCHANGED <<object, outside, labelled, ports, group, interfaces, snap,
                   todo, retries, exec>>

TerminateExtraFails(v) == Step(v, "extra", "broken")

ProtectedBy(v, from, to) ==
    /\ pc[v] = from
    /\ Unlocked
    /\ Goto(v, to)
    /\ protected' = protected \cup {v}
    /\ UNCHANGED <<object, outside, labelled, ports, group, interfaces, snap,
                   todo, retries, exec>>

Protect(v) == ProtectedBy(v, "protect", "decide")
ProtectionFails(v) == Unlocked /\ Step(v, "protect", "idle")

\* NFS_PROTOCOL_GATEWAYS_NUM
Completes(v) == Len(snap[v]) = GatewaysNum

Wait(v) == ~Completes(v) /\ Step(v, "decide", "idle")

\* UpdateStateNfsMigrated, then the script that sets the interface group up
SetMigrated(v) ==
    /\ pc[v] = "decide"
    /\ Completes(v)
    /\ Unlocked
    /\ migrated' = TRUE
    /\ Goto(v, "form")
    /\ UNCHANGED <<instances, clusterized, holder, outside, project,
                   interfaces, snap, todo, retries, exec>>

SetMigratedFails(v) == Completes(v) /\ Step(v, "decide", "idle")

------------------------------------------------------------------------------
(* The interface group of the weka cluster, outside of this repository      *)

SetInterfaces(v, from, to, members, ok) ==
    /\ pc[v] = from
    /\ interfaces' = [members |-> members, ok |-> ok]
    /\ Goto(v, to)
    /\ UNCHANGED <<object, outside, project, snap, todo, retries, exec>>

\* The script adds the listed gateways to the interface group, also to one that
\* there is, and may fail instead.
CreateInterfaceGroup(v) ==
    SetInterfaces(v, "form", "check", interfaces.members \cup ToSet(snap[v]), FALSE)

InterfaceGroupIsUp(v) ==
    SetInterfaces(v, "check", "finalize", interfaces.members, TRUE)

JoinInterfaceGroup(v) ==
    SetInterfaces(v, "join", "joinProtect", interfaces.members \cup {v},
                  interfaces.ok)

SetupFails(v) ==
    \E from \in {"form", "check", "join"} : Step(v, from, "idle")

BackendsComeUp ==
    /\ ~backendsUp
    /\ backendsUp' = TRUE
    /\ UNCHANGED <<object, desired, project, interfaces, local, exec>>

------------------------------------------------------------------------------
(* resize with the protocol "nfs"                                           *)

Resize(size) ==
    /\ Unlocked
    /\ clusterized
    /\ desired' = size
    /\ UNCHANGED <<object, backendsUp, project, interfaces, local, exec>>

------------------------------------------------------------------------------
(* clusterize_finalization: the lock is kept throughout                     *)

LockAndRead(v) ==
    /\ pc[v] = "finalize"
    /\ Unlocked
    /\ holder' = v
    /\ snap' = [snap EXCEPT ![v] = instances]
    /\ todo' = [todo EXCEPT ![v] = ToSet(instances)]
    /\ Goto(v, "label")
    /\ UNCHANGED <<instances, clusterized, migrated, outside, project,
                   interfaces, retries, exec>>

LabelPort(v) ==
    /\ pc[v] = "label"
    /\ \E u \in todo[v] :
         /\ ports' = ports \cup {u}
         /\ todo' = [todo EXCEPT ![v] = todo[v] \ {u}]
    /\ UNCHANGED <<object, outside, labelled, group, protected, interfaces,
                   pc, snap, retries, exec>>

\* An error is reported in nfs_state, whose lock this handler holds.
PortLabelFails(v) == todo[v] # {} /\ Step(v, "label", "report")

PortsAreLabelled(v) == todo[v] = {} /\ Step(v, "label", "regroup")

\* A listing that ends with an error is used as it is.
AddInstancesToGroup(v) ==
    /\ pc[v] = "regroup"
    /\ \E listed \in SUBSET {u \in ToSet(snap[v]) : Exists(u)} \ {{}} :
         group' = group \cup listed
    /\ Goto(v, "commit")
    /\ UNCHANGED <<object, outside, labelled, ports, protected, interfaces,
                   snap, todo, retries, exec>>

WriteClusterized(v) ==
    /\ pc[v] = "commit"
    /\ instances' = <<>>
    /\ clusterized' = TRUE
    /\ UNCHANGED <<migrated, outside, project, interfaces, exec>>

CommitAnd(v, to) ==
    /\ WriteClusterized(v)
    /\ holder' = None
    /\ Goto(v, to)
    /\ UNCHANGED <<snap, todo, retries>>

Commit(v) == CommitAnd(v, "serving")
CommitUnacknowledged(v) == CommitAnd(v, "idle")

FinalizationFails(v) ==
    /\ pc[v] \in Finalizing \ {"report"}
    /\ holder' = None
    /\ Goto(v, "idle")
    /\ UNCHANGED <<instances, clusterized, migrated, outside, project,
                   interfaces, snap, todo, retries, exec>>

------------------------------------------------------------------------------
(* join_finalization                                                        *)

ProtectJoined(v) == ProtectedBy(v, "joinProtect", "joinGroup")

AddJoinedToGroup(v) ==
    /\ pc[v] = "joinGroup"
    /\ group' = group \cup {v}
    /\ Goto(v, "joinLabel")
    /\ UNCHANGED <<object, outside, labelled, ports, protected, interfaces,
                   snap, todo, retries, exec>>

LabelJoined(v) ==
    /\ pc[v] = "joinLabel"
    /\ ports' = ports \cup {v}
    /\ Goto(v, "serving")
    /\ UNCHANGED <<object, outside, labelled, group, protected, interfaces,
                   snap, todo, retries, exec>>

\* "err" is declared again in the block of the labels: the error is reported,
\* and the call succeeds.
JoinedLabelFails(v) == Unlocked /\ Step(v, "joinLabel", "serving")

JoinFinalizationFails(v) ==
    \E from \in {"joinProtect", "joinGroup"} : Step(v, from, "idle")

------------------------------------------------------------------------------
(* Calls without an answer, and the lock they leave behind                  *)

\* The function ends or times out: curl calls again, ten times.
Retry(v, to) ==
    /\ IF retries[v] < Retries
         THEN /\ retries' = [retries EXCEPT ![v] = @ + 1]
              /\ Goto(v, to)
         ELSE /\ Goto(v, "idle")
              /\ UNCHANGED retries
    /\ snap' = [snap EXCEPT ![v] = <<>>]
    /\ todo' = [todo EXCEPT ![v] = {}]

CallAgain(v, to) ==
    /\ Retry(v, to)
    /\ UNCHANGED <<object, outside, project, interfaces, exec>>

\* At "form" the answer that is lost is the script that sets the group up.
ClusterizeUnanswered(v) ==
    /\ pc[v] \in {"extra", "protect", "decide", "form"}
    /\ CallAgain(v, "request")

FinalizationUnanswered(v) ==
    /\ pc[v] \in Finalizing \ {"report"}
    /\ CallAgain(v, "finalize")

\* The function ends after the write, before it released the lock: the finalization
\* that is called again finds an empty list.
CommitUnanswered(v) ==
    /\ WriteClusterized(v)
    /\ Retry(v, "finalize")
    /\ UNCHANGED holder

\* ReportMsg in the critical section has no other end than this.
TimeOut(v) == pc[v] = "report" /\ CallAgain(v, "finalize")

IsLeftBehind ==
    \/ holder \in Gateways /\ pc[holder] \notin Finalizing
    \/ holder \in Scalers /\ exec[holder].at \notin Migrating

\* Lock deletes the lock object ten minutes after its creation.
DeleteStaleLock ==
    /\ IsLeftBehind
    /\ holder' = None
    /\ UNCHANGED <<instances, clusterized, migrated, outside, project,
                   interfaces, local, exec>>

------------------------------------------------------------------------------

\* Inside the critical sections
CriticalStep(v) ==
    \/ LabelPort(v) \/ PortsAreLabelled(v) \/ AddInstancesToGroup(v)
    \/ Commit(v)

MigrationStep(s) ==
    \/ RegroupMigrated(s) \/ LabelMigrated(s) \/ LabelsAreSet(s)
    \/ CommitMigration(s)

GatewayStep(v) ==
    \/ FetchDeployScript(v) \/ FetchJoinScript(v) \/ DeploySucceeds(v)
    \/ AddGateway(v) \/ RefuseExtra(v) \/ TerminateExtra(v)
    \/ Protect(v) \/ Wait(v) \/ SetMigrated(v)
    \/ CreateInterfaceGroup(v) \/ InterfaceGroupIsUp(v) \/ LockAndRead(v)
    \/ CriticalStep(v)
    \/ JoinInterfaceGroup(v) \/ ProtectJoined(v) \/ AddJoinedToGroup(v)
    \/ LabelJoined(v)

ScaleStep(s) ==
    \/ StartScaleUp(s) \/ ListGateways(s) \/ ReadNfsState(s)
    \/ CreateGateway(s) \/ InspectInterfaceGroup(s) \/ LockForMigration(s)
    \/ MigrationStep(s) \/ ProtectMigrated(s)

\* A request, a script or a service fails, or an answer is lost.
GatewayFault(v) ==
    \/ BootFails(v) \/ DeployFails(v) \/ AddUnacknowledged(v) \/ AddFails(v)
    \/ TerminateExtraFails(v) \/ ProtectionFails(v) \/ SetMigratedFails(v)
    \/ SetupFails(v) \/ PortLabelFails(v) \/ CommitUnacknowledged(v)
    \/ FinalizationFails(v) \/ JoinedLabelFails(v) \/ JoinFinalizationFails(v)
    \/ ClusterizeUnanswered(v) \/ FinalizationUnanswered(v)
    \/ CommitUnanswered(v) \/ TimeOut(v)

ScaleFault(s) ==
    \/ ScaleUpFails(s) \/ LabelMigratedFails(s) \/ MigrationUnacknowledged(s)
    \/ MigrationFails(s) \/ MigrationDies(s)

Next ==
    \/ \E v \in Gateways : GatewayStep(v) \/ GatewayFault(v)
    \/ \E s \in Scalers : ScaleStep(s) \/ ScaleFault(s)
    \/ \E size \in Sizes : Resize(size)
    \/ BackendsComeUp
    \/ DeleteStaleLock

Spec == Init /\ [][Next]_vars

\* A handler that runs goes on until it ends or the function times out; callers
\* that wait for the lock inspect it every second.
LockFairness ==
    /\ \A v \in Gateways : /\ WF_vars(CriticalStep(v) \/ FinalizationFails(v))
                          /\ WF_vars(TimeOut(v))
    /\ \A s \in Scalers : WF_vars(MigrationStep(s) \/ MigrationFails(s))
    /\ WF_vars(DeleteStaleLock)

FairSpec == Spec /\ LockFairness

------------------------------------------------------------------------------
(* Properties                                                               *)

\* Members of the instance group and gateways with the port label serve: they
\* are in the interface group, whatever fails or is called again.
ServedByInterfaceGroup == group \cup ports \subseteq interfaces.members

\* A deployment that has been migrated, or has set its interface group up, has
\* all its gateways counted: scale_up replaces none that serves.
MigratedIsCounted ==
    migrated => \A v \in Gateways : pc[v] = "serving" => v \in labelled

\* "nfs_instances_migrated" is set before there is a new interface group: an
\* execution that reads that nothing was migrated sees none but the gateways of an
\* older deployment then, and does not migrate gateways that the list has.
MigratesExistingOnly ==
    [][\A s \in Scalers :
         exec[s].at = "read" /\ exec'[s].at = "inspect"
           => interfaces.members \subseteq Existing]_vars

\* One execution of scale_up at a time never creates more gateways than
\* desired_size (while nobody asks for fewer), beside those that were there; each
\* one that overlaps with it creates at most as many again.
NoExtraGateways ==
    LET number == Cardinality({v \in Gateways : Exists(v)})
        others == (Cardinality(Scalers) - 1) * desired
    IN  \/ number <= desired + others
        \/ number <= Cardinality(Existing) + others

\* A gateway of an older deployment is put in the list once for each of its ports,
\* however often the migration is tried again; as often again for each execution
\* that overlaps.
MigratedOnce ==
    \A v \in Existing :
      Cardinality({i \in DOMAIN instances : instances[i] = v})
        <= Cardinality(Scalers) * PortsOf[v]

\* A lock kept by a handler that waits for itself, or left behind, becomes free.
LockEventuallyFree == holder # None ~> holder = None
=============================================================================
