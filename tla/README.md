# Verification of the GCP deployment of weka

This directory holds TLA+ models of the cloud functions, workflows and instance
scripts of this repository, the TLC configurations that check them on small
instances, and proofs, checked by TLAPS, of what holds for instances of any
size. Paths below are relative to the repository; Go files are under
`cloud-functions/`.

How to run, in this directory:

    tlc -workers 2 -config StateLock.cfg MCStateLock.tla
    tlapm StateLockProofs.tla

`PROJECT.json` lists every run with its module, its configuration and its
properties, and for every definition the lines of the code it stands for.

## 1. The system

terraform creates a bucket with a *state object*, one cloud function with many
actions (plus a scale-down function from an external library), two Cloud
Workflows that Cloud Scheduler triggers every minute, and an instance template.
Everything else happens at run time: the `scale_up` workflow creates instances,
the instances' scripts call the function, and together they form a weka
cluster; the `scale_down` workflow removes what the cluster has given up.
Nothing is ordered by a central process. The only shared memory is the state
object, guarded by a lock that is another object in the bucket; the rest is
read from the services (listings of instances, the instance group, the weka
cluster) and is old when it is used.

| Component | Code | State it keeps | Operations | Module |
|---|---|---|---|---|
| State object and its lock | `common/common.go` 220-372, 443-530; `functions/resize`, `functions/report`; `state_object.tf` | the JSON object, the lock object with its generation and creation time | Lock, Unlock, LockBucket, UnlockBucket, ReadState, RetryWriteState, and the operations built from them | `StateLock`, `AtomicUpdates` |
| scale_up | `main.go` ScaleUp, `functions/scale_up` | none (listing, desired size and loop of one execution) | list, read, create, migrate gateways | `Clusterization`, `NfsGateways` |
| deploy | `functions/deploy` | none | choice of deploy or join script | `Clusterization`, `NfsGateways` |
| clusterize | `functions/clusterize` | list of instances, passwords, protection | add to the list, refuse, protect, generate the script | `Clusterization`, `NfsGateways` |
| clusterize_finalization | `functions/clusterize_finalization` | list, `clusterized`, instance group | label gateways, add to the group, empty the list | `Clusterization`, `NfsGateways` |
| join_finalization | `functions/join_finalization` | protection, instance group | protect, add to the group, label gateways | `Clusterization`, `ScaleDown`, `NfsGateways` |
| resize | `functions/resize` | desired size | refuse before clusterized, set | `Clusterization`, `ScaleDown`, `NfsGateways` |
| Instances | startup script in `functions/scale_up`, scripts in `functions/deploy`, `functions/gcp_functions_def` | the script's position | download, deploy, call with `curl --retry 10`, delete oneself | `Clusterization`, `NfsGateways` |
| fetch, scale_down, terminate | `workflows.tf`, `functions/fetch`, `functions/terminate` | the data handed from step to step of one execution | list the group, give up hosts, compare, unprotect, delete | `ScaleDown`, `MemberLife` |
| weka cluster | go-cloud-lib, not in the repository | its members, its interface group | form, join, give up | external part of `Clusterization`, `ScaleDown`, `NfsGateways` |
| report | `functions/report`, `common/common.go` 503-530 | error and progress lists in the state object | locked update | its locking in `StateLock`, what it writes after a deletion in `ClusterTermination` |
| NFS gateways and migration | `functions/scale_up` 237-379, `functions/clusterize`, `functions/clusterize_finalization`, `main.go` 473-530 | a second state object with `nfs_instances_migrated`, labels, an instance group | count, create, clusterize, finalize, join, migrate | `NfsGateways` |
| terminate_cluster | `functions/terminate_cluster`, `main.go` 673-752 | none (the machines one call has listed) | delete the state objects, unprotect and delete all machines | `ClusterTermination` |
| status | `functions/status` | none | what it infers from the list of instances | one operator of `Clusterization` |
| transient, dispatch, reading of secrets | `main.go` | none | read only or pure | not modelled |
| terraform modules | `*.tf`, `modules/` | declarative | | not modelled, except where a limit or a schedule matters |

How they interact:

    Scheduler --every minute--> scale_up --creates--> instance
    instance --deploy--> script --clusterize--> (wait | form | delete oneself)
    last of the list --forms the cluster--> clusterize_finalization
    later instances --join script--> weka cluster --> join_finalization
    administrator --resize--> desired size --read by--> scale_up, fetch
    Scheduler --every minute--> fetch --> scale_down --> terminate --> transient
    scale_up --creates or migrates--> gateway --the same calls--> nfs_state
    administrator --terminate_cluster--> state objects, machines

What makes it hard, and what would make it correct:

* **The lock.** Its holder may crash, time out, fail to unlock, or never learn
  that it holds it. Correct: at most one handler is in its critical section,
  updates are applied whole, no lock stays for ever, nobody breaks the lock of a
  live handler.
* **Clusterization.** Executions of `scale_up` overlap; answers to instances
  are lost and their calls repeated; each service can fail between two steps.
  Correct: one cluster is formed, once; passwords are not overwritten; the
  cluster is only called clusterized when it is; instances that do not fit go
  away; the right number comes up.
* **NFS gateways.** Gateways of an older deployment have no labels and are in no
  state object; `scale_up` takes them over while new ones form the same
  interface group. Finalization reports into the state object whose lock it
  holds. Correct: what is in the group or labelled serves; a deployment is
  migrated once, and only called migrated when its gateways are counted; no
  gateway is created beside one that serves.
* **terminate_cluster.** It deletes the state objects without their locks while
  handlers write them and `scale_up` creates machines. Correct: repeated calls
  remove everything, and nothing that is late brings it back.
* **Scaling down.** Every step of the workflow works with the lists of the one
  before, while instances join, and founders may be unprotected or missing in
  the group. Correct: a member that joined in time is never deleted or left
  unprotected in the group, and no running one is taken for a leftover; what the
  cluster has given up is deleted in the end, although each call deletes a part
  and any request fails.

The complete list of hazards, each at its line, is `hazards` in
`PROJECT.json`.

## 2. Modules

### StateLock, with AtomicUpdates

One action per request to Cloud Storage. `Create`, `CreateUnacknowledged` and
`CreateRefused` are the conditional creation in `Lock` (its answer may be lost),
`InspectStale` and `InspectAndRetry` the reading of the lock's attributes,
`DeleteInspected` and `DeleteSuccessor` the two outcomes of the unconditional
deletion of a stale lock at `common.go:260`: the lock that was inspected, or one
that was created in between. `Read`, `Write` and their failures are the
critical section of any caller, `Unlock` deletes on the condition of the own
generation. `Crash` and `Expire` end an invocation anywhere. `Tick` moves the
lock's age and the invocation's clock.

The module knows the state object only as the set of invocations that have
applied an odd number of updates: an update computed from an outdated or an
empty state changes more than its own bit. `AtomicUpdates` is the promise:
every step flips exactly one. `UpdatesAreAtomic` is the refinement of it (the
object is mapped to itself).

`Next` is everything the code does. `CalmNext` leaves out two steps, each of
which breaks the promise: `DeleteSuccessor`, and `ReadErrorIgnored`, in which
`UpdateStateReporting` goes on with an empty state after a failed read.
`MutualExclusion` and `UpdatesAreAtomic` are claimed for `CalmSpec` only, and
hold there for that reason and no other; `lock_race` shows the first of the two
at work.

Generations are reused when nothing remembers them any more, which keeps the
state space finite without changing what a comparison of generations yields.

### Clusterization

`pc[v]` is the point an instance, or the handler it waits for, has reached.
Handlers that hold the lock for one read and one write are single steps guarded
by `Unlocked`; `ClusterizeFinalization`, which keeps the lock while it calls
other services, is a sequence (`LockAndRead`, `AddInstancesToGroup`, `Commit`)
during which `finalizer` blocks the others. This abstraction of the lock is what
`StateLock` shows under `CalmSpec`, and under `Spec` if the deletion of a stale
lock had a condition (section 4). `snap[v]` is `state.Instances` in the
handler's memory, which decides whether the instance completes the list.
`VmStep` collects the steps in which every request is answered, `Fault` the
failure of a request, script or service at each point, `Loss` lost answers with
the repeated call of `curl --retry`. `ScaleStep` is `scale_up`: its listing, its
reading of the desired size and each creation are separate steps, so executions
overlap everywhere. `AddUnacknowledged` and `CommitUnacknowledged` are writes
that were applied while `RetryWriteState` returned an error.
`ClusterizationInstance` is what `status` infers from the list. The reports in
`SetDeletionProtection` and `ReportErrorAndTerminateInstance` are whole updates
here: that a report goes on with an empty state after a failed read
(`common.go:515`) is left out of this module, also of its runs with faults.

`ClusterLife` is the promise: credentials are made once, all first instances
form the cluster at once, members get into the group, the cluster opens, others
join. `ImplementsLife` maps it: the credentials are `password`, the phase
follows from `clusterized` and from whether there are members, the served
members are the group. Everything else, the list above all, is a stutter.

### NfsGateways

The same handlers for gateways, with the differences of the code: a state object
of their own with `desired_size`, a count by label (`Counted`), the flag
`migrated` that `SetMigrated` writes before the setup script is returned, labels
set one by one during finalization (`LabelPort`), and `ReportMsg` in the
critical section (`PortLabelFails`, then `TimeOut` as the only way on, and the
lock left behind for `DeleteStaleLock`). Calls whose answers are lost are made
again: a `clusterize` that had returned the setup script is refused
(`ClusterizeUnanswered` at `form`), a finalization that was cut off starts over,
and one that had written `clusterized` finds an empty list (`CommitUnanswered`).
`holder` is the gateway or the
execution whose handler keeps the lock. `exec[s]` is the second half of a
`scale_up` execution: `ListGateways` counts, `ReadNfsState` reads the desired
size and the flag and decides whether to migrate or to create, and
`InspectInterfaceGroup` to `CommitMigration` are `MigrateExistingNFSInstances`
in its order, with a step for each label and each error. As in the code the
migration works on ports: a gateway with several ports is labelled, protected
and listed once for each (`PortsOf`, `PortsIn`, `Entries`). Initial states are a
new deployment and an upgraded one, whose gateways serve without labels and
whose interface group may be impaired; then the gateways go to the list instead
of `clusterized`, and the new gateway that completes this list has them in its
setup script, which adds to the interface group that there is
(`CreateInterfaceGroup`). `Completes` compares with `GatewaysNum` of the
environment, `HasRoom` with `Target` of the state object, as the code does.

What `MigratesExistingOnly` says is about the moment of the decision. An
execution that has read that nothing is migrated inspects the interface group
later; new gateways that set the flag and form the group meanwhile are then
taken for existing ones, labelled and, if the group is not up, listed. That is a
behaviour of the code and of the model; what it does not break is
`ServedByInterfaceGroup` and `NoExtraGateways`.

### ClusterTermination

`call` is one `TerminateCluster`: for each kind of machine `DeleteStateObject`
(no lock; an object that does not exist is tolerated, any other error ends the
call), `ListMachines`, `Unprotect`, `Delete`. It meets everything that is still
going on: `handler[h]`, updates of a state object between their reading and
their writing (reports and `clusterize` calls of machines that exist or are
being installed, finalizations, and migrations of a `scale_up` execution), of which a report goes on with an empty state when there is none
to read (`ReadState`, `ReadFails`); `exec[s]`, `scale_up` with the number it has
computed; `installing`, machines whose scripts still call the functions and that
get their protection meanwhile. A state object is its desired size here, or
`None`. The module starts from a cluster of which machines may be missing or
still be installed.

### ScaleDown, with MemberLife

Starts from any cluster that `Clusterization` leaves behind: founders may be
unprotected, because `clusterize` leaves an instance in the list when its
protection fails (`clusterize.go:179-183`), except the one that completed the
list, and a truncated listing may have kept some out of the group. Only later
instances call `join_finalization` (`Protect`, `AddToGroup`). `exec[e]` is an
execution of the workflow with the data passed from step to step and a clock.
`Fetch` lists the group, or a part of it when a listing ends early. `GiveUp` is
the external scale-down function: it removes members that are down or beyond the
fetched desired size and answers with the hosts that remain, all of them, also
those that were not fetched. `ListGroup`, `TerminateUnhealthy`, `Pick`,
`Unprotect` and `Delete` are `Terminate` in `terminate.go`, in its order, with
every error that is dropped there (`failed`, truncated listings). Ages and
clocks count in a coarse unit: only the order between the limit of an execution
and the grace period of 30 minutes is used.

Nothing in the code limits the time an instance takes to join, so `Join` happens
at any age. An instance whose age at that time is within the duration of an
execution of the grace period (`age + ExecTime >= Grace`) is no longer spared
when an execution compares the group with hosts that were listed before it
joined. The history variable `late` remembers these; they can be deleted while
the cluster has them, and nothing is claimed for them. With `Grace` of 30 and
`ExecTime` of 27 minutes that is every instance that needs three minutes or more,
as long as an execution can take its whole time. What is claimed: `MemberIsKept`
and `OnlyUnprotectedGo`, for the members that joined in time and for the
founders, of which an unprotected one is deleted when it is suspended and
otherwise as little as the others.

`SetForExplicitRemoval` compares what the code compares: `terminate.go:66`
compares an instance's self link with the identifier that `fetch.go:122` made
by formatting the *pointer* to the instance's number. They are never equal, so
explicit removal applies to no instance and every deletion has to wait for the
grace period. The model keeps both texts apart instead of assuming that they
are equal; the lemma `NothingIsExplicit` states the consequence.

`MemberLife` is the promise: an instance is created, joins, is served by the
group, and is deleted only after the cluster has given it up, if it is
*guarded*; the cluster gives up served members only; the group lets go of what is
deleted. `ImplementsLife` maps it from the instances' status, the members `weka`
and the group: guarded are the members that joined in time and the protected
founders, leftovers the instances that exist and are neither joining nor
members. Executions, their lists, clocks and protection are stutters, except
where they give up or delete. A call of `terminate` that took a joining instance
for a leftover would be a step that `MemberLife` does not have;
`MemberIsKept`, which speaks of members, would not notice it.

### Proof modules

`StateLockProofs`, `ClusterizationProofs`, `NfsGatewaysProofs`,
`ClusterTerminationProofs` and `ScaleDownProofs` extend the module of their
name. `GrowthProofs` extends `ClusterizationProofs` with what is counted.
`Counting` has the lemmas on finite sets that it and `NfsGatewaysProofs` share:
a set whose elements are charged to accounts, none to more than `d`, has at most
`d` elements for each account.

### MC modules

`MCStateLock`, `MCClusterization` and `MCScaleDown` only add the symmetry sets;
`MCNfsGateways` adds the number of ports, `MCClusterTermination` the order of the
two kinds of machines. Symmetry is not used with liveness.

## 3. What is checked

| Run | Configuration | Shows |
|---|---|---|
| `lock` | 2 invocations, everything that can fail, fair | types; no verdict "stale" is ever passed on the lock of a live holder; a lock left behind is removed some time |
| `lock_calm` | 3 invocations, `CalmSpec` | mutual exclusion; refinement of `AtomicUpdates` |
| `lock_race` | 3 invocations | *violated:* only leftovers are deleted |
| `growth` | 4 instances, one execution, size 2 then 3, failing requests (except the failed read of a report, `common.go:515`), lost answers | types; never more instances than desired for each execution; the group holds members only; clusterized means formed; status names the instance that forms the cluster; the password is set once; refinement of `ClusterLife` |
| `steady` | 3 instances, 2 executions, no faults, fair | the cluster comes up complete, protected and in its group |
| `retried_call` | one repeated call | *violated:* an extra instance is not in the list |
| `deploy_failure` | fair | *violated:* an instance whose deployment failed is deleted |
| `truncated_listing` | | *violated:* when clusterized, members are in the group |
| `scale_down` | 2 instances of which one is a founder, 2 executions, all faults | types; who joined in time is neither deleted nor left unprotected in the group, and no running member is taken for a leftover; refinement of `MemberLife` |
| `shrink` | 2 founders, protected or not, in the group or not, and one instance that joins; one deletion per call, fair | a founder is deleted as an unprotected, suspended one only; what was given up is deleted in the end |
| `nfs` | 3 gateways of which one may exist before, size 2 then 3, one execution, all faults, fair | types; what is in the group or labelled is in the interface group; who serves is counted once migrated; whoever decides to migrate has existing gateways before it only; no gateway too many; an old gateway is listed once; the lock becomes free |
| `terminate` | 3 machines of two kinds, one late update, one execution, one failing request, fair | types; what is gone stays gone; repeated calls make it so |

Each property of a passing run has a mutant in `PROJECT.json`: a plausible
mistake in the code (a dropped condition, a limit that is too short, a list that
is not emptied) with which TLC finds the property violated.

### Findings

* `lock_race`, `common.go:260`: two callers find the same stale lock. The first
  deletes it and takes a new one; the second, which decided before, deletes that
  one. Two handlers are then in the critical section. A deletion on the
  condition of the inspected generation would prevent it, as `ConditionExcludes`
  and `ConditionSpares` prove; nothing else in `Lock` has to change.
* `retried_call`, `common.go:455`: an instance that completed the list and whose
  answer was lost calls again; the list is full, so the instance is refused as
  an extra one and terminated although the cluster was to be formed with it.
  The repetition is the only cause: `ExtraUnlisted` proves the property for
  clusters whose instances call once, and `MembersExist` that no member of the
  cluster is terminated then.
* `deploy_failure`, `scale_up.go:143`: `(deploy.sh | tee log) || self_deleting`
  has the status of `tee`; a failed instance is never deleted, and because it
  still counts as a backend it is never replaced.
* `truncated_listing`, `common.go:194`: an error of a listing ends the listing
  and is not returned. `ClusterizeFinalization` adds the instances it found to
  the group and marks the cluster as clusterized. `GroupIsWhole` proves that a
  finalization that finds its instances puts all members in the group, if each
  instance called `clusterize` once.

### Bounds

* Three invocations in `lock_calm` and `lock_race`: the race on a stale lock needs
  a leftover, whose creator may be gone, and two callers, one of which takes the
  new lock. A third lets a live holder exist beside two callers. `lock` has two,
  a holder and a caller, because liveness is checked without symmetry; the
  proofs of its two safety properties are for any number. There are more generations than can be
  remembered when one is created, so `Fresh` never stops a creation.
* `Timeout = Stale = 1`: the weakest case of `Timeout <= Stale` in which time
  passes both for a holder and for its lock. The proofs cover all others.
* Three or four instances with a target of two: two to form the cluster, one
  extra, one that joins after a resize. One lost answer per instance
  (`Retries`) suffices to repeat a call at any point; the counter only bounds
  the model. When names run out, an execution of `scale_up` ends in an error.
* `nfs`: a gateway that exists, one that is created to reach the target of two,
  and a third that joins after a resize or takes the place of an extra one. One
  lost answer per gateway. There is one execution, and one port per gateway, so
  that the list of an impaired group has room for a new gateway, which completes
  it and rebuilds the group. `MigratedOnce` and `NoExtraGateways` are stated, and
  proved, for any number of executions and ports. Two executions that overlap
  both pass the test of the flag, and both count before they create, so gateways
  are listed twice and too many are created, but no more than once for each
  execution (and port). `GatewaysNum = Target`, as terraform sets both; the
  proofs need `Target <= GatewaysNum` only (`GatewaysAssumption`).
* `terminate`: three names for two kinds of machines of one each, so that
  `scale_up` can create a machine of either kind while the call lists or
  deletes. One update (`Calls`) suffices to write a state object again, one
  failure (`Failures`) can hit any request of the call.
* `scale_down`: one founder and one that joins in time or late, leaves, or is
  compared with an old list, and two executions that use lists of different age.
  `Grace = 2`, `ExecTime = 1` is the smallest choice with `ExecTime < Grace` in
  which time passes within an execution; an instance joins in time at the age of
  0. A single founder has completed the list, so it is protected and in the
  group; `shrink` has two founders, of which one may be neither. There time does
  not pass within an execution (`ExecTime = 0`, `Grace = 1`), and `MaxBatch = 1`
  makes the batch limit (50 in the code) matter with three instances.

### Fairness

* `lock`: handlers are called again and again because two workflows run
  every minute and instances report (WF of `Start`); an invocation past its
  timeout is ended by the platform (WF of `Expire`). Strong fairness for the
  requests says that a request that can be sent again and again is served some
  time: without it the platform could end every invocation just before it.
  Nothing is assumed of `Unlock`, so the lock may be left behind each time.
* `nfs`: only that the lock's holder goes on, or the function times out
  (`CriticalStep`, `TimeOut`, `MigrationStep`), and that somebody who waits for
  the lock inspects it when it is stale. Nothing says that gateways or
  executions make progress elsewhere.
* `terminate`: the administrator calls again as long as something is left, and a
  call that meets no failure goes on; failures are bounded. Handlers that have
  begun, executions that create, and the scripts of machines end, as the limits
  of functions and scripts make them.
* `steady`: instances go on, the scheduler starts executions (WF), executions
  may fail, but not for ever at the same request (SF). Without faults of the
  handlers only: the code has no recovery from an instance that is in the list
  and is lost, so nothing could be promised.
* `shrink`: the scheduler starts executions, deletions are carried out (WF), time
  passes, and each request of the workflow succeeds some time (SF); nothing says
  that instances join. Listings are complete in `FairSpec`: two listings that
  omit the same instance in turn would keep it for ever. Instances that can
  never be deleted are excluded by this, and they would stay in front of the
  others in the batch for good.
* `deploy_failure`: the violated property is a liveness property, so it is
  checked under `FairSpec`, which contains the progress of each instance.

## 4. What is proved

`StateLockProofs`, for any set of invocations and any `Timeout <= Stale`:

* `TypeCorrect`, `NoVerdict`: the inductive invariant needs two more parts.
  `Memory`: an invocation remembers a generation exactly at the points where
  the code has a variable for it. `LockYoungerThanHolder`: while an invocation
  holds the lock it created, the lock is no older than the invocation. With
  `Timeout <= Stale` a stale lock has no live holder, and because a generation
  that is remembered is not handed out again, this stays true of the generation
  a caller decided to delete.
* `Exclusion`, for `CalmSpec`: every holder's generation is that of the lock
  object.
* `ConditionExcludes` and `ConditionSpares`, for `Spec` and the hypothesis
  `DeletesInspected`: a caller that deletes a stale lock deletes the one it has
  inspected, which the code does not ensure and a generation condition on the
  deletion would. Then mutual exclusion holds, and only leftovers are deleted.
  The invariant is that of `Exclusion`; `NoVerdict` gives the step, because the
  inspected lock has no live holder.
* `Refinement`, for `CalmSpec`: `CalmSpec => Atomic!Spec`. What a holder has
  read is still the object's value when it writes.

`ScaleDownProofs`, for any finite set of instances, any founders (protected and in
the group or not), any number of executions, any batch limit, and any times with
`ExecTime < Grace` (the three functions of an execution have 540 seconds each,
the grace period of `terminate.go:86` is 30 minutes):

* `TypeCorrect` and `MembersAreKept`. The inductive invariant says why a list of
  hosts that is old does no harm to who joined in time. `HostsAreRecent`: a
  member that the list of an execution does not name joined after the list was
  made, and unless it was late its age is below the grace period by as much as
  the execution has time left. `ChosenAreLeftovers`: what an execution has chosen
  for deletion has joined once, and is no member, or a late one, and cannot
  become one again. `GroupHasJoined` connects the two. Nothing is assumed of the
  time to join: late members are exempt from the statement, and counted as
  late by their age when they join.
* `MembersGoUnprotected`: `Spec => OnlyUnprotectedGo`, from the same invariant. Of
  the three steps that could harm a member, `Unprotect` and `Delete` work on
  chosen ones, and `TerminateUnhealthy` on unprotected ones in the group, which
  are founders by `MemberIsKept`.
* `Refinement`: `Spec => ImplementsLife`. Each step of an instance is its own step
  of `MemberLife`. The steps of executions need one more part of the invariant,
  `FetchedAreServed`: what an execution has fetched has joined, and is in the
  group as long as it is a member, so the cluster gives up served members only
  (`LifeGiveUp`). `ChosenAreLeftovers` gives the deletions (`LifeDelete`), of
  which `MemberLife` sees those that are not being deleted already.

`ClusterizationProofs`, for any number of instances and executions, any number of
repeated calls and any desired sizes, with `Target <= HostsNum`
(`HostsAssumption`: terraform computes both from `cluster_size`, and a later
apply changes `HOSTS_NUM` only, since the state object ignores changes):

* `TypeCorrect`, `GroupCorrect`, `ClusterizedCorrect`, `PasswordCorrect`. The
  inductive invariant: `Lists`, what a handler remembers of the list is no
  longer than the list, and is the list when it is full; `OneCompletes`, at most
  one handler has completed it, and none has any more once there is a password;
  `Owner`, who forms or finalizes is the one the password was set for;
  `Formation`, how the members, the group and `clusterized` depend on that. The
  assumption is needed where an instance is added: a list with room for one more
  is not yet full for anybody.
* `StatusCorrect` adds `Named` to it: who has just been added is the last of the
  list it remembers, so who was given the password is the last of the full list.
* `Refinement`: `Spec => ImplementsLife`. `Effects` shows that all but six kinds of
  steps change nothing that `ClusterLife` sees, `LifeStep` maps these six.
* `ExtraUnlisted`, `GroupIsWhole` and `MembersExist` are the converses of two
  findings: under `CalledOnce` (no instance calls `clusterize` again; every
  other failure remains, repeated finalizations included) and, for the second,
  `FindsAll` (finalization finds its instances) the documented promises hold.
  `ListStays`: who is in the list is in the handler or waits, and has not been
  refused. `WholeList`: until the cluster is clusterized its members are the
  list, and finalization commits when all of it is in the group. `MembersStay`:
  members are at points of the script from which nobody deletes them; with
  repeated calls TLC finds one that is refused and a member.

`GrowthProofs`, for any number of instances, of executions and any desired sizes:

* `GrowthCorrect`: while nobody asks for a smaller cluster, there are at most
  `desired` instances for each execution. No bound on the number of instances
  alone is inductive, since an execution creates according to an old count; so
  every instance is charged to an execution (`Shared`). An execution that lists
  no more than desired instances takes all of them upon itself; then its own
  share, with what it is about to create, never exceeds desired, and the others'
  shares have become smaller. An execution that lists more creates nothing and
  keeps its share.
* `GrowthBounded` drops the hypothesis: with sizes up to `d`, at most `d` for each
  execution.

`NfsGatewaysProofs`, for any number of gateways, existing ones, ports and overlapping
executions, with `Target <= GatewaysNum` (both are made from
`nfs_protocol_gateways_number`):

* `TypeCorrect`, `ServedCorrect`, `CountedCorrect`, `MigratesExisting`. The parts of
  the invariant: `Created`, who is not of an older deployment has its label;
  `Pending`, as long as a gateway serves without label nothing is migrated, no
  gateway is created, and each execution that gets to the migration knows all
  of them; `Flagged`, who forms, joins or finalizes comes after the flag, and
  before it the interface group has existing gateways only; `Known`, what
  executions, the group and the port label know is in the interface group;
  `Listed`, a full list only grows by gateways that are in the interface group,
  so that whoever is given the setup script has all others in it, and what a
  finalization reads, the first time or again, is in the interface group. The
  frame lemmas say that a step of one actor leaves the other actors' part alone
  as long as the list only grows.
* `ExtraCorrect` (while nobody asks for fewer) and `ExtraBounded`: the argument of
  `GrowthProofs` for gateways. Those that are not migrated yet escape the count
  by label; `Pending` says that none is created as long as there are any, and
  the execution that sets the last label is charged all of them, which is where
  the number of existing gateways comes in.
* `MigratedOnceCorrect`: an execution that has found the gateways not migrated is
  `InFlight` until it writes; once the flag is set none joins them. `Once`: the
  entries of an older gateway in the list, and one for each of its ports and each
  execution in flight, are together no more than its ports times the executions.

`ClusterTerminationProofs`, for any number of machines, handlers and executions:

* `TypeCorrect`, and `TerminationLasts`: the state in which nothing exists and
  nobody remembers a desired size is closed under every step, faults and late
  writes included. That it is reached is liveness, and model-checked.

Only model-checked: the liveness properties (`LockEventuallyFree` of `lock` and
`nfs`, `ClusterComes`, `LeftoversGo`, `ClusterGoes`, and the violated
`FailedDeployIsDeleted`), because TLAPS does not handle `ENABLED` and fairness
here. Every invariant, action property and refinement of a passing run has its
theorem.

The hypotheses on behaviours are of two kinds. `NeverShrinks`, `CalledOnce` and
`FindsAll` hold of clusters that nobody shrinks, whose calls of `clusterize` are
answered, and whose listings are complete. `DeletesInspected` holds as long as no
two callers find the same stale lock, and would hold always with the condition.

## 5. Not modelled

* Removal of gateways, which is disabled in `main.go:543`, and the NFS part of
  `fetch`, which only serves it.
* The content of reports, the rest of `status`, and the choice of scripts in
  `deploy` beyond deploy or join: data. `transient` formats the errors of its
  request, the dispatch selects a handler by name: pure functions.
* The two halves of one `scale_up` execution are in two modules; only that the
  backends' `clusterized` is read first connects them, and `StartScaleUp` of
  `NfsGateways` does that. `ClusterTermination` has both halves in sequence.
* The empty state that a report writes after a failed read (`common.go:515`) is in
  `StateLock` and, after a deletion, in `ClusterTermination`; `Clusterization` and
  `NfsGateways` report without it.
* Reading of secrets, formatting of scripts and reports, the object store
  bucket, load balancer details, terraform: data or declarations.
* In `ScaleDown` an address is never used by a second instance; the code
  compares private addresses, and one that is reused would spare a leftover.
* The external scale-down function is modelled by what the code here relies on.
  That its answer lists all hosts that remain, also those the listing of `fetch`
  missed, is an assumption on it.
* In `ScaleDown` founders do not call `join_finalization`, and a member that joined
  late has no promise (section 2).

## 6. Plan

Order of the work, most important first. The first seven are done.

1. `AtomicUpdates`, `StateLock`, `StateLockProofs`: what every handler rests on.
2. `Clusterization`: from nothing to a cluster, and growth.
3. `ScaleDown`, `MemberLife`, `ScaleDownProofs`: from a cluster to a smaller one.
4. `ClusterLife`, `ClusterizationProofs`: that one cluster is formed, once.
5. `NfsGateways`, `NfsGatewaysProofs`: gateways, and how they are taken over.
6. `ClusterTermination`, `ClusterTerminationProofs`: the end.
7. `Counting`, `GrowthProofs` and the counting part of `NfsGatewaysProofs`: how
   much overlapping executions create; the converses of the findings.
8. The mapping of `Clusterization` to a version over the lock of `StateLock`
   instead of atomic handlers, as a refinement.
9. The content of the state object through a read error in
   `UpdateStateReporting` (`common.go:515`) while a cluster is formed.
10. What one `terminate_cluster` call guarantees when it ends without an error,
    as a theorem of `ClusterTermination`.
