-------------------------- MODULE ClusterTermination --------------------------
(***************************************************************************)
(* terminate_cluster, beside everything that goes on meanwhile.            *)
(*                                                                         *)
(* The call deletes the state object of the gateways and their machines,   *)
(* then those of the backends.  It takes no lock: handlers that are inside *)
(* their critical section write what they have read, and a report writes   *)
(* an empty state when there is none.  scale_up executions go on with the  *)
(* number they have computed, and machines that are installed get their    *)
(* deletion protection.  The administrator calls again until all is gone.  *)
(***************************************************************************)
EXTENDS Integers, Sequences, FiniteSets

CONSTANTS
    Names,      \* of machines; each is used once
    Handlers,   \* invocations that update a state object
    Scalers,    \* scale_up executions
    Order,      \* the kinds of machines in the order of termination
    Size,       \* the size of each kind
    Calls,      \* bound on the updates that machines ask for
    Failures,   \* bound on the requests of terminate_cluster that fail
    None

ASSUME KindAssumption == Order \in {<<"backends">>, <<"nfs", "backends">>}
ASSUME SizeAssumption == Size \in Nat \ {0} /\ {Calls, Failures} \subseteq Nat
ASSUME FiniteAssumption == IsFiniteSet(Names) /\ None \notin Nat \cup Handlers

Kinds == {Order[i] : i \in DOMAIN Order}

VARIABLES
    object,     \* "desired_size" of each state object, None when there is none
    lock,       \* the handler in the critical section of each object
    machine,    \* the kind of each machine that exists
    protected,  \* machines with deletion protection
    installing, \* machines whose scripts still call the functions
    handler, exec, calls,
    call,       \* TerminateCluster
    failures

vars == <<object, lock, machine, protected, installing, handler, exec, calls, call,
          failures>>

Idle == [at |-> "off", kind |-> "backends", size |-> 0]
Off == [at |-> "off", kind |-> "backends", number |-> 0]
Done == [at |-> "off", turn |-> 1, todo |-> {}, listed |-> {}]

Updates == [at : {"off", "read", "write"}, kind : Kinds, size : 0 .. Size]
Executions == [at : {"off", "list", "read", "create"}, kind : Kinds,
               number : 0 .. Cardinality(Names) + Size]
Terminations == [at : {"off", "state", "list", "unprotect", "delete"},
                 turn : DOMAIN Order, todo : SUBSET Names, listed : SUBSET Names]

TypeOK ==
    /\ object \in [Kinds -> 0 .. Size \cup {None}]
    /\ lock \in [Kinds -> Handlers \cup {None}]
    /\ machine \in [Names -> Kinds \cup {"absent", "gone"}]
    /\ protected \subseteq Names /\ installing \subseteq Names
    /\ handler \in [Handlers -> Updates]
    /\ exec \in [Scalers -> Executions]
    /\ calls \in 0 .. Calls
    /\ call \in Terminations
    /\ failures \in 0 .. Failures

Exists(n) == machine[n] \in Kinds
Machines(k) == {n \in Names : machine[n] = k}

\* A cluster that is formed and wants its machines; some may be missing.
Init ==
    /\ object = [k \in Kinds |-> Size]
    /\ lock = [k \in Kinds |-> None]
    /\ machine \in [Names -> Kinds \cup {"absent"}]
    /\ \A k \in Kinds : Cardinality(Machines(k)) <= Size
    /\ installing \in SUBSET {n \in Names : Exists(n)}
    /\ protected = {n \in Names : Exists(n)} \ installing
    /\ handler = [h \in Handlers |-> Idle]
    /\ exec = [s \in Scalers |-> Off]
    /\ calls = 0
    /\ call = Done
    /\ failures = 0

\* A variant that the run rejects: a state object that is missing is taken for one
\* that wants the cluster.
ReadOrDefault(k) == IF object[k] = None THEN Size ELSE object[k]

------------------------------------------------------------------------------
(* Updates of a state object                                                *)

\* A machine reports, or its scripts call clusterize or a finalization, or a scale_up
\* execution migrates gateways: each keeps the size it has read.
StartUpdate(h, k) ==
    /\ handler[h].at = "off" /\ lock[k] = None
    /\ calls < Calls
    /\ \/ \E n \in Names : Exists(n) \/ n \in installing
       \/ \E s \in Scalers : exec[s].at # "off"
    /\ handler' = [handler EXCEPT ![h] = [at |-> "read", kind |-> k, size |-> 0]]
    /\ lock' = [lock EXCEPT ![k] = h]
    /\ calls' = calls + 1
    /\ UNCHANGED <<object, machine, protected, installing, exec, call,
                   failures>>

\* The state that a report goes on with, whether or not it could be read
ReadState(k) == IF object[k] = None THEN 0 ELSE object[k]

HandlerStep(h, to, newLock) ==
    /\ handler' = [handler EXCEPT ![h] = to]
    /\ lock' = [lock EXCEPT ![handler[h].kind] = newLock]
    /\ UNCHANGED <<machine, protected, installing, exec, calls, call,
                   failures>>

Read(h) ==
    /\ handler[h].at = "read"
    /\ HandlerStep(h, [handler[h] EXCEPT !.at = "write",
                                         !.size = ReadState(handler[h].kind)], h)
    /\ UNCHANGED object

\* A report ignores the error, others return it.
ReadFails(h) ==
    /\ handler[h].at = "read"
    /\ \/ HandlerStep(h, [handler[h] EXCEPT !.at = "write", !.size = 0], h)
       \/ HandlerStep(h, Idle, None)
    /\ UNCHANGED object

Write(h) ==
    /\ handler[h].at = "write"
    /\ object' = [object EXCEPT ![handler[h].kind] = handler[h].size]
    /\ HandlerStep(h, Idle, None)

\* The write fails, or the function ends (the lock is removed later: StateLock).
WriteFails(h) ==
    /\ handler[h].at = "write"
    /\ HandlerStep(h, Idle, None)
    /\ UNCHANGED object

------------------------------------------------------------------------------
(* scale_up: the backends, then the gateways                                *)

ScaleTo(s, to) ==
    /\ exec' = [exec EXCEPT ![s] = to]
    /\ UNCHANGED <<object, lock, handler, calls, call, protected, failures>>

StartScaleUp(s) ==
    /\ exec[s].at = "off"
    /\ ScaleTo(s, [Off EXCEPT !.at = "list"])
    /\ UNCHANGED <<machine, installing>>

List(s) ==
    /\ exec[s].at = "list"
    /\ ScaleTo(s, [exec[s] EXCEPT !.at = "read",
                                  !.number = Cardinality(Machines(exec[s].kind))])
    /\ UNCHANGED <<machine, installing>>

\* After the backends, the gateways
NextKind(k) ==
    IF k = "backends" /\ "nfs" \in Kinds
      THEN [Off EXCEPT !.at = "list", !.kind = "nfs"] ELSE Off

\* A variant that the run rejects: the sizes are compared for being different.
ReadDifference(s) ==
    /\ exec[s].at = "read"
    /\ lock[exec[s].kind] = None
    /\ object[exec[s].kind] # None
    /\ ScaleTo(s, IF exec[s].number # object[exec[s].kind]
                    THEN [exec[s] EXCEPT !.at = "create",
                            !.number = object[exec[s].kind] - exec[s].number]
                    ELSE NextKind(exec[s].kind))
    /\ UNCHANGED <<machine, installing>>

ReadDesiredSize(s) ==
    /\ exec[s].at = "read"
    /\ lock[exec[s].kind] = None
    /\ object[exec[s].kind] # None
    /\ ScaleTo(s, IF exec[s].number < object[exec[s].kind]
                    THEN [exec[s] EXCEPT !.at = "create",
                            !.number = object[exec[s].kind] - exec[s].number]
                    ELSE NextKind(exec[s].kind))
    /\ UNCHANGED <<machine, installing>>

Create(s) ==
    /\ exec[s].at = "create"
    /\ \E n \in Names :
         /\ machine[n] = "absent"
         /\ machine' = [machine EXCEPT ![n] = exec[s].kind]
         /\ installing' = installing \cup {n}
    /\ ScaleTo(s, IF exec[s].number > 1
                    THEN [exec[s] EXCEPT !.number = exec[s].number - 1]
                    ELSE NextKind(exec[s].kind))

\* There is no state object, or another request fails.
ScaleUpFails(s) ==
    /\ exec[s].at # "off"
    /\ ScaleTo(s, Off)
    /\ UNCHANGED <<machine, installing>>

------------------------------------------------------------------------------
(* Machines                                                                 *)

\* clusterize or join_finalization protects it, at the latest when its scripts
\* end.
Protect(n) ==
    /\ n \in installing /\ Exists(n)
    /\ protected' = protected \cup {n}
    /\ installing' = installing \ {n}
    /\ UNCHANGED <<object, lock, machine, handler, exec, calls, call, failures>>

InstallationEnds(n) ==
    /\ n \in installing
    /\ installing' = installing \ {n}
    /\ UNCHANGED <<object, lock, machine, protected, handler, exec, calls, call,
                   failures>>

------------------------------------------------------------------------------
(* terminate_cluster                                                        *)

CallTo(to) ==
    /\ call' = to
    /\ UNCHANGED <<lock, handler, exec, calls, installing>>

Succeeds(to) == CallTo(to) /\ UNCHANGED failures

\* A request fails: the call goes on, or ends.
Fails(to) ==
    /\ failures < Failures
    /\ failures' = failures + 1
    /\ CallTo(to)
    /\ UNCHANGED <<object, machine, protected>>

Kind == Order[call.turn]

\* The next kind, or the end
Continue == IF call.turn < Len(Order)
              THEN [Done EXCEPT !.at = "state", !.turn = call.turn + 1] ELSE Done

\* The administrator calls (again) when there is something left.
StartTermination ==
    /\ call.at = "off"
    /\ \/ \E k \in Kinds : object[k] # None
       \/ \E n \in Names : Exists(n)
    /\ Succeeds([Done EXCEPT !.at = "state"])
    /\ UNCHANGED <<object, machine, protected>>

\* A variant that the run rejects: there must be an object to delete.
DeleteExisting ==
    /\ call.at = "state" /\ object[Kind] # None
    /\ object' = [object EXCEPT ![Kind] = None]
    /\ Succeeds([call EXCEPT !.at = "list"])
    /\ UNCHANGED <<machine, protected>>

\* storage.ErrObjectNotExist is tolerated.
DeleteStateObject ==
    /\ call.at = "state"
    /\ object' = [object EXCEPT ![Kind] = None]
    /\ Succeeds([call EXCEPT !.at = "list"])
    /\ UNCHANGED <<machine, protected>>

\* Any other error ends the call.
DeleteStateObjectFails ==
    /\ call.at = "state"
    /\ Fails(Done)

\* GetInstancesByLabel
ListMachines ==
    /\ call.at = "list"
    /\ Succeeds([call EXCEPT !.at = "unprotect", !.todo = Machines(Kind)])
    /\ UNCHANGED <<object, machine, protected>>

\* An error of the listing is told to the administrator, and that is all.
ListMachinesFails ==
    /\ call.at = "list"
    /\ Fails(Continue)

Unprotect(n) ==
    /\ call.at = "unprotect" /\ n \in call.todo
    /\ protected' = protected \ {n}
    /\ Succeeds([call EXCEPT !.todo = call.todo \ {n},
                           !.listed = call.listed \cup {n}])
    /\ UNCHANGED <<object, machine>>

\* It is not asked to be deleted then.
UnprotectFails(n) ==
    /\ call.at = "unprotect" /\ n \in call.todo
    /\ Fails([call EXCEPT !.todo = call.todo \ {n}])

AllUnprotected ==
    /\ call.at = "unprotect" /\ call.todo = {}
    /\ Succeeds(IF call.listed = {} THEN Continue ELSE [call EXCEPT !.at = "delete"])
    /\ UNCHANGED <<object, machine, protected>>

Rest(n) == IF call.listed = {n} THEN Continue
           ELSE [call EXCEPT !.listed = call.listed \ {n}]

\* A machine that is protected again, or gone, is left as it is.
Delete(n) ==
    /\ call.at = "delete" /\ n \in call.listed
    /\ machine' = IF n \in protected THEN machine
                  ELSE [machine EXCEPT ![n] = "gone"]
    /\ Succeeds(Rest(n))
    /\ UNCHANGED <<object, protected>>

DeleteFails(n) ==
    /\ call.at = "delete" /\ n \in call.listed
    /\ Fails(Rest(n))

\* The function ends, or times out.
TerminationDies ==
    /\ call.at # "off"
    /\ Fails(Done)

------------------------------------------------------------------------------

HandlerNext(h) ==
    \/ \E k \in Kinds : StartUpdate(h, k)
    \/ Read(h) \/ ReadFails(h) \/ Write(h) \/ WriteFails(h)

ScaleNext(s) ==
    \/ StartScaleUp(s) \/ List(s) \/ ReadDesiredSize(s) \/ Create(s)
    \/ ScaleUpFails(s)

MachineNext(n) == Protect(n) \/ InstallationEnds(n)

Terminate ==
    \/ StartTermination \/ DeleteStateObject \/ ListMachines \/ AllUnprotected
    \/ \E n \in Names : Unprotect(n) \/ Delete(n)

TerminateFails ==
    \/ DeleteStateObjectFails \/ ListMachinesFails \/ TerminationDies
    \/ \E n \in Names : UnprotectFails(n) \/ DeleteFails(n)

Next ==
    \/ \E h \in Handlers : HandlerNext(h)
    \/ \E s \in Scalers : ScaleNext(s)
    \/ \E n \in Names : MachineNext(n)
    \/ Terminate \/ TerminateFails

Spec == Init /\ [][Next]_vars

\* The administrator calls until nothing is left.  Handlers and executions end,
\* and so do the scripts of machines.
Fairness ==
    /\ \A h \in Handlers : WF_vars(Read(h) \/ Write(h) \/ WriteFails(h))
    /\ \A s \in Scalers : WF_vars(Create(s) \/ ScaleUpFails(s))
    /\ \A n \in Names : WF_vars(InstallationEnds(n))
    /\ WF_vars(Terminate)

FairSpec == Spec /\ Fairness

------------------------------------------------------------------------------
(* Properties                                                               *)

\* Nothing exists, no state object wants anything, and nobody remembers one that
\* did.
Terminated ==
    /\ \A n \in Names : ~Exists(n)
    /\ \A k \in Kinds : object[k] \in {0, None}
    /\ \A h \in Handlers : handler[h].size = 0
    /\ \A s \in Scalers : exec[s].at # "create"

\* Once that is so, neither a late report, which writes a state object again,
\* nor scale_up brings the cluster back.
StaysTerminated == [][Terminated => Terminated']_vars

\* "this function needs to be executed prior to terraform destroy": whatever
\* fails and is called again, late handlers and machines created meanwhile
\* included, the cluster is gone some time.
ClusterGoes == <>[]Terminated
==============================================================================
