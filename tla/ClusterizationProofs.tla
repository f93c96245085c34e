------------------------ MODULE ClusterizationProofs ------------------------
(***************************************************************************)
(* That one cluster is formed, with one password, and that the group and   *)
(* "clusterized" say the truth about it, for any number of instances, of   *)
(* overlapping scale_up executions and of repeated calls, whatever fails,  *)
(* when clusterization_target <= HOSTS_NUM.                                *)
(***************************************************************************)
EXTENDS Clusterization, FiniteSetTheorems, TLAPS

------------------------------------------------------------------------------
(* Types                                                                    *)

LEMMA BackendsCount == Cardinality(Backends) \in Nat
<1>1. Backends \subseteq Vms
  BY DEF Backends
<1>2. IsFiniteSet(Backends)
  BY <1>1, VmsAssumption, FS_Subset
<1> QED
  BY <1>2, FS_CardinalityType

LEMMA InitTypeOK == Init => TypeOK
<1>1. SUFFICES ASSUME Init PROVE TypeOK
  OBVIOUS
<1>2. <<>> \in Seq(Vms)
  OBVIOUS
<1>3. instances \in Seq(Vms) /\ snap \in [Vms -> Seq(Vms)]
  BY <1>1, <1>2 DEF Init
<1>4. desired \in Nat /\ retries \in [Vms -> 0 .. Retries]
  BY <1>1, SizeAssumption DEF Init
<1>5. pc \in [Vms -> Points]
  BY <1>1 DEF Init, Points
<1>6. scale \in [Scalers -> [at : {"off", "list", "read", "create"},
                             backends : Nat, missing : Nat]]
  BY <1>1 DEF Init, Off
<1> QED
  BY <1>1, <1>3, <1>4, <1>5, <1>6 DEF Init, TypeOK

\* The steps of instances that change no more than where they are.
LEMMA StepType ==
    ASSUME TypeOK, NEW v \in Vms, NEW from, NEW to \in Points, Step(v, from, to)
    PROVE  TypeOK'
BY DEF TypeOK, Step, Goto, state, cloud

LEMMA VmStepType ==
    ASSUME TypeOK, NEW v \in Vms, VmStep(v)
    PROVE  TypeOK'
<1> USE DEF Points, Clusterizing, Finalizing
<1>1. CASE FetchDeployScript(v)
  BY <1>1, StepType DEF FetchDeployScript
<1>2. CASE FetchJoinScript(v)
  BY <1>2, StepType DEF FetchJoinScript
<1>3. CASE DeploySucceeds(v)
  BY <1>3, StepType DEF DeploySucceeds
<1>4. CASE StartupEnds(v)
  BY <1>4, StepType DEF StartupEnds
<1>5. CASE CallClusterize(v)
  BY <1>5, StepType DEF CallClusterize
<1>6. CASE AddInstance(v)
  BY <1>6 DEF AddInstance, AppendInstance, TypeOK, Goto, cloud
<1>7. CASE RefuseExtra(v)
  BY <1>7, StepType DEF RefuseExtra
<1>8. CASE TerminateExtra(v)
  BY <1>8, StepType DEF TerminateExtra
<1>9. CASE SelfDelete(v)
  BY <1>9 DEF SelfDelete, TypeOK, Goto, state
<1>10. CASE SetDeletionProtection(v)
  BY <1>10 DEF SetDeletionProtection, TypeOK, Goto, state
<1>11. CASE Wait(v)
  BY <1>11, StepType DEF Wait
<1>12. CASE GenerateScript(v)
  BY <1>12 DEF GenerateScript, SetPassword, TypeOK, Goto, state
<1>13. CASE FormCluster(v)
  BY <1>13 DEF FormCluster, CanForm, TypeOK, Goto, state, Range
<1>14. CASE LockAndRead(v)
  BY <1>14 DEF LockAndRead, TypeOK, Goto, cloud
<1>15. CASE AddAllToGroup(v)
  BY <1>15 DEF AddAllToGroup, AddInstancesToGroup, Found, Backends, TypeOK,
               Goto, state
<1>16. CASE Commit(v)
  BY <1>16 DEF Commit, WriteClusterized, TypeOK, Goto, cloud
<1>17. CASE JoinCluster(v)
  BY <1>17 DEF JoinCluster, TypeOK, Goto, state
<1>18. CASE ProtectJoined(v)
  BY <1>18 DEF ProtectJoined, TypeOK, Goto, state
<1>19. CASE AddJoinedToGroup(v)
  BY <1>19 DEF AddJoinedToGroup, TypeOK, Goto, state
<1> QED
  BY <1>1, <1>2, <1>3, <1>4, <1>5, <1>6, <1>7, <1>8, <1>9, <1>10, <1>11, <1>12,
     <1>13, <1>14, <1>15, <1>16, <1>17, <1>18, <1>19 DEF VmStep

LEMMA ScaleStepType ==
    ASSUME TypeOK, NEW s \in Scalers, ScaleStep(s) \/ ScaleUpFails(s)
    PROVE  TypeOK'
<1> USE DEF Points, Clusterizing, Finalizing
<1>1. CASE StartScaleUp(s)
  BY <1>1 DEF StartScaleUp, ScaleTo, TypeOK, Off, state, cloud, local
<1>2. CASE ListBackends(s)
  BY <1>2, BackendsCount DEF ListBackends, ScaleTo, TypeOK, state, cloud, local
<1>3. CASE ReadDesiredSize(s)
  <2>1. Missing(s) \in Nat
    BY DEF Missing, TypeOK
  <2> QED
    BY <1>3, <2>1 DEF ReadDesiredSize, ScaleTo, TypeOK, Off, state, cloud, local
<1>4. CASE CreateBackend(s)
  <2>1. scale' \in [Scalers -> [at : {"off", "list", "read", "create"},
                                backends : Nat, missing : Nat]]
    BY <1>4 DEF CreateBackend, TypeOK, Off
  <2> QED
    BY <1>4, <2>1 DEF CreateBackend, TypeOK, Goto, state, cloud
<1>5. CASE ScaleUpFails(s)
  BY <1>5 DEF ScaleUpFails, ScaleTo, TypeOK, Off, state, cloud, local
<1> QED
  BY <1>1, <1>2, <1>3, <1>4, <1>5 DEF ScaleStep

LEMMA FaultType ==
    ASSUME TypeOK, NEW v \in Vms, Fault(v)
    PROVE  TypeOK'
<1> USE DEF Points, Clusterizing, Finalizing
<1>1. CASE BootFails(v) \/ DeployFails(v) \/ JoinFails(v)
  BY <1>1, StepType DEF BootFails, DeployFails, JoinFails
<1>2. CASE AddUnacknowledged(v)
  BY <1>2 DEF AddUnacknowledged, AppendInstance, TypeOK, Goto, cloud
<1>3. CASE CommitUnacknowledged(v)
  BY <1>3 DEF CommitUnacknowledged, WriteClusterized, TypeOK, Goto, cloud
<1>4. CASE AddFails(v) \/ TerminateExtraFails(v)
  BY <1>4, StepType DEF AddFails, TerminateExtraFails
<1>5. CASE ProtectionFails(v) \/ AdminSecretFails(v)
  BY <1>5, StepType DEF ProtectionFails, AdminSecretFails
<1>6. CASE DeploymentSecretFails(v)
  BY <1>6 DEF DeploymentSecretFails, SetPassword, TypeOK, Goto, state
<1>7. CASE FormFails(v) \/ JoinFinalizationFails(v)
  BY <1>7, StepType DEF FormFails, JoinFinalizationFails
<1>8. CASE AddSomeToGroup(v)
  BY <1>8 DEF AddSomeToGroup, AddInstancesToGroup, Found, Backends, TypeOK,
              Goto, state
<1>9. CASE FinalizationFails(v)
  BY <1>9 DEF FinalizationFails, TypeOK, Goto, cloud
<1> QED
  BY <1>1, <1>2, <1>3, <1>4, <1>5, <1>6, <1>7, <1>8, <1>9 DEF Fault

LEMMA LossType ==
    ASSUME TypeOK, NEW v \in Vms, Loss(v)
    PROVE  TypeOK'
<1> USE DEF Points, Clusterizing, Finalizing
<1>1. ASSUME NEW to \in Points, Retry(v, to)
      PROVE  /\ retries' \in [Vms -> 0 .. Retries]
             /\ pc' \in [Vms -> Points]
  BY <1>1, SizeAssumption DEF Retry, TypeOK, Goto
<1>2. CASE ClusterizeUnanswered(v)
  BY <1>1, <1>2 DEF ClusterizeUnanswered, TypeOK, state, cloud
<1>3. CASE FinalizationUnanswered(v)
  BY <1>1, <1>3 DEF FinalizationUnanswered, TypeOK, state, cloud
<1>4. CASE CommitUnanswered(v)
  BY <1>1, <1>4 DEF CommitUnanswered, WriteClusterized, TypeOK, cloud
<1> QED
  BY <1>2, <1>3, <1>4 DEF Loss

LEMMA NextType ==
    ASSUME TypeOK, [Next]_vars
    PROVE  TypeOK'
<1>1. CASE \E size \in Sizes : Resize(size)
  BY <1>1, SizeAssumption DEF Resize, TypeOK, cloud, local
<1>2. CASE DeleteStaleLock
  BY <1>2 DEF DeleteStaleLock, TypeOK, cloud, local
<1>3. CASE UNCHANGED vars
  BY <1>3 DEF vars, TypeOK, state, cloud, local
<1> QED
  BY <1>1, <1>2, <1>3, VmStepType, ScaleStepType, FaultType, LossType
  DEF Next, SteadyNext

\* The variables of the model of clusterization keep their types, for any number
\* of instances, executions and repeated calls.
THEOREM TypeCorrect == Spec => []TypeOK
<1>1. TypeOK /\ [Next]_vars => TypeOK'
  BY NextType
<1> QED
  BY InitTypeOK, <1>1, PTL DEF Spec

------------------------------------------------------------------------------
(* The inductive invariant                                                  *)

Listed(v) == pc[v] \in {"protect", "decide"}
Owns(v) == pc[v] \in {"form", "finalize", "regroup", "commit"}
Finalizes(v) == pc[v] \in {"finalize", "regroup", "commit"}

\* What an instance's handler remembers of the list: it is in it, the list has
\* not become shorter, and has not changed since it was full.
Lists ==
    \A v \in Vms :
        /\ Listed(v) \/ pc[v] = "form" => v \in Range(snap[v])
        /\ Listed(v) /\ ~clusterized => Len(snap[v]) <= Len(instances)
        /\ (Listed(v) \/ pc[v] = "form") /\ ~clusterized
             /\ Len(snap[v]) >= HostsNum => snap[v] = instances

\* At most one handler has completed the list, and none has any more when the
\* password was set.
OneCompletes ==
    /\ \A u, v \in Vms : /\ Listed(u) /\ Completes(u)
                         /\ Listed(v) /\ Completes(v)
                         => u = v
    /\ password # None => /\ clusterized \/ Len(instances) >= HostsNum
                          /\ \A v \in Vms : Listed(v) => ~Completes(v)

\* The instance that the password was set for forms the cluster, once, and
\* finalizes it with the list that formed it or with an empty one.
Owner ==
    \A v \in Vms :
        /\ Owns(v) => password = v
        /\ pc[v] = "form" => weka = {} /\ Completes(v)
        /\ Finalizes(v) => weka # {} /\ Range(instances) \subseteq weka
        /\ pc[v] \in {"regroup", "commit"} => Range(snap[v]) \subseteq weka
        /\ pc[v] = "commit" => group # {}

Formation ==
    /\ password = None => weka = {}
    /\ weka = {} => ~clusterized
    /\ weka # {} => Cardinality(weka) >= HostsNum
    /\ clusterized => instances = <<>>
    /\ \A v \in Vms : /\ pc[v] = "join" => clusterized
                      /\ pc[v] \in {"joinProtect", "joinGroup"} => v \in weka
    /\ GroupIsInCluster

Parts == Lists /\ OneCompletes /\ Owner /\ Formation

IndInv == TypeOK /\ Parts

LEMMA InitIndInv == Init => IndInv
<1>1. SUFFICES ASSUME Init PROVE Parts
  BY InitTypeOK DEF IndInv
<1>2. \A v \in Vms : pc[v] = "absent"
  BY <1>1 DEF Init
<1>3. Lists
  BY <1>2 DEF Lists, Listed
<1>4. OneCompletes /\ Owner
  BY <1>1, <1>2 DEF Init, OneCompletes, Owner, Listed, Owns, Finalizes
<1>5. Formation
  BY <1>1, <1>2 DEF Init, Formation, GroupIsInCluster
<1> QED
  BY <1>3, <1>4, <1>5 DEF Parts

LEMMA AppendFacts ==
    ASSUME NEW s \in Seq(Vms), NEW v \in Vms
    PROVE  /\ Append(s, v) \in Seq(Vms)
           /\ Len(s) \in Nat
           /\ Len(Append(s, v)) = Len(s) + 1
           /\ v \in Range(Append(s, v))
<1>1. /\ Append(s, v) \in Seq(Vms)
      /\ Len(s) \in Nat
      /\ Len(Append(s, v)) = Len(s) + 1
      /\ Append(s, v)[Len(s) + 1] = v
  OBVIOUS
<1>2. Len(s) + 1 \in DOMAIN Append(s, v)
  BY <1>1
<1> QED
  BY <1>1, <1>2 DEF Range

LEMMA EmptyRange == Range(<<>>) = {}
BY DEF Range

LEMMA WekaCount ==
    ASSUME TypeOK
    PROVE  /\ IsFiniteSet(weka)
           /\ Cardinality(weka) \in Nat
           /\ Cardinality(weka) = 0 <=> weka = {}
<1>1. IsFiniteSet(weka)
  BY VmsAssumption, FS_Subset DEF TypeOK
<1> QED
  BY <1>1, FS_CardinalityType, FS_EmptySet

------------------------------------------------------------------------------
(* It is preserved                                                          *)

\* Points of which the invariant says nothing.
Plain == Points \ {"protect", "decide", "form", "finalize", "regroup", "commit",
                   "join", "joinProtect", "joinGroup"}

\* An instance that goes to one of them, for whatever reason, breaks nothing.
LEMMA PlainMove ==
    ASSUME IndInv, NEW v \in Vms, NEW to,
           to \in Plain \/ (to = "join" /\ clusterized),
           pc' = [pc EXCEPT ![v] = to],
           \A u \in Vms \ {v} : snap'[u] = snap[u],
           UNCHANGED <<instances, clusterized, password, weka, group>>
    PROVE  Parts'
<1> USE DEF IndInv, Parts, Plain
<1>1. \A u \in Vms \ {v} : pc'[u] = pc[u] /\ snap'[u] = snap[u]
  BY DEF TypeOK
<1>2. pc'[v] = to
  BY DEF TypeOK
<1>3. Lists'
  BY <1>1, <1>2 DEF Lists, Listed
<1>4. OneCompletes'
  BY <1>1, <1>2 DEF OneCompletes, Listed, Completes
<1>5. Owner'
  BY <1>1, <1>2 DEF Owner, Owns, Finalizes, Completes
<1>6. Formation'
  BY <1>1, <1>2 DEF Formation, GroupIsInCluster
<1> QED
  BY <1>3, <1>4, <1>5, <1>6

LEMMA PlainStep ==
    ASSUME IndInv, NEW v \in Vms, NEW from, NEW to \in Plain, Step(v, from, to)
    PROVE  Parts'
BY PlainMove DEF Step, Goto, state, cloud

\* Nobody moves and nothing the invariant is about changes.
LEMMA Stay ==
    ASSUME IndInv,
           UNCHANGED <<instances, clusterized, password, weka, group, pc, snap>>
    PROVE  Parts'
BY DEF IndInv, Parts, Lists, OneCompletes, Owner, Formation, Listed, Owns,
       Finalizes, Completes, GroupIsInCluster

\* While the list has room there is no password, so no cluster and no owner.
LEMMA RoomFacts ==
    ASSUME IndInv, HasRoom
    PROVE  /\ ~clusterized /\ password = None /\ weka = {}
           /\ Len(instances) \in Nat /\ Len(instances) < HostsNum
           /\ \A u \in Vms : ~Owns(u)
           /\ \A u \in Vms : Listed(u) => ~Completes(u) /\ Len(snap[u]) < HostsNum
<1>1. Len(instances) \in Nat /\ \A u \in Vms : Len(snap[u]) \in Nat
  BY DEF IndInv, TypeOK
<1>2. ~clusterized /\ Len(instances) < HostsNum
  BY <1>1, HostsAssumption, SizeAssumption DEF HasRoom
<1>3. password = None /\ weka = {}
  BY <1>1, <1>2, SizeAssumption DEF IndInv, Parts, OneCompletes, Formation
<1>4. \A u \in Vms : ~Owns(u)
  BY <1>3, VmsAssumption DEF IndInv, Parts, Owner
<1>5. \A u \in Vms : Listed(u) => Len(snap[u]) < HostsNum
  BY <1>1, <1>2, SizeAssumption DEF IndInv, Parts, Lists
<1> QED
  BY <1>1, <1>2, <1>3, <1>4, <1>5, SizeAssumption DEF Completes

LEMMA AddPreserves ==
    ASSUME IndInv, NEW v \in Vms, AddInstance(v) \/ AddUnacknowledged(v)
    PROVE  Parts'
<1> USE DEF AddInstance, AddUnacknowledged, AppendInstance, Goto, cloud
<1>1. /\ HasRoom
      /\ instances' = Append(instances, v)
      /\ UNCHANGED <<clusterized, password, weka, group>>
  OBVIOUS
<1>2. /\ instances \in Seq(Vms) /\ instances' \in Seq(Vms)
      /\ Len(instances') = Len(instances) + 1
      /\ v \in Range(instances')
  BY <1>1, AppendFacts DEF IndInv, TypeOK
<1>3. \A u \in Vms \ {v} : pc'[u] = pc[u] /\ snap'[u] = snap[u]
  BY DEF IndInv, TypeOK
<1>4. \/ pc'[v] = "protect" /\ snap'[v] = instances'
      \/ pc'[v] = "idle"
  BY DEF IndInv, TypeOK
<1>5. /\ ~clusterized /\ password = None /\ weka = {}
      /\ Len(instances) \in Nat /\ Len(instances) < HostsNum
      /\ \A u \in Vms : ~Owns(u)
      /\ \A u \in Vms : Listed(u) => ~Completes(u) /\ Len(snap[u]) < HostsNum
  BY <1>1, RoomFacts
<1>6. \A u \in Vms : Len(snap[u]) \in Nat
  BY DEF IndInv, TypeOK
<1>7. \A u \in Vms \ {v} : pc[u] # "form"
  BY <1>5 DEF Owns
<1>8. ASSUME NEW u \in Vms
      PROVE  /\ Listed(u)' \/ pc'[u] = "form" => u \in Range(snap'[u])
             /\ Listed(u)' => Len(snap'[u]) <= Len(instances')
             /\ (Listed(u)' \/ pc'[u] = "form") /\ Len(snap'[u]) >= HostsNum
                  => snap'[u] = instances'
  <2>1. CASE u = v
    BY <1>2, <1>4, <1>5, <2>1 DEF Listed
  <2>2. CASE u # v
    BY <1>2, <1>3, <1>5, <1>6, <1>7, <2>2, SizeAssumption
    DEF Listed, IndInv, Parts, Lists
  <2> QED
    BY <2>1, <2>2
<1>9. Lists'
  BY <1>8 DEF Lists
<1>10. OneCompletes'
  BY <1>1, <1>3, <1>5 DEF OneCompletes, Listed, Completes
<1>11. Owner'
  BY <1>3, <1>4, <1>5 DEF Owner, Owns, Finalizes
<1>12. Formation'
  BY <1>1, <1>3, <1>4, <1>5
  DEF IndInv, Parts, Formation, GroupIsInCluster
<1> QED
  BY <1>9, <1>10, <1>11, <1>12 DEF Parts

LEMMA ProtectPreserves ==
    ASSUME IndInv, NEW v \in Vms, SetDeletionProtection(v)
    PROVE  Parts'
<1> USE DEF SetDeletionProtection, Goto, state, IndInv, Parts
<1>1. /\ pc[v] = "protect" /\ pc'[v] = "decide"
      /\ \A u \in Vms \ {v} : pc'[u] = pc[u]
      /\ UNCHANGED <<instances, clusterized, password, weka, group, snap>>
  BY DEF TypeOK
<1>2. \A u \in Vms : Listed(u)' <=> Listed(u)
  BY <1>1 DEF Listed
<1>3. Lists' /\ OneCompletes'
  BY <1>1, <1>2 DEF Lists, OneCompletes, Completes
<1>4. Owner' /\ Formation'
  BY <1>1 DEF Owner, Owns, Finalizes, Completes, Formation, GroupIsInCluster
<1> QED
  BY <1>3, <1>4

\* The instance that completes the list finds no password.
LEMMA CompleterIsFirst ==
    ASSUME IndInv, NEW v \in Vms, Listed(v), Completes(v)
    PROVE  /\ password = None /\ weka = {} /\ ~clusterized
           /\ \A u \in Vms : ~Owns(u)
           /\ \A u \in Vms \ {v} : Listed(u) => ~Completes(u)
           /\ Len(instances) >= HostsNum
<1> USE DEF IndInv, Parts
<1>1. password = None
  BY DEF OneCompletes
<1>2. weka = {} /\ ~clusterized
  BY <1>1 DEF Formation
<1>3. \A u \in Vms : ~Owns(u)
  BY <1>1, VmsAssumption DEF Owner
<1>4. Len(instances) >= HostsNum
  BY <1>2 DEF Lists, Completes
<1> QED
  BY <1>1, <1>2, <1>3, <1>4 DEF OneCompletes

LEMMA SetPasswordPreserves ==
    ASSUME IndInv, NEW v \in Vms, NEW to \in {"form", "idle"}, SetPassword(v, to)
    PROVE  Parts'
<1> USE DEF SetPassword, Goto, state, IndInv, Parts
<1>1. /\ pc[v] = "decide" /\ Completes(v) /\ pc'[v] = to /\ password' = v
      /\ \A u \in Vms \ {v} : pc'[u] = pc[u]
      /\ UNCHANGED <<instances, clusterized, weka, group, snap>>
  BY DEF TypeOK
<1>2. /\ password = None /\ weka = {} /\ ~clusterized
      /\ \A u \in Vms : ~Owns(u)
      /\ \A u \in Vms \ {v} : Listed(u) => ~Completes(u)
      /\ Len(instances) >= HostsNum
  BY <1>1, CompleterIsFirst DEF Listed
<1>3. Lists'
  BY <1>1 DEF Lists, Listed
<1>4. OneCompletes'
  BY <1>1, <1>2 DEF OneCompletes, Listed, Completes
<1>5. Owner'
  BY <1>1, <1>2 DEF Owner, Owns, Finalizes, Completes
<1>6. Formation'
  BY <1>1, <1>2, VmsAssumption DEF Formation, GroupIsInCluster
<1> QED
  BY <1>3, <1>4, <1>5, <1>6

\* Only the owner of the password forms, and then the list is its own.
LEMMA FormPreserves ==
    ASSUME IndInv, NEW v \in Vms, FormCluster(v)
    PROVE  Parts'
<1> USE DEF FormCluster, Goto, state, IndInv, Parts
<1>1. /\ pc[v] = "form" /\ pc'[v] = "finalize" /\ weka' = Range(snap[v])
      /\ \A u \in Vms \ {v} : pc'[u] = pc[u]
      /\ UNCHANGED <<instances, clusterized, password, group, snap>>
  BY DEF TypeOK
<1>2. weka = {} /\ ~clusterized /\ group = {} /\ password = v
  BY <1>1 DEF Owner, Owns, Formation, GroupIsInCluster
<1>3. \A u \in Vms \ {v} : ~Owns(u)
  BY <1>2 DEF Owner
<1>4. snap[v] = instances
  BY <1>1, <1>2, SizeAssumption DEF Owner, Completes, Lists
<1>5. Cardinality(weka') = HostsNum /\ weka' # {}
  <2>1. Cardinality(Range(snap[v])) = HostsNum
    BY DEF CanForm
  <2>2. v \in Range(snap[v])
    BY <1>1 DEF Lists
  <2> QED
    BY <1>1, <2>1, <2>2
<1>6. Lists' /\ OneCompletes'
  BY <1>1 DEF Lists, OneCompletes, Listed, Completes
<1>7. Owner'
  BY <1>1, <1>2, <1>3, <1>4, <1>5 DEF Owner, Owns, Finalizes
<1>8. \A u \in Vms : /\ pc'[u] = "join" => clusterized'
                     /\ pc'[u] \in {"joinProtect", "joinGroup"} => u \in weka'
  BY <1>1, <1>2 DEF Formation
<1>9. password' # None
  BY <1>1, <1>2, VmsAssumption
<1>10. Formation'
  BY <1>1, <1>2, <1>5, <1>8, <1>9, SizeAssumption
  DEF Formation, GroupIsInCluster
<1> QED
  BY <1>6, <1>7, <1>10

LEMMA LockPreserves ==
    ASSUME IndInv, NEW v \in Vms, LockAndRead(v)
    PROVE  Parts'
<1> USE DEF LockAndRead, Goto, cloud, IndInv, Parts
<1>1. /\ pc[v] = "finalize" /\ pc'[v] = "regroup" /\ snap'[v] = instances
      /\ \A u \in Vms \ {v} : pc'[u] = pc[u] /\ snap'[u] = snap[u]
      /\ UNCHANGED <<instances, clusterized, password, weka, group>>
  BY DEF TypeOK
<1>2. weka # {} /\ Range(instances) \subseteq weka /\ password = v
  BY <1>1 DEF Owner, Owns, Finalizes
<1>3. Lists' /\ OneCompletes'
  BY <1>1 DEF Lists, OneCompletes, Listed, Completes
<1>4. Owner' /\ Formation'
  BY <1>1, <1>2 DEF Owner, Owns, Finalizes, Completes, Formation,
                    GroupIsInCluster
<1> QED
  BY <1>3, <1>4

LEMMA RegroupPreserves ==
    ASSUME IndInv, NEW v \in Vms, NEW found \in SUBSET Found(v),
           AddInstancesToGroup(v, found)
    PROVE  Parts'
<1> USE DEF AddInstancesToGroup, Goto, state, IndInv, Parts
<1>1. /\ pc[v] = "regroup" /\ pc'[v] = "commit" /\ group' = group \cup found
      /\ found # {}
      /\ \A u \in Vms \ {v} : pc'[u] = pc[u]
      /\ UNCHANGED <<instances, clusterized, password, weka, snap>>
  BY DEF TypeOK
<1>2. found \subseteq weka
  BY <1>1 DEF Found, Owner
<1>3. Lists' /\ OneCompletes'
  BY <1>1 DEF Lists, OneCompletes, Listed, Completes
<1>4. Owner' /\ Formation'
  BY <1>1, <1>2 DEF Owner, Owns, Finalizes, Completes, Formation,
                    GroupIsInCluster
<1> QED
  BY <1>3, <1>4

\* The write of finalization, whatever its caller hears of it.
LEMMA CommitPreserves ==
    ASSUME IndInv, NEW v \in Vms, WriteClusterized(v),
           NEW to \in {"member", "idle", "finalize"}, Goto(v, to)
    PROVE  Parts'
<1> USE DEF WriteClusterized, Goto, cloud, IndInv, Parts
<1>1. /\ pc[v] = "commit" /\ pc'[v] = to /\ instances' = <<>> /\ clusterized'
      /\ \A u \in Vms \ {v} : pc'[u] = pc[u]
      /\ UNCHANGED <<password, weka, group, snap>>
  BY DEF TypeOK
<1>2. weka # {} /\ password = v /\ Range(instances') = {}
  BY <1>1, EmptyRange DEF Owner, Owns, Finalizes
<1>3. Lists' /\ OneCompletes'
  BY <1>1 DEF Lists, OneCompletes, Listed, Completes
<1>4. \A u \in Vms \ {v} : ~Owns(u)
  BY <1>2 DEF Owner
<1>5. Owner' /\ Formation'
  BY <1>1, <1>2, <1>4 DEF Owner, Owns, Finalizes, Formation, GroupIsInCluster
<1> QED
  BY <1>3, <1>5

LEMMA RecallPreserves ==
    ASSUME IndInv, NEW v \in Vms, FinalizationUnanswered(v)
    PROVE  Parts'
<1> USE DEF FinalizationUnanswered, Retry, Goto, state, cloud, IndInv, Parts
<1>1. /\ pc[v] \in {"regroup", "commit"} /\ pc'[v] = "finalize"
      /\ \A u \in Vms \ {v} : pc'[u] = pc[u]
      /\ UNCHANGED <<instances, clusterized, password, weka, group, snap>>
  BY DEF TypeOK, Finalizing
<1>2. Lists' /\ OneCompletes'
  BY <1>1 DEF Lists, OneCompletes, Listed, Completes
<1>3. Owner' /\ Formation'
  BY <1>1 DEF Owner, Owns, Finalizes, Completes, Formation, GroupIsInCluster
<1> QED
  BY <1>2, <1>3

LEMMA JoinPreserves ==
    ASSUME IndInv, NEW v \in Vms, JoinCluster(v)
    PROVE  Parts'
<1> USE DEF JoinCluster, Goto, state, IndInv, Parts
<1>1. /\ pc[v] = "join" /\ pc'[v] = "joinProtect" /\ weka' = weka \cup {v}
      /\ \A u \in Vms \ {v} : pc'[u] = pc[u]
      /\ UNCHANGED <<instances, clusterized, password, group, snap>>
  BY DEF TypeOK
<1>2. clusterized /\ weka # {}
  BY <1>1 DEF Formation
<1>3. Cardinality(weka) \in Nat /\ Cardinality(weka') >= Cardinality(weka)
      /\ Cardinality(weka') \in Nat
  <2>1. IsFiniteSet(weka) /\ Cardinality(weka) \in Nat
    BY WekaCount
  <2>2. \/ Cardinality(weka \cup {v}) = Cardinality(weka)
        \/ Cardinality(weka \cup {v}) = Cardinality(weka) + 1
    BY <2>1, FS_AddElement
  <2> QED
    BY <1>1, <2>1, <2>2
<1>4. Cardinality(weka') >= HostsNum
  BY <1>2, <1>3, SizeAssumption DEF Formation
<1>5. Lists' /\ OneCompletes'
  BY <1>1 DEF Lists, OneCompletes, Listed, Completes
<1>6. \A u \in Vms : pc[u] # "form"
  BY <1>2 DEF Owner
<1>7. Owner' /\ Formation'
  BY <1>1, <1>2, <1>4, <1>6
  DEF Owner, Owns, Finalizes, Completes, Formation, GroupIsInCluster
<1> QED
  BY <1>5, <1>7

LEMMA JoinFinalizationPreserves ==
    ASSUME IndInv, NEW v \in Vms, ProtectJoined(v) \/ AddJoinedToGroup(v)
    PROVE  Parts'
<1> USE DEF ProtectJoined, AddJoinedToGroup, Goto, state, IndInv, Parts
<1>1. /\ pc[v] \in {"joinProtect", "joinGroup"}
      /\ pc'[v] \in {"joinGroup", "member"}
      /\ group' = group \/ group' = group \cup {v}
      /\ \A u \in Vms \ {v} : pc'[u] = pc[u]
      /\ UNCHANGED <<instances, clusterized, password, weka, snap>>
  BY DEF TypeOK
<1>2. v \in weka
  BY <1>1 DEF Formation
<1>3. Lists' /\ OneCompletes'
  BY <1>1 DEF Lists, OneCompletes, Listed, Completes
<1>4. Owner' /\ Formation'
  BY <1>1, <1>2 DEF Owner, Owns, Finalizes, Completes, Formation,
                    GroupIsInCluster
<1> QED
  BY <1>3, <1>4

LEMMA VmStepPreserves ==
    ASSUME IndInv, NEW v \in Vms, VmStep(v)
    PROVE  Parts'
<1>1. Plain = {"add", "extra", "absent", "boot", "deploy", "deployFailed",
               "request", "idle", "member", "selfDelete", "broken", "gone"}
  BY DEF Plain, Points, Clusterizing, Finalizing
<1>2. CASE FetchDeployScript(v) \/ DeploySucceeds(v) \/ StartupEnds(v)
  BY <1>1, <1>2, PlainStep DEF FetchDeployScript, DeploySucceeds, StartupEnds
<1>3. CASE FetchJoinScript(v)
  BY <1>3, PlainMove DEF FetchJoinScript, Step, Goto, state, cloud
<1>4. CASE CallClusterize(v) \/ RefuseExtra(v) \/ TerminateExtra(v) \/ Wait(v)
  BY <1>1, <1>4, PlainStep DEF CallClusterize, RefuseExtra, TerminateExtra, Wait
<1>5. CASE AddInstance(v)
  BY <1>5, AddPreserves
<1>6. CASE SelfDelete(v)
  BY <1>1, <1>6, PlainMove DEF SelfDelete, Goto, state
<1>7. CASE SetDeletionProtection(v)
  BY <1>7, ProtectPreserves
<1>8. CASE GenerateScript(v)
  BY <1>8, SetPasswordPreserves DEF GenerateScript
<1>9. CASE FormCluster(v)
  BY <1>9, FormPreserves
<1>10. CASE LockAndRead(v)
  BY <1>10, LockPreserves
<1>11. CASE AddAllToGroup(v)
  BY <1>11, RegroupPreserves DEF AddAllToGroup
<1>12. CASE Commit(v)
  BY <1>12, CommitPreserves DEF Commit
<1>13. CASE JoinCluster(v)
  BY <1>13, JoinPreserves
<1>14. CASE ProtectJoined(v) \/ AddJoinedToGroup(v)
  BY <1>14, JoinFinalizationPreserves
<1> QED
  BY <1>2, <1>3, <1>4, <1>5, <1>6, <1>7, <1>8, <1>9, <1>10, <1>11, <1>12, <1>13,
     <1>14 DEF VmStep

LEMMA FaultPreserves ==
    ASSUME IndInv, NEW v \in Vms, Fault(v) \/ Loss(v)
    PROVE  Parts'
<1>1. Plain = {"add", "extra", "absent", "boot", "deploy", "deployFailed",
               "request", "idle", "member", "selfDelete", "broken", "gone"}
  BY DEF Plain, Points, Clusterizing, Finalizing
<1>2. CASE BootFails(v) \/ DeployFails(v) \/ JoinFails(v) \/ AddFails(v)
  BY <1>1, <1>2, PlainStep DEF BootFails, DeployFails, JoinFails, AddFails
<1>3. CASE \/ TerminateExtraFails(v) \/ ProtectionFails(v) \/ AdminSecretFails(v)
           \/ FormFails(v) \/ JoinFinalizationFails(v)
  BY <1>1, <1>3, PlainStep
  DEF TerminateExtraFails, ProtectionFails, AdminSecretFails, FormFails,
      JoinFinalizationFails
<1>4. CASE AddUnacknowledged(v)
  BY <1>4, AddPreserves
<1>5. CASE CommitUnacknowledged(v)
  BY <1>5, CommitPreserves DEF CommitUnacknowledged
<1>6. CASE DeploymentSecretFails(v)
  BY <1>6, SetPasswordPreserves DEF DeploymentSecretFails
<1>7. CASE AddSomeToGroup(v)
  BY <1>7, RegroupPreserves DEF AddSomeToGroup
<1>8. CASE FinalizationFails(v)
  BY <1>1, <1>8, PlainMove DEF FinalizationFails, Goto, cloud
<1>9. CASE ClusterizeUnanswered(v)
  BY <1>1, <1>9, PlainMove
  DEF ClusterizeUnanswered, Retry, Goto, state, cloud, IndInv, TypeOK
<1>10. CASE FinalizationUnanswered(v)
  BY <1>10, RecallPreserves
<1>11. CASE CommitUnanswered(v)
  BY <1>11, CommitPreserves DEF CommitUnanswered, Retry
<1> QED
  BY <1>2, <1>3, <1>4, <1>5, <1>6, <1>7, <1>8, <1>9, <1>10, <1>11 DEF Fault, Loss

LEMMA ScalePreserves ==
    ASSUME IndInv, NEW s \in Scalers, ScaleStep(s) \/ ScaleUpFails(s)
    PROVE  Parts'
<1>1. CASE CreateBackend(s)
  <2>1. "boot" \in Plain
    BY DEF Plain, Points, Clusterizing, Finalizing
  <2>2. PICK v \in Vms : Goto(v, "boot")
    BY <1>1 DEF CreateBackend
  <2> QED
    BY <1>1, <2>1, <2>2, PlainMove DEF CreateBackend, Goto, state, cloud
<1>2. CASE StartScaleUp(s) \/ ListBackends(s) \/ ReadDesiredSize(s) \/ ScaleUpFails(s)
  BY <1>2, Stay
  DEF StartScaleUp, ListBackends, ReadDesiredSize, ScaleUpFails, ScaleTo, state,
      cloud, local
<1> QED
  BY <1>1, <1>2 DEF ScaleStep

LEMMA NextIndInv ==
    ASSUME IndInv, [Next]_vars
    PROVE  IndInv'
<1>1. SUFFICES Parts'
  BY NextType DEF IndInv
<1>2. CASE \E size \in Sizes : Resize(size)
  BY <1>2, Stay DEF Resize, cloud, local
<1>3. CASE DeleteStaleLock
  BY <1>3, Stay DEF DeleteStaleLock, cloud, local
<1>4. CASE UNCHANGED vars
  BY <1>4, Stay DEF vars, state, cloud, local
<1> QED
  BY <1>2, <1>3, <1>4, VmStepPreserves, FaultPreserves, ScalePreserves
  DEF Next, SteadyNext

LEMMA AlwaysIndInv == Spec => []IndInv
<1>1. IndInv /\ [Next]_vars => IndInv'
  BY NextIndInv
<1> QED
  BY InitIndInv, <1>1, PTL DEF Spec

------------------------------------------------------------------------------
(* What it gives                                                            *)

\* The instance group holds members of the cluster only.
THEOREM GroupCorrect == Spec => []GroupIsInCluster
<1>1. IndInv => GroupIsInCluster
  BY DEF IndInv, Parts, Formation
<1> QED
  BY AlwaysIndInv, <1>1, PTL

\* A cluster that is called clusterized has been formed by HOSTS_NUM instances
\* with the password that was made for them.
THEOREM ClusterizedCorrect == Spec => []ClusterizedIsFormed
<1>1. IndInv => ClusterizedIsFormed
  BY DEF IndInv, Parts, Formation, ClusterizedIsFormed
<1> QED
  BY AlwaysIndInv, <1>1, PTL

\* No step of a handler sets the password while there is one.
LEMMA PasswordStep ==
    ASSUME IndInv, [Next]_vars, password' # password
    PROVE  \E v \in Vms : /\ \E to \in {"form", "idle"} : SetPassword(v, to)
                          /\ password = None
<1>1. PICK v \in Vms : \E to \in {"form", "idle"} : SetPassword(v, to)
  <2>1. PICK v \in Vms : VmStep(v) \/ Fault(v) \/ Loss(v)
    BY DEF Next, SteadyNext, ScaleStep, StartScaleUp, ListBackends,
           ReadDesiredSize, ScaleUpFails, CreateBackend, ScaleTo, Resize,
           DeleteStaleLock, vars, state, cloud, local
  <2>2. CASE VmStep(v)
    BY <2>2
    DEF VmStep, FetchDeployScript, FetchJoinScript, DeploySucceeds, StartupEnds,
        CallClusterize, AddInstance, AppendInstance, RefuseExtra,
        TerminateExtra, SelfDelete, SetDeletionProtection, Wait, GenerateScript,
        FormCluster, LockAndRead, AddAllToGroup, AddInstancesToGroup, Commit,
        WriteClusterized, JoinCluster, ProtectJoined, AddJoinedToGroup, Step,
        state, cloud
  <2>3. CASE Fault(v)
    BY <2>3
    DEF Fault, BootFails, DeployFails, JoinFails, AddUnacknowledged,
        AppendInstance, CommitUnacknowledged, WriteClusterized, AddFails,
        TerminateExtraFails, ProtectionFails, AdminSecretFails,
        DeploymentSecretFails, FormFails, AddSomeToGroup, AddInstancesToGroup,
        FinalizationFails, JoinFinalizationFails, Step, state, cloud
  <2>4. CASE Loss(v)
    BY <2>4
    DEF Loss, ClusterizeUnanswered, FinalizationUnanswered, CommitUnanswered,
        WriteClusterized, state, cloud
  <2> QED
    BY <2>1, <2>2, <2>3, <2>4
<1> QED
  BY <1>1, CompleterIsFirst DEF SetPassword, Listed

\* The admin password is set at most once, however often clusterize is called.
THEOREM PasswordCorrect == Spec => PasswordSetOnce
<1>1. IndInv /\ [Next]_vars => [password # None => password' = password]_vars
  BY PasswordStep
<1> QED
  BY AlwaysIndInv, <1>1, PTL DEF Spec, PasswordSetOnce

------------------------------------------------------------------------------
(* The life of the cluster                                                  *)

\* All that the steps do to the cluster, its group and its credentials.
LEMMA Effects ==
    ASSUME IndInv, [Next]_vars
    PROVE  \/ UNCHANGED <<clusterized, password, weka, group>>
           \/ \E v \in Vms :
                \/ \E to \in {"form", "idle"} : SetPassword(v, to)
                \/ FormCluster(v)
                \/ \E found \in SUBSET Found(v) : AddInstancesToGroup(v, found)
                \/ WriteClusterized(v)
                \/ JoinCluster(v)
                \/ AddJoinedToGroup(v)
<1>1. ASSUME NEW v \in Vms, VmStep(v)
      PROVE  \/ UNCHANGED <<clusterized, password, weka, group>>
             \/ GenerateScript(v) \/ FormCluster(v) \/ AddAllToGroup(v)
             \/ WriteClusterized(v) \/ JoinCluster(v) \/ AddJoinedToGroup(v)
  BY <1>1
  DEF VmStep, FetchDeployScript, FetchJoinScript, DeploySucceeds, StartupEnds,
      CallClusterize, AddInstance, AppendInstance, RefuseExtra, TerminateExtra,
      SelfDelete, SetDeletionProtection, Wait, LockAndRead, Commit,
      ProtectJoined, Step, state, cloud
<1>2. ASSUME NEW v \in Vms, Fault(v) \/ Loss(v)
      PROVE  \/ UNCHANGED <<clusterized, password, weka, group>>
             \/ DeploymentSecretFails(v) \/ AddSomeToGroup(v)
             \/ WriteClusterized(v)
  BY <1>2
  DEF Fault, BootFails, DeployFails, JoinFails, AddUnacknowledged,
      AppendInstance, CommitUnacknowledged, AddFails, TerminateExtraFails,
      ProtectionFails, AdminSecretFails, FormFails, FinalizationFails,
      JoinFinalizationFails, Loss, ClusterizeUnanswered, FinalizationUnanswered,
      CommitUnanswered, Step, state, cloud
<1>3. \/ UNCHANGED <<clusterized, password, weka, group>>
      \/ \E v \in Vms : VmStep(v) \/ Fault(v) \/ Loss(v)
  BY DEF Next, SteadyNext, ScaleStep, StartScaleUp, ListBackends,
         ReadDesiredSize, ScaleUpFails, CreateBackend, ScaleTo, Resize,
         DeleteStaleLock, vars, state, cloud, local
<1>4. \A v \in Vms :
        /\ GenerateScript(v) => SetPassword(v, "form")
        /\ DeploymentSecretFails(v) => SetPassword(v, "idle")
        /\ AddAllToGroup(v) \/ AddSomeToGroup(v) =>
             \E found \in SUBSET Found(v) : AddInstancesToGroup(v, found)
  BY DEF GenerateScript, DeploymentSecretFails, AddAllToGroup, AddSomeToGroup
<1> QED
  BY <1>1, <1>2, <1>3, <1>4

LEMMA LifeStep ==
    ASSUME IndInv, IndInv', [Next]_vars
    PROVE  [Life!Next]_(Life!vars)
<1> USE DEF IndInv, Parts
<1>1. CASE UNCHANGED <<clusterized, password, weka, group>>
  BY <1>1 DEF Life!vars, Phase
<1>2. ASSUME NEW v \in Vms, NEW to \in {"form", "idle"}, SetPassword(v, to)
      PROVE  Life!Next
  <2>1. password = None /\ weka = {} /\ ~clusterized
    BY <1>2, CompleterIsFirst DEF SetPassword, Listed
  <2>2. password' = v /\ UNCHANGED <<clusterized, weka, group>>
    BY <1>2 DEF SetPassword, state
  <2>3. Life!MakeCredentials(v)
    BY <2>1, <2>2 DEF Life!MakeCredentials, Phase
  <2> QED
    BY <2>3 DEF Life!Next
<1>3. ASSUME NEW v \in Vms, FormCluster(v)
      PROVE  Life!Next
  <2>1. /\ pc[v] = "form" /\ weka' = Range(snap[v])
        /\ Cardinality(Range(snap[v])) = HostsNum
        /\ UNCHANGED <<clusterized, password, group>>
    BY <1>3 DEF FormCluster, CanForm, state
  <2>2. weka = {} /\ ~clusterized /\ password = v /\ v \in Range(snap[v])
    BY <2>1 DEF Owner, Owns, Formation, Lists
  <2>3. Range(snap[v]) \subseteq Vms /\ weka' # {}
    BY <2>1, <2>2 DEF TypeOK
  <2>4. Phase = "empty" /\ Phase' = "formed"
    BY <2>1, <2>2, <2>3 DEF Phase
  <2>5. Life!Form(Range(snap[v]))
    BY <2>1, <2>2, <2>4 DEF Life!Form, Life!Cardinality, Cardinality
  <2> QED
    BY <2>3, <2>5 DEF Life!Next
<1>4. ASSUME NEW S, S \subseteq weka, group' = group \cup S,
             UNCHANGED <<clusterized, password, weka>>
      PROVE  Life!Next
  <2>1. S \in SUBSET Vms
    BY <1>4 DEF TypeOK
  <2>2. Life!Serve(S)
    BY <1>4 DEF Life!Serve, Phase
  <2> QED
    BY <2>1, <2>2 DEF Life!Next
<1>5. ASSUME NEW v \in Vms, NEW found \in SUBSET Found(v),
             AddInstancesToGroup(v, found)
      PROVE  Life!Next
  <2>1. found \subseteq weka
    BY <1>5 DEF AddInstancesToGroup, Found, Owner
  <2> QED
    BY <1>4, <1>5, <2>1 DEF AddInstancesToGroup, state
<1>6. ASSUME NEW v \in Vms, AddJoinedToGroup(v)
      PROVE  Life!Next
  <2>1. {v} \subseteq weka
    BY <1>6 DEF AddJoinedToGroup, Formation
  <2> QED
    BY <1>4, <1>6, <2>1 DEF AddJoinedToGroup, state
<1>7. ASSUME NEW v \in Vms, WriteClusterized(v)
      PROVE  [Life!Next]_(Life!vars)
  <2>1. weka # {} /\ group # {}
    BY <1>7 DEF WriteClusterized, Owner, Finalizes
  <2>2. clusterized' /\ UNCHANGED <<password, weka, group>>
    BY <1>7 DEF WriteClusterized, cloud
  <2>3. CASE clusterized
    BY <2>2, <2>3 DEF Life!vars, Phase
  <2>4. CASE ~clusterized
    BY <2>1, <2>2, <2>4 DEF Life!Next, Life!Open, Phase
  <2> QED
    BY <2>3, <2>4
<1>8. ASSUME NEW v \in Vms, JoinCluster(v)
      PROVE  Life!Next
  <2>1. clusterized
    BY <1>8 DEF JoinCluster, Formation
  <2>2. Life!Join(v)
    BY <1>8, <2>1 DEF JoinCluster, Life!Join, Phase, state
  <2> QED
    BY <2>2 DEF Life!Next
<1> QED
  BY <1>1, <1>2, <1>3, <1>5, <1>6, <1>7, <1>8, Effects

\* The functions implement ClusterLife: whatever their interleaving, failures and
\* repeated calls, a cluster gets its credentials once, is formed once by all
\* its first instances, and opens when it has a group of members.
THEOREM Refinement == Spec => ImplementsLife
<1>1. Init => Life!Init
  BY DEF Init, Life!Init, Phase
<1>2. IndInv /\ IndInv' /\ [Next]_vars => [Life!Next]_(Life!vars)
  BY LifeStep
<1> QED
  BY AlwaysIndInv, <1>1, <1>2, PTL DEF Spec, ImplementsLife, Life!Spec

------------------------------------------------------------------------------
(* What status says of the instance that forms the cluster                  *)

\* The list never exceeds the target; who has added itself is the last of the
\* list it remembers; who was given the password is the last of all.
Named ==
    /\ Len(instances) <= Target
    /\ \A v \in Vms : Listed(v) => snap[v] # <<>> /\ snap[v][Len(snap[v])] = v
    /\ password # None /\ ~clusterized => instances[Target] = password

LEMMA InitNamed == Init => Named
BY SizeAssumption, VmsAssumption DEF Init, Named, Listed

\* The list stays as it is, and nobody else has just been added to it.
LEMMA NamedFrame ==
    ASSUME Named, UNCHANGED <<instances, clusterized, password>>,
           \A v \in Vms : Listed(v)' => Listed(v) /\ snap'[v] = snap[v]
    PROVE  Named'
BY DEF Named

LEMMA NamedStepFrame ==
    ASSUME IndInv, Named, NEW v \in Vms, NEW from, NEW to \in Plain,
           Step(v, from, to)
    PROVE  Named'
<1>1. \A u \in Vms : Listed(u)' => Listed(u) /\ snap'[u] = snap[u]
  BY DEF Step, Goto, IndInv, TypeOK, Listed, Plain
<1> QED
  BY <1>1, NamedFrame DEF Step, state, cloud

LEMMA NamedAdd ==
    ASSUME IndInv, Named, NEW v \in Vms, AddInstance(v) \/ AddUnacknowledged(v)
    PROVE  Named'
<1> USE DEF AddInstance, AddUnacknowledged, AppendInstance, Goto, cloud
<1>1. HasRoom /\ instances' = Append(instances, v) /\ password = None
      /\ UNCHANGED password
  BY RoomFacts
<1>2. /\ instances \in Seq(Vms) /\ Len(instances) \in Nat
      /\ Len(instances') = Len(instances) + 1
      /\ instances' # <<>> /\ instances'[Len(instances')] = v
  <2>1. instances \in Seq(Vms) /\ Len(instances) \in Nat
    BY DEF IndInv, TypeOK
  <2> HIDE DEF AddInstance, AddUnacknowledged, AppendInstance
  <2>2. Len(Append(instances, v)) = Len(instances) + 1
    BY <2>1
  <2>3. Append(instances, v)[Len(instances) + 1] = v
    BY <2>1
  <2>4. Append(instances, v) # <<>>
    BY <2>1, <2>2
  <2> QED
    BY <1>1, <2>1, <2>2, <2>3, <2>4
<1>3. Len(instances') <= Target
  BY <1>1, <1>2, SizeAssumption DEF HasRoom
<1>4. ASSUME NEW u \in Vms, Listed(u)'
      PROVE  snap'[u] # <<>> /\ snap'[u][Len(snap'[u])] = u
  <2>1. CASE u = v
    BY <1>2, <1>4, <2>1 DEF IndInv, TypeOK, Listed
  <2>2. CASE u # v
    BY <1>4, <2>2 DEF IndInv, TypeOK, Listed, Named
  <2> QED
    BY <2>1, <2>2
<1> QED
  BY <1>1, <1>3, <1>4 DEF Named

\* The list of the one that completes it is the list, and it is the last there.
LEMMA NamedPassword ==
    ASSUME IndInv, Named, NEW v \in Vms, NEW to \in {"form", "idle"},
           SetPassword(v, to)
    PROVE  Named'
<1>1. /\ Listed(v) /\ Completes(v) /\ password' = v
      /\ UNCHANGED <<instances, clusterized, snap>>
      /\ \A u \in Vms : Listed(u)' => Listed(u)
  BY DEF SetPassword, Goto, state, Listed, IndInv, TypeOK
<1>2. ~clusterized
  BY <1>1, CompleterIsFirst
<1>3. Len(snap[v]) = HostsNum /\ snap[v] = instances
  BY <1>1, <1>2, SizeAssumption DEF IndInv, Parts, Lists, Completes
<1>4. Len(instances) = Target
  BY <1>3, SizeAssumption, HostsAssumption DEF Named
<1>5. instances[Target] = v
  BY <1>1, <1>3, <1>4 DEF Named
<1> QED
  BY <1>1, <1>5 DEF Named

LEMMA NamedWrite ==
    ASSUME IndInv, Named, NEW v \in Vms, WriteClusterized(v),
           NEW to \in Plain \cup {"finalize"}, pc' = [pc EXCEPT ![v] = to]
    PROVE  Named'
<1>1. instances' = <<>> /\ clusterized' /\ Len(instances') <= Target
  BY SizeAssumption DEF WriteClusterized
<1>2. \A u \in Vms : Listed(u)' => Listed(u) /\ snap'[u] = snap[u]
  BY DEF WriteClusterized, IndInv, TypeOK, Listed, Plain
<1> QED
  BY <1>1, <1>2 DEF Named

LEMMA NamedVmStep ==
    ASSUME IndInv, Named, NEW v \in Vms, VmStep(v)
    PROVE  Named'
<1> USE DEF Plain, Points, Clusterizing, Finalizing
<1>1. CASE AddInstance(v)
  BY <1>1, NamedAdd
<1>2. CASE GenerateScript(v)
  BY <1>2, NamedPassword DEF GenerateScript
<1>3. CASE Commit(v)
  BY <1>3, NamedWrite DEF Commit, Goto
<1>4. CASE \/ FetchDeployScript(v) \/ DeploySucceeds(v) \/ StartupEnds(v)
           \/ CallClusterize(v) \/ RefuseExtra(v) \/ TerminateExtra(v) \/ Wait(v)
  BY <1>4, NamedStepFrame
  DEF FetchDeployScript, DeploySucceeds, StartupEnds, CallClusterize,
      RefuseExtra, TerminateExtra, Wait
<1>5. CASE \/ FetchJoinScript(v) \/ SelfDelete(v) \/ SetDeletionProtection(v)
           \/ FormCluster(v) \/ LockAndRead(v) \/ AddAllToGroup(v)
           \/ JoinCluster(v) \/ ProtectJoined(v) \/ AddJoinedToGroup(v)
  <2>1. UNCHANGED <<instances, clusterized, password>>
    BY <1>5
    DEF FetchJoinScript, SelfDelete, SetDeletionProtection, FormCluster,
        LockAndRead, AddAllToGroup, AddInstancesToGroup, JoinCluster,
        ProtectJoined, AddJoinedToGroup, Step, state, cloud
  <2>2. \A u \in Vms : Listed(u)' => Listed(u) /\ snap'[u] = snap[u]
    BY <1>5
    DEF FetchJoinScript, SelfDelete, SetDeletionProtection, FormCluster,
        LockAndRead, AddAllToGroup, AddInstancesToGroup, JoinCluster,
        ProtectJoined, AddJoinedToGroup, Step, Goto, IndInv, TypeOK, Listed
  <2> QED
    BY <2>1, <2>2, NamedFrame
<1> QED
  BY <1>1, <1>2, <1>3, <1>4, <1>5 DEF VmStep

LEMMA NamedFault ==
    ASSUME IndInv, Named, NEW v \in Vms, Fault(v) \/ Loss(v)
    PROVE  Named'
<1> USE DEF Plain, Points, Clusterizing, Finalizing
<1>1. CASE AddUnacknowledged(v)
  BY <1>1, NamedAdd
<1>2. CASE DeploymentSecretFails(v)
  BY <1>2, NamedPassword DEF DeploymentSecretFails
<1>3. CASE CommitUnacknowledged(v)
  BY <1>3, NamedWrite DEF CommitUnacknowledged, Goto
<1>4. CASE CommitUnanswered(v)
  BY <1>4, NamedWrite DEF CommitUnanswered, Retry, Goto
<1>5. CASE \/ BootFails(v) \/ DeployFails(v) \/ JoinFails(v) \/ AddFails(v)
           \/ TerminateExtraFails(v) \/ ProtectionFails(v)
           \/ AdminSecretFails(v) \/ FormFails(v) \/ JoinFinalizationFails(v)
  BY <1>5, NamedStepFrame
  DEF BootFails, DeployFails, JoinFails, AddFails, TerminateExtraFails,
      ProtectionFails, AdminSecretFails, FormFails, JoinFinalizationFails
<1>6. CASE \/ AddSomeToGroup(v) \/ FinalizationFails(v)
           \/ ClusterizeUnanswered(v) \/ FinalizationUnanswered(v)
  <2>1. UNCHANGED <<instances, clusterized, password>>
    BY <1>6
    DEF AddSomeToGroup, AddInstancesToGroup, FinalizationFails,
        ClusterizeUnanswered, FinalizationUnanswered, state, cloud
  <2>2. \A u \in Vms : Listed(u)' => Listed(u) /\ snap'[u] = snap[u]
    BY <1>6
    DEF AddSomeToGroup, AddInstancesToGroup, FinalizationFails,
        ClusterizeUnanswered, FinalizationUnanswered, Retry, Goto, IndInv,
        TypeOK, Listed
  <2> QED
    BY <2>1, <2>2, NamedFrame
<1> QED
  BY <1>1, <1>2, <1>3, <1>4, <1>5, <1>6 DEF Fault, Loss

LEMMA NamedOther ==
    ASSUME IndInv, Named,
           \/ \E s \in Scalers : ScaleStep(s) \/ ScaleUpFails(s)
           \/ \E size \in Sizes : Resize(size)
           \/ DeleteStaleLock
           \/ UNCHANGED vars
    PROVE  Named'
<1>1. UNCHANGED <<instances, clusterized, password, snap>>
  BY DEF ScaleStep, StartScaleUp, ListBackends, ReadDesiredSize, CreateBackend,
         ScaleUpFails, ScaleTo, Resize, DeleteStaleLock, vars, state, local,
         cloud
<1>2. \A u \in Vms : Listed(u)' => Listed(u)
  BY DEF ScaleStep, StartScaleUp, ListBackends, ReadDesiredSize, CreateBackend,
         ScaleUpFails, ScaleTo, Resize, DeleteStaleLock, vars, state, local,
         cloud, Goto, IndInv, TypeOK, Listed
<1> QED
  BY <1>1, <1>2, NamedFrame

LEMMA NextNamed == IndInv /\ Named /\ [Next]_vars => Named'
BY NamedVmStep, NamedFault, NamedOther DEF Next, SteadyNext

\* Until the cluster is clusterized, status names the instance that was given
\* the credentials, for any number of instances and whatever fails.
THEOREM StatusCorrect == Spec => []StatusNamesFormer
<1>1. IndInv /\ Named => StatusNamesFormer
  <2>1. SUFFICES ASSUME IndInv, Named, password # None, ~clusterized
                 PROVE  ClusterizationInstance = password
    BY DEF StatusNamesFormer
  <2>2. Len(instances) >= HostsNum /\ Len(instances) \in Nat
    BY <2>1 DEF IndInv, TypeOK, Parts, OneCompletes
  <2>3. Len(instances) >= Target
    BY <2>2, HostsAssumption, SizeAssumption
  <2> QED
    BY <2>1, <2>3 DEF Named, ClusterizationInstance
<1> QED
  BY AlwaysIndInv, InitNamed, NextNamed, <1>1, PTL DEF Spec

------------------------------------------------------------------------------
(* What holds when no instance calls clusterize again                       *)

\* Curl does not repeat a call of clusterize.  The list of the instances is
\* never wrong then, with the failures that remain.
CalledOnce ==
    [][\A v \in Vms : pc'[v] = "request" => pc[v] \in {"deploy", "request"}]_vars

\* GetInstances finds all the instances of the list.
FindsAll ==
    [][\A v \in Vms : pc[v] = "regroup" /\ pc'[v] = "commit"
                        => Found(v) \subseteq group']_vars

\* An instance of the list is past addInstanceToStateInstances and has not been
\* told to go away: it exists, and will be found by finalization.
Enlisted(v) ==
    pc[v] \in {"protect", "decide", "idle", "form", "finalize", "regroup", "commit"}

ListStays == \A v \in Range(instances) : Enlisted(v)

\* Until the cluster is clusterized its members are the list, finalization reads
\* all of it, and commits when all of it is in the group.
WholeList ==
    ~clusterized =>
        /\ weka # {} => weka = Range(instances)
        /\ \A v \in Vms : /\ pc[v] = "regroup" => Range(snap[v]) = weka
                          /\ pc[v] = "commit" => weka \subseteq group

LEMMA AppendRange ==
    ASSUME NEW s \in Seq(Vms), NEW v \in Vms
    PROVE  Range(Append(s, v)) = Range(s) \cup {v}
<1>1. /\ Len(s) \in Nat /\ DOMAIN s = 1 .. Len(s)
      /\ DOMAIN Append(s, v) = 1 .. Len(s) + 1
      /\ Append(s, v)[Len(s) + 1] = v
      /\ \A i \in 1 .. Len(s) : Append(s, v)[i] = s[i]
  OBVIOUS
<1>2. 1 .. Len(s) + 1 = (1 .. Len(s)) \cup {Len(s) + 1}
  BY <1>1
<1> QED
  BY <1>1, <1>2 DEF Range

LEMMA InitListStays == Init => ListStays /\ WholeList
BY EmptyRange DEF Init, ListStays, WholeList

\* The list stays as it is, and so do those in it.
LEMMA ListFrame ==
    ASSUME ListStays, instances' = instances, instances \in Seq(Vms),
           \A v \in Vms : Enlisted(v) => Enlisted(v)'
    PROVE  ListStays'
<1>1. Range(instances) \subseteq Vms
  BY DEF Range
<1> QED
  BY <1>1 DEF ListStays

LEMMA ListAdd ==
    ASSUME IndInv, ListStays, NEW v \in Vms,
           AddInstance(v) \/ AddUnacknowledged(v)
    PROVE  ListStays'
<1>1. instances' = Append(instances, v) /\ instances \in Seq(Vms)
  BY DEF AddInstance, AddUnacknowledged, AppendInstance, IndInv, TypeOK
<1>2. Range(instances') = Range(instances) \cup {v} /\ Range(instances) \subseteq Vms
  BY <1>1, AppendRange DEF Range
<1>3. Enlisted(v)'
  BY DEF AddInstance, AddUnacknowledged, Goto, IndInv, TypeOK, Enlisted
<1>4. \A u \in Vms \ {v} : pc'[u] = pc[u]
  BY DEF AddInstance, AddUnacknowledged, Goto, IndInv, TypeOK
<1>5. \A u \in Range(instances') : Enlisted(u)'
  BY <1>2, <1>3, <1>4 DEF ListStays, Enlisted
<1> QED
  BY <1>5 DEF ListStays

LEMMA ListWrite ==
    ASSUME NEW v \in Vms, WriteClusterized(v)
    PROVE  ListStays'
BY EmptyRange DEF WriteClusterized, ListStays

LEMMA ListVmStep ==
    ASSUME IndInv, ListStays, NEW v \in Vms, VmStep(v)
    PROVE  ListStays'
<1>1. CASE AddInstance(v)
  BY <1>1, ListAdd
<1>2. CASE Commit(v)
  BY <1>2, ListWrite DEF Commit
<1>3. CASE \/ FetchDeployScript(v) \/ FetchJoinScript(v) \/ DeploySucceeds(v)
           \/ StartupEnds(v) \/ CallClusterize(v) \/ RefuseExtra(v)
           \/ TerminateExtra(v) \/ SelfDelete(v)
  BY <1>3, ListFrame
  DEF FetchDeployScript, FetchJoinScript, DeploySucceeds, StartupEnds,
      CallClusterize, RefuseExtra, TerminateExtra, SelfDelete, Step, Goto, state,
      IndInv, TypeOK, Enlisted
<1>4. CASE \/ SetDeletionProtection(v) \/ Wait(v) \/ GenerateScript(v)
           \/ FormCluster(v) \/ LockAndRead(v) \/ AddAllToGroup(v)
           \/ JoinCluster(v) \/ ProtectJoined(v) \/ AddJoinedToGroup(v)
  BY <1>4, ListFrame
  DEF SetDeletionProtection, Wait, GenerateScript, SetPassword, FormCluster,
      LockAndRead, AddAllToGroup, AddInstancesToGroup, JoinCluster,
      ProtectJoined, AddJoinedToGroup, Step, Goto, state, IndInv, TypeOK,
      Enlisted
<1> QED
  BY <1>1, <1>2, <1>3, <1>4 DEF VmStep

LEMMA ListFault ==
    ASSUME IndInv, ListStays, NEW v \in Vms, Fault(v) \/ Loss(v),
           \A u \in Vms : pc'[u] = "request" => pc[u] \in {"deploy", "request"}
    PROVE  ListStays'
<1>1. CASE AddUnacknowledged(v)
  BY <1>1, ListAdd
<1>2. CASE CommitUnacknowledged(v) \/ CommitUnanswered(v)
  BY <1>2, ListWrite DEF CommitUnacknowledged, CommitUnanswered
<1>3. CASE \/ BootFails(v) \/ DeployFails(v) \/ JoinFails(v) \/ AddFails(v)
           \/ TerminateExtraFails(v) \/ ProtectionFails(v)
           \/ AdminSecretFails(v) \/ FormFails(v) \/ JoinFinalizationFails(v)
  BY <1>3, ListFrame
  DEF BootFails, DeployFails, JoinFails, AddFails, TerminateExtraFails,
      ProtectionFails, AdminSecretFails, FormFails, JoinFinalizationFails, Step,
      Goto, state, IndInv, TypeOK, Enlisted
<1>4. CASE \/ DeploymentSecretFails(v) \/ AddSomeToGroup(v)
           \/ FinalizationFails(v) \/ FinalizationUnanswered(v)
  BY <1>4, ListFrame
  DEF DeploymentSecretFails, SetPassword, AddSomeToGroup, AddInstancesToGroup,
      FinalizationFails, FinalizationUnanswered, Retry, Goto, state, IndInv,
      TypeOK, Enlisted
<1>5. CASE ClusterizeUnanswered(v)
  <2>1. pc'[v] = "request" /\ pc[v] \notin {"deploy", "request"}
    BY <1>5
    DEF ClusterizeUnanswered, Retry, Goto, Clusterizing, IndInv, TypeOK
  <2> QED
    BY <2>1
<1> QED
  BY <1>1, <1>2, <1>3, <1>4, <1>5 DEF Fault, Loss

LEMMA ListOther ==
    ASSUME IndInv, ListStays,
           \/ \E s \in Scalers : ScaleStep(s) \/ ScaleUpFails(s)
           \/ \E size \in Sizes : Resize(size)
           \/ DeleteStaleLock
           \/ UNCHANGED vars
    PROVE  ListStays'
<1>1. instances' = instances
  BY DEF ScaleStep, StartScaleUp, ListBackends, ReadDesiredSize, CreateBackend,
         ScaleUpFails, ScaleTo, Resize, DeleteStaleLock, vars, state, local,
         cloud
<1>2. \A u \in Vms : Enlisted(u) => Enlisted(u)'
  BY DEF ScaleStep, StartScaleUp, ListBackends, ReadDesiredSize, CreateBackend,
         ScaleUpFails, ScaleTo, Resize, DeleteStaleLock, vars, state, local,
         cloud, Goto, IndInv, TypeOK, Enlisted
<1> QED
  BY <1>1, <1>2, ListFrame DEF IndInv, TypeOK

LEMMA NextListStays ==
    ASSUME IndInv, ListStays, [Next]_vars,
           \A u \in Vms : pc'[u] = "request" => pc[u] \in {"deploy", "request"}
    PROVE  ListStays'
BY ListVmStep, ListFault, ListOther DEF Next, SteadyNext

\* errors.go is right when clusterize is called once: an instance that the list
\* has no room for is not in it.  That a repeated call comes from an instance in
\* the list is all that makes the handler terminate a member of the list.
THEOREM ExtraUnlisted == Spec /\ CalledOnce => []ExtraIsNotListed
<1> DEFINE Once == \A v \in Vms : pc'[v] = "request" => pc[v] \in {"deploy", "request"}
<1>1. IndInv /\ ListStays /\ [Next]_vars /\ [Once]_vars => ListStays'
  <2>1. SUFFICES ASSUME IndInv, ListStays, [Next]_vars, [Once]_vars
                 PROVE  ListStays'
    OBVIOUS
  <2>2. CASE Once
    BY <2>1, <2>2, NextListStays
  <2>3. CASE UNCHANGED vars
    BY <2>1, <2>3, ListOther
  <2> QED
    BY <2>1, <2>2, <2>3
<1>2. ListStays => ExtraIsNotListed
  BY DEF ListStays, Enlisted, ExtraIsNotListed
<1>3. Init => ListStays
  BY InitListStays
<1> QED
  BY AlwaysIndInv, <1>1, <1>2, <1>3, PTL DEF Spec, CalledOnce

\* A step that leaves the list, the cluster and those who finalize alone.
LEMMA WholeFrame ==
    ASSUME WholeList, UNCHANGED <<instances, clusterized, weka>>,
           group \subseteq group',
           \A v \in Vms : pc'[v] \in {"regroup", "commit"} =>
                            pc'[v] = pc[v] /\ snap'[v] = snap[v]
    PROVE  WholeList'
BY DEF WholeList

LEMMA WholeAdd ==
    ASSUME IndInv, NEW v \in Vms, AddInstance(v) \/ AddUnacknowledged(v)
    PROVE  WholeList'
<1>1. weka = {} /\ \A u \in Vms : ~Owns(u)
  BY RoomFacts DEF AddInstance, AddUnacknowledged, AppendInstance
<1>2. weka' = {}
  BY <1>1 DEF AddInstance, AddUnacknowledged, AppendInstance, cloud
<1>3. \A u \in Vms : pc'[u] \notin {"regroup", "commit"}
  BY <1>1 DEF AddInstance, AddUnacknowledged, Goto, IndInv, TypeOK, Owns
<1> QED
  BY <1>2, <1>3 DEF WholeList

\* The list that the cluster is formed of is full: it is the list itself.
LEMMA WholeForm ==
    ASSUME IndInv, NEW v \in Vms, FormCluster(v)
    PROVE  WholeList'
<1>1. /\ pc[v] = "form" /\ pc'[v] = "finalize" /\ weka' = Range(snap[v])
      /\ \A u \in Vms \ {v} : pc'[u] = pc[u]
      /\ UNCHANGED <<instances, clusterized>>
  BY DEF FormCluster, Goto, state, IndInv, TypeOK
<1>2. weka = {} /\ ~clusterized /\ password = v /\ Completes(v)
  BY <1>1 DEF IndInv, Parts, Owner, Owns, Formation
<1>3. snap[v] = instances
  BY <1>1, <1>2, SizeAssumption DEF IndInv, Parts, Lists, Completes
<1>4. \A u \in Vms \ {v} : pc[u] \notin {"regroup", "commit"}
  BY <1>2 DEF IndInv, Parts, Owner, Owns
<1> QED
  BY <1>1, <1>3, <1>4 DEF WholeList

LEMMA WholeLock ==
    ASSUME IndInv, WholeList, NEW v \in Vms, LockAndRead(v)
    PROVE  WholeList'
<1>1. /\ pc[v] = "finalize" /\ pc'[v] = "regroup" /\ snap'[v] = instances
      /\ \A u \in Vms \ {v} : pc'[u] = pc[u] /\ snap'[u] = snap[u]
      /\ UNCHANGED <<instances, clusterized, weka, group>>
  BY DEF LockAndRead, Goto, cloud, IndInv, TypeOK
<1>2. weka # {}
  BY <1>1 DEF IndInv, Parts, Owner, Finalizes
<1> QED
  BY <1>1, <1>2 DEF WholeList

\* The whole list exists, so all the members of the cluster are found.
LEMMA WholeRegroup ==
    ASSUME IndInv, ListStays, WholeList, NEW v \in Vms,
           NEW found \in SUBSET Found(v), AddInstancesToGroup(v, found),
           Found(v) \subseteq group'
    PROVE  WholeList'
<1>1. /\ pc[v] = "regroup" /\ pc'[v] = "commit"
      /\ \A u \in Vms \ {v} : pc'[u] = pc[u]
      /\ group' = group \cup found
      /\ UNCHANGED <<instances, clusterized, weka, snap>>
  BY DEF AddInstancesToGroup, Goto, state, IndInv, TypeOK
<1>2. ASSUME ~clusterized
      PROVE  weka \subseteq group'
  <2>1. weka # {} /\ weka \subseteq Vms
    BY <1>1 DEF IndInv, TypeOK, Parts, Owner, Finalizes
  <2>2. Range(snap[v]) = weka /\ weka = Range(instances)
    BY <1>1, <1>2, <2>1 DEF WholeList
  <2>3. weka \subseteq Backends
    BY <2>1, <2>2 DEF ListStays, Enlisted, Backends, Exists
  <2> QED
    BY <2>2, <2>3 DEF Found
<1> QED
  BY <1>1, <1>2 DEF WholeList

\* Nothing to say of a cluster that is clusterized.
LEMMA WholeClusterized ==
    ASSUME IndInv, NEW v \in Vms, WriteClusterized(v) \/ JoinCluster(v)
    PROVE  WholeList'
BY DEF WriteClusterized, JoinCluster, state, WholeList, IndInv, Parts, Formation

LEMMA WholeVmStep ==
    ASSUME IndInv, ListStays, WholeList, NEW v \in Vms, VmStep(v),
           \A u \in Vms : pc[u] = "regroup" /\ pc'[u] = "commit"
                            => Found(u) \subseteq group'
    PROVE  WholeList'
<1>1. CASE AddInstance(v)
  BY <1>1, WholeAdd
<1>2. CASE FormCluster(v)
  BY <1>2, WholeForm
<1>3. CASE LockAndRead(v)
  BY <1>3, WholeLock
<1>4. CASE AddAllToGroup(v)
  <2>1. pc[v] = "regroup" /\ pc'[v] = "commit"
    BY <1>4 DEF AddAllToGroup, AddInstancesToGroup, Goto, IndInv, TypeOK
  <2> QED
    BY <1>4, <2>1, WholeRegroup DEF AddAllToGroup
<1>5. CASE Commit(v) \/ JoinCluster(v)
  BY <1>5, WholeClusterized DEF Commit
<1>6. CASE \/ FetchDeployScript(v) \/ FetchJoinScript(v) \/ DeploySucceeds(v)
           \/ StartupEnds(v) \/ CallClusterize(v) \/ RefuseExtra(v)
           \/ TerminateExtra(v) \/ Wait(v)
  BY <1>6, WholeFrame
  DEF FetchDeployScript, FetchJoinScript, DeploySucceeds, StartupEnds,
      CallClusterize, RefuseExtra, TerminateExtra, Wait, Step, Goto, state,
      cloud, IndInv, TypeOK
<1>7. CASE \/ SelfDelete(v) \/ SetDeletionProtection(v) \/ GenerateScript(v)
           \/ ProtectJoined(v) \/ AddJoinedToGroup(v)
  BY <1>7, WholeFrame
  DEF SelfDelete, SetDeletionProtection, GenerateScript, SetPassword,
      ProtectJoined, AddJoinedToGroup, Goto, state, IndInv, TypeOK
<1> QED
  BY <1>1, <1>2, <1>3, <1>4, <1>5, <1>6, <1>7 DEF VmStep

LEMMA WholeFault ==
    ASSUME IndInv, ListStays, WholeList, NEW v \in Vms, Fault(v) \/ Loss(v),
           \A u \in Vms : pc[u] = "regroup" /\ pc'[u] = "commit"
                            => Found(u) \subseteq group'
    PROVE  WholeList'
<1>1. CASE AddUnacknowledged(v)
  BY <1>1, WholeAdd
<1>2. CASE AddSomeToGroup(v)
  <2>1. PICK found \in SUBSET Found(v) : AddInstancesToGroup(v, found)
    BY <1>2 DEF AddSomeToGroup
  <2>2. pc[v] = "regroup" /\ pc'[v] = "commit"
    BY <2>1 DEF AddInstancesToGroup, Goto, IndInv, TypeOK
  <2> QED
    BY <2>1, <2>2, WholeRegroup
<1>3. CASE CommitUnacknowledged(v) \/ CommitUnanswered(v)
  BY <1>3, WholeClusterized DEF CommitUnacknowledged, CommitUnanswered
<1>4. CASE \/ BootFails(v) \/ DeployFails(v) \/ JoinFails(v) \/ AddFails(v)
           \/ TerminateExtraFails(v) \/ ProtectionFails(v)
           \/ AdminSecretFails(v) \/ FormFails(v) \/ JoinFinalizationFails(v)
  BY <1>4, WholeFrame
  DEF BootFails, DeployFails, JoinFails, AddFails, TerminateExtraFails,
      ProtectionFails, AdminSecretFails, FormFails, JoinFinalizationFails, Step,
      Goto, state, cloud, IndInv, TypeOK
<1>5. CASE \/ DeploymentSecretFails(v) \/ FinalizationFails(v)
           \/ ClusterizeUnanswered(v) \/ FinalizationUnanswered(v)
  BY <1>5, WholeFrame
  DEF DeploymentSecretFails, SetPassword, FinalizationFails,
      ClusterizeUnanswered, FinalizationUnanswered, Retry, Goto, state, cloud,
      IndInv, TypeOK
<1> QED
  BY <1>1, <1>2, <1>3, <1>4, <1>5 DEF Fault, Loss

LEMMA WholeOther ==
    ASSUME IndInv, WholeList,
           \/ \E s \in Scalers : ScaleStep(s) \/ ScaleUpFails(s)
           \/ \E size \in Sizes : Resize(size)
           \/ DeleteStaleLock
           \/ UNCHANGED vars
    PROVE  WholeList'
<1>1. UNCHANGED <<instances, clusterized, weka, group, snap>>
  BY DEF ScaleStep, StartScaleUp, ListBackends, ReadDesiredSize, CreateBackend,
         ScaleUpFails, ScaleTo, Resize, DeleteStaleLock, vars, state, local,
         cloud
<1>2. \A u \in Vms : pc'[u] \in {"regroup", "commit"} => pc'[u] = pc[u]
  BY DEF ScaleStep, StartScaleUp, ListBackends, ReadDesiredSize, CreateBackend,
         ScaleUpFails, ScaleTo, Resize, DeleteStaleLock, vars, state, local,
         cloud, Goto, IndInv, TypeOK
<1> QED
  BY <1>1, <1>2, WholeFrame

LEMMA NextWhole ==
    ASSUME IndInv, ListStays, WholeList, [Next]_vars,
           \A u \in Vms : pc[u] = "regroup" /\ pc'[u] = "commit"
                            => Found(u) \subseteq group'
    PROVE  WholeList'
BY WholeVmStep, WholeFault, WholeOther DEF Next, SteadyNext

\* Only the write of finalization makes the cluster clusterized, and then all of
\* the cluster is in the group.
LEMMA WholeOpens ==
    ASSUME IndInv, WholeList, [Next]_vars, clusterized', ~clusterized
    PROVE  weka \subseteq group
<1>1. PICK v \in Vms : WriteClusterized(v)
  BY Effects
  DEF SetPassword, FormCluster, AddInstancesToGroup, JoinCluster,
      AddJoinedToGroup, state
<1> QED
  BY <1>1 DEF WriteClusterized, WholeList

\* INFO.md is right when clusterize is called once and finalization finds the
\* instances: a cluster becomes clusterized when all of it is in the instance
\* group, whatever else fails and however often finalization is called.
THEOREM GroupIsWhole == Spec /\ CalledOnce /\ FindsAll => ClusterizedIsInGroup
<1> DEFINE Once == \A v \in Vms : pc'[v] = "request" => pc[v] \in {"deploy", "request"}
           Finds == \A v \in Vms : pc[v] = "regroup" /\ pc'[v] = "commit"
                                     => Found(v) \subseteq group'
           Opens == clusterized' /\ ~clusterized => weka \subseteq group
           Inv == ListStays /\ WholeList
<1>1. IndInv /\ Inv /\ [Next]_vars /\ [Once]_vars /\ [Finds]_vars => Inv'
  <2>1. SUFFICES ASSUME IndInv, Inv, [Next]_vars, [Once]_vars, [Finds]_vars
                 PROVE  Inv'
    OBVIOUS
  <2>2. CASE UNCHANGED vars
    BY <2>1, <2>2, ListOther, WholeOther
  <2>3. CASE Once /\ Finds
    BY <2>1, <2>3, NextListStays, NextWhole
  <2> QED
    BY <2>1, <2>2, <2>3
<1>2. IndInv /\ Inv /\ [Next]_vars => [Opens]_vars
  BY WholeOpens
<1>3. Init => Inv
  BY InitListStays
<1> QED
  BY AlwaysIndInv, <1>1, <1>2, <1>3, PTL
  DEF Spec, CalledOnce, FindsAll, ClusterizedIsInGroup

\* Nothing that an instance of the list or of the cluster does, or that is done
\* to it, makes it go away.
Stays(v) == Enlisted(v) \/ pc[v] \in {"member", "joinProtect", "joinGroup"}

MembersStay == \A v \in weka : Stays(v)

LEMMA StaysVmStep ==
    ASSUME IndInv, NEW v \in Vms, VmStep(v), NEW u \in Vms, Stays(u)
    PROVE  Stays(u)'
<1>1. CASE \/ FetchDeployScript(v) \/ FetchJoinScript(v) \/ DeploySucceeds(v)
           \/ StartupEnds(v) \/ CallClusterize(v) \/ RefuseExtra(v)
           \/ TerminateExtra(v) \/ SelfDelete(v) \/ AddInstance(v) \/ Commit(v)
  BY <1>1
  DEF FetchDeployScript, FetchJoinScript, DeploySucceeds, StartupEnds,
      CallClusterize, RefuseExtra, TerminateExtra, SelfDelete, AddInstance,
      AppendInstance, Commit, WriteClusterized, Step, Goto, IndInv, TypeOK,
      Enlisted, Stays
<1>2. CASE \/ SetDeletionProtection(v) \/ Wait(v) \/ GenerateScript(v)
           \/ FormCluster(v) \/ LockAndRead(v) \/ AddAllToGroup(v)
           \/ JoinCluster(v) \/ ProtectJoined(v) \/ AddJoinedToGroup(v)
  BY <1>2
  DEF SetDeletionProtection, Wait, GenerateScript, SetPassword, FormCluster,
      LockAndRead, AddAllToGroup, AddInstancesToGroup, JoinCluster,
      ProtectJoined, AddJoinedToGroup, Step, Goto, IndInv, TypeOK, Enlisted,
      Stays
<1> QED
  BY <1>1, <1>2 DEF VmStep

LEMMA StaysFault ==
    ASSUME IndInv, NEW v \in Vms, Fault(v) \/ Loss(v),
           \A w \in Vms : pc'[w] = "request" => pc[w] \in {"deploy", "request"},
           NEW u \in Vms, Stays(u)
    PROVE  Stays(u)'
<1>1. CASE \/ BootFails(v) \/ DeployFails(v) \/ JoinFails(v) \/ AddFails(v)
           \/ TerminateExtraFails(v) \/ ProtectionFails(v)
           \/ AdminSecretFails(v) \/ FormFails(v) \/ JoinFinalizationFails(v)
  BY <1>1
  DEF BootFails, DeployFails, JoinFails, AddFails, TerminateExtraFails,
      ProtectionFails, AdminSecretFails, FormFails, JoinFinalizationFails, Step,
      Goto, IndInv, TypeOK, Enlisted, Stays
<1>2. CASE \/ AddUnacknowledged(v) \/ CommitUnacknowledged(v)
           \/ DeploymentSecretFails(v) \/ AddSomeToGroup(v)
           \/ FinalizationFails(v)
  BY <1>2
  DEF AddUnacknowledged, AppendInstance, CommitUnacknowledged,
      WriteClusterized, DeploymentSecretFails, SetPassword, AddSomeToGroup,
      AddInstancesToGroup, FinalizationFails, Goto, IndInv, TypeOK, Enlisted,
      Stays
<1>3. CASE FinalizationUnanswered(v) \/ CommitUnanswered(v)
  BY <1>3
  DEF FinalizationUnanswered, CommitUnanswered, Retry, Goto, IndInv, TypeOK,
      Enlisted, Stays
<1>4. CASE ClusterizeUnanswered(v)
  <2>1. pc'[v] = "request" /\ pc[v] \notin {"deploy", "request"}
    BY <1>4
    DEF ClusterizeUnanswered, Retry, Goto, Clusterizing, IndInv, TypeOK
  <2> QED
    BY <2>1
<1> QED
  BY <1>1, <1>2, <1>3, <1>4 DEF Fault, Loss

LEMMA StaysOther ==
    ASSUME IndInv,
           \/ \E s \in Scalers : ScaleStep(s) \/ ScaleUpFails(s)
           \/ \E size \in Sizes : Resize(size)
           \/ DeleteStaleLock
           \/ UNCHANGED vars,
           NEW u \in Vms, Stays(u)
    PROVE  Stays(u)'
BY DEF ScaleStep, StartScaleUp, ListBackends, ReadDesiredSize, CreateBackend,
       ScaleUpFails, ScaleTo, Resize, DeleteStaleLock, vars, state, local,
       cloud, Goto, IndInv, TypeOK, Enlisted, Stays

\* The cluster gets new members when it is formed, of the list, and when an
\* instance joins.
LEMMA NextMembersStay ==
    ASSUME IndInv, ListStays, MembersStay, [Next]_vars,
           \A w \in Vms : pc'[w] = "request" => pc[w] \in {"deploy", "request"}
    PROVE  MembersStay'
<1>1. weka \subseteq Vms
  BY DEF IndInv, TypeOK
<1>2. ASSUME NEW u \in Vms, Stays(u)
      PROVE  Stays(u)'
  BY <1>2, StaysVmStep, StaysFault, StaysOther DEF Next, SteadyNext
<1>3. CASE weka' = weka
  BY <1>1, <1>2, <1>3 DEF MembersStay
<1>4. ASSUME NEW v \in Vms, FormCluster(v)
      PROVE  MembersStay'
  <2>1. pc[v] = "form" /\ weka' = Range(snap[v])
    BY <1>4 DEF FormCluster
  <2>2. weka = {} /\ Completes(v)
    BY <2>1 DEF IndInv, Parts, Owner
  <2>3. snap[v] = instances
    BY <2>1, <2>2, SizeAssumption DEF IndInv, Parts, Lists, Completes, Formation
  <2>4. weka' \subseteq Vms /\ \A u \in weka' : Stays(u)
    BY <2>1, <2>3 DEF ListStays, Stays, IndInv, TypeOK, Range
  <2> QED
    BY <1>2, <2>4 DEF MembersStay
<1>5. ASSUME NEW v \in Vms, JoinCluster(v)
      PROVE  MembersStay'
  <2>1. weka' = weka \cup {v} /\ pc'[v] = "joinProtect"
    BY <1>5 DEF JoinCluster, Goto, IndInv, TypeOK
  <2>2. Stays(v)'
    BY <2>1 DEF Stays
  <2> QED
    BY <1>1, <1>2, <2>1, <2>2 DEF MembersStay
<1>6. \/ weka' = weka
      \/ \E v \in Vms : FormCluster(v) \/ JoinCluster(v)
  BY Effects
  DEF SetPassword, AddInstancesToGroup, WriteClusterized, AddJoinedToGroup, cloud
<1> QED
  BY <1>3, <1>4, <1>5, <1>6

\* When clusterize is called once, no instance that has become a member of the
\* cluster is terminated by the functions that build it, or terminates itself.
THEOREM MembersExist == Spec /\ CalledOnce => [](weka \subseteq Backends)
<1> DEFINE Once == \A v \in Vms : pc'[v] = "request" => pc[v] \in {"deploy", "request"}
           Inv == ListStays /\ MembersStay
<1>1. IndInv /\ Inv /\ [Next]_vars /\ [Once]_vars => Inv'
  <2>1. SUFFICES ASSUME IndInv, Inv, [Next]_vars, [Once]_vars
                 PROVE  Inv'
    OBVIOUS
  <2>2. CASE UNCHANGED vars
    BY <2>1, <2>2, ListOther
    DEF vars, local, cloud, MembersStay, Stays, Enlisted
  <2>3. CASE Once
    BY <2>1, <2>3, NextListStays, NextMembersStay
  <2> QED
    BY <2>1, <2>2, <2>3
<1>2. IndInv /\ Inv => weka \subseteq Backends
  BY DEF IndInv, TypeOK, MembersStay, Stays, Enlisted, Backends, Exists
<1>3. Init => Inv
  BY InitListStays DEF Init, MembersStay
<1> QED
  BY AlwaysIndInv, <1>1, <1>2, <1>3, PTL DEF Spec, CalledOnce
=============================================================================
