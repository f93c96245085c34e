------------------------- MODULE NfsGatewaysProofs -------------------------
(***************************************************************************)
(* That gateways which serve are counted and in the interface group, that  *)
(* no more are created than desired, and that existing ones are put in the *)
(* list once, for any number of gateways, of overlapping scale_up          *)
(* executions and of repeated calls, whatever fails.                       *)
(***************************************************************************)
EXTENDS NfsGateways, Counting, FiniteSetTheorems, TLAPS

\* What gateways and executions leave alone
USE DEF outside

------------------------------------------------------------------------------
(* Types                                                                    *)

LEMMA Numbers ==
    /\ Target \in Nat \ {0} /\ Sizes \subseteq Nat /\ Retries \in Nat
    /\ PortsOf \in [Gateways -> Nat \ {0}]
    /\ GatewaysNum \in Nat /\ Target <= GatewaysNum
BY NumberAssumption, GatewaysAssumption

LEMMA MissingType ==
    TypeOK => \A s \in Scalers : exec[s].number \in Nat /\ Missing(s) \in Nat
<1>1. TypeOK => \A s \in Scalers : exec[s].number \in Nat
  BY DEF TypeOK, ExecType
<1>2. TypeOK => desired \in Nat
  BY DEF TypeOK
<1> QED BY <1>1, <1>2 DEF Missing

LEMMA CountedNumber == TypeOK => Cardinality(Counted) \in Nat
<1>1. ASSUME TypeOK PROVE IsFiniteSet(Counted)
  BY <1>1, NameAssumption, FS_Subset DEF Counted, TypeOK
<1> QED BY <1>1, FS_CardinalityType

LEMMA OffType == Off \in ExecType
BY Numbers DEF Off, ExecType

LEMMA SeqFacts ==
    /\ \A q \in Seq(Gateways) : ToSet(q) \subseteq Gateways
    /\ \A S : \A q \in SetToSeqs(S) :
         IsFiniteSet(S) => q \in Seq(S) /\ IsInjective(q)
<1>1. \A q \in Seq(Gateways) : ToSet(q) \subseteq Gateways
  BY DEF ToSet
<1>2. ASSUME NEW S, NEW q \in SetToSeqs(S), IsFiniteSet(S)
      PROVE  q \in Seq(S) /\ IsInjective(q)
  <2>1. Cardinality(S) \in Nat
    BY <1>2, FS_CardinalityType
  <2>2. /\ q \in [1 .. Cardinality(S) -> S]
        /\ \A i, j \in 1 .. Cardinality(S) : q[i] = q[j] => i = j
    BY DEF SetToSeqs
  <2>3. q \in Seq(S)
    BY <2>1, <2>2
  <2>4. IsInjective(q)
    BY <2>2 DEF IsInjective
  <2> QED BY <2>3, <2>4
<1> QED BY <1>1, <1>2

\* The ports of some gateways
LEMMA PortFacts ==
    ASSUME NEW S \in SUBSET Gateways
    PROVE  /\ PortsIn(S) \in SUBSET PortsIn(Gateways)
           /\ \A p \in PortsIn(S) : /\ p[1] \in S /\ p[2] \in 1 .. PortsOf[p[1]]
                                   /\ p = <<p[1], p[2]>>
           /\ \A v \in S : <<v, 1>> \in PortsIn(S)
           /\ IsFiniteSet(PortsIn(S))
<1> DEFINE Of(v) == {v} \X (1 .. PortsOf[v])
<1>1. \A v \in Gateways : PortsOf[v] \in Nat /\ 1 \in 1 .. PortsOf[v]
  BY Numbers
<1>2. PortsIn(S) \in SUBSET PortsIn(Gateways)
  BY DEF PortsIn
<1>3. \A p \in PortsIn(S) : /\ p[1] \in S /\ p[2] \in 1 .. PortsOf[p[1]]
                            /\ p = <<p[1], p[2]>>
  BY DEF PortsIn
<1>4. \A v \in S : <<v, 1>> \in PortsIn(S)
  BY <1>1 DEF PortsIn
<1>5. IsFiniteSet(PortsIn(S))
  <2>1. PICK T : T = {Of(v) : v \in S}
    OBVIOUS
  <2>2. IsFiniteSet(S)
    BY NameAssumption, FS_Subset
  <2>3. ASSUME NEW v \in S PROVE IsFiniteSet(Of(v))
    <3>1. IsFiniteSet({v})
      BY FS_Singleton
    <3>2. PortsOf[v] \in Int /\ 1 \in Int
      BY <1>1
    <3>3. IsFiniteSet(1 .. PortsOf[v])
      BY <3>2, FS_Interval
    <3> QED BY <3>1, <3>3, FS_Product
  <2>4. IsFiniteSet(T)
    <3> DEFINE F == [v \in S |-> Of(v)]
    <3>1. \A v \in S : F[v] = Of(v)
      OBVIOUS
    <3> HIDE DEF F
    <3>2. F \in Surjection(S, T)
      <4>1. F \in [S -> T]
        BY <2>1, <3>1 DEF F
      <4>2. \A t \in T : \E v \in S : F[v] = t
        BY <2>1, <3>1
      <4> QED BY <4>1, <4>2 DEF Surjection
    <3> QED BY <2>2, <3>2, FS_Surjection
  <2>5. \A t \in T : IsFiniteSet(t)
    BY <2>1, <2>3
  <2>6. IsFiniteSet(UNION T)
    BY <2>4, <2>5, FS_UNION
  <2> QED BY <2>1, <2>6 DEF PortsIn
<1> QED BY <1>2, <1>3, <1>4, <1>5

\* What a migration appends
LEMMA EntriesFacts ==
    ASSUME NEW S \in SUBSET Gateways, NEW order \in SetToSeqs(PortsIn(S))
    PROVE  /\ order \in Seq(PortsIn(S)) /\ IsInjective(order)
           /\ Entries(order) \in Seq(Gateways) /\ Len(Entries(order)) = Len(order)
           /\ ToSet(Entries(order)) \subseteq S
           /\ \A i \in 1 .. Len(order) : Entries(order)[i] = order[i][1]
<1>1. order \in Seq(PortsIn(S)) /\ IsInjective(order)
  BY PortFacts, SeqFacts
<1>2. /\ Len(order) \in Nat /\ DOMAIN order = 1 .. Len(order)
      /\ \A i \in 1 .. Len(order) : order[i][1] \in S
  BY <1>1, PortFacts
<1>3. Entries(order) \in [1 .. Len(order) -> S]
  BY <1>2 DEF Entries
<1>4. Entries(order) \in Seq(S) /\ Len(Entries(order)) = Len(order)
  BY <1>2, <1>3
<1> QED BY <1>1, <1>2, <1>3, <1>4 DEF Entries, ToSet

LEMMA TypeInit == Init => TypeOK
<1> SUFFICES ASSUME Init PROVE TypeOK
  OBVIOUS
<1>1. <<>> \in Seq(Gateways) /\ 0 \in 0 .. Retries
  BY Numbers
<1>2. interfaces \in [members : SUBSET Gateways, ok : BOOLEAN]
  BY NameAssumption DEF Init
<1>3. pc \in [Gateways -> Points] /\ backendsUp \in BOOLEAN /\ desired \in Nat
  BY Numbers DEF Init, Points
<1> QED BY <1>1, <1>2, <1>3, OffType DEF Init, TypeOK

\* The steps of gateways, by what they change
LEMMA StepType ==
    ASSUME TypeOK, NEW v \in Gateways, NEW from, NEW to \in Points,
           Step(v, from, to)
    PROVE  TypeOK'
BY DEF TypeOK, Step, Goto, object, project

LEMMA RetryType ==
    ASSUME TypeOK, NEW v \in Gateways, NEW to \in Points, Retry(v, to)
    PROVE  /\ retries' \in [Gateways -> 0 .. Retries] /\ pc' \in [Gateways -> Points]
           /\ snap' \in [Gateways -> Seq(Gateways)]
           /\ todo' \in [Gateways -> SUBSET Gateways]
<1>1. retries[v] < Retries => retries[v] + 1 \in 0 .. Retries
  BY Numbers DEF TypeOK
<1>2. <<>> \in Seq(Gateways) /\ "idle" \in Points
  BY DEF Points
<1>3. retries' \in [Gateways -> 0 .. Retries]
  BY <1>1 DEF Retry, TypeOK
<1>4. pc' \in [Gateways -> Points]
  BY <1>2 DEF Retry, Goto, TypeOK
<1> QED BY <1>2, <1>3, <1>4 DEF Retry, TypeOK

LEMMA GatewayType ==
    ASSUME TypeOK, NEW v \in Gateways, GatewayStep(v) \/ GatewayFault(v)
    PROVE  TypeOK'
<1> USE DEF Points, Finalizing
<1>1. ASSUME NEW to \in {"protect", "idle"}, AppendGateway(v), Goto(v, to),
             snap' = snap \/ snap' = [snap EXCEPT ![v] = instances']
      PROVE  TypeOK'
  <2>1. instances' \in Seq(Gateways)
    BY <1>1 DEF AppendGateway, TypeOK
  <2>2. pc' \in [Gateways -> Points] /\ snap' \in [Gateways -> Seq(Gateways)]
    BY <1>1, <2>1 DEF Goto, TypeOK
  <2> QED BY <1>1, <2>1, <2>2 DEF AppendGateway, TypeOK, project
<1>2. CASE AddGateway(v) \/ AddUnacknowledged(v)
  BY <1>1, <1>2 DEF AddGateway, AddUnacknowledged
<1>3. CASE TerminateExtra(v)
  BY <1>3 DEF TerminateExtra, Goto, TypeOK, object
<1>4. CASE Protect(v) \/ ProtectJoined(v)
  BY <1>4 DEF Protect, ProtectJoined, ProtectedBy, Goto, TypeOK, object
<1>5. CASE SetMigrated(v)
  BY <1>5 DEF SetMigrated, Goto, TypeOK, project
<1>6. CASE CreateInterfaceGroup(v) \/ InterfaceGroupIsUp(v) \/ JoinInterfaceGroup(v)
  <2>1. snap[v] \in Seq(Gateways) /\ ToSet(snap[v]) \subseteq Gateways
    BY SeqFacts DEF TypeOK
  <2>2. ASSUME NEW from, NEW to \in Points, NEW m \in SUBSET Gateways,
               NEW ok \in BOOLEAN, SetInterfaces(v, from, to, m, ok)
        PROVE  TypeOK'
    BY <2>2 DEF SetInterfaces, Goto, TypeOK, object, project
  <2>3. interfaces.members \in SUBSET Gateways /\ interfaces.ok \in BOOLEAN
    BY DEF TypeOK
  <2>4. CASE CreateInterfaceGroup(v)
    <3>1. interfaces.members \cup ToSet(snap[v]) \in SUBSET Gateways
      BY <2>1, <2>3
    <3> QED BY <2>2, <2>4, <3>1 DEF CreateInterfaceGroup
  <2>5. CASE InterfaceGroupIsUp(v)
    BY <2>2, <2>3, <2>5 DEF InterfaceGroupIsUp
  <2>6. CASE JoinInterfaceGroup(v)
    BY <2>2, <2>3, <2>6 DEF JoinInterfaceGroup
  <2> QED BY <1>6, <2>4, <2>5, <2>6
<1>7. CASE LockAndRead(v)
  BY <1>7, SeqFacts DEF LockAndRead, Goto, TypeOK, project
<1>8. CASE LabelPort(v)
  BY <1>8 DEF LabelPort, TypeOK, object
<1>9. CASE AddInstancesToGroup(v)
  <2>1. snap[v] \in Seq(Gateways) /\ ToSet(snap[v]) \subseteq Gateways
    BY SeqFacts DEF TypeOK
  <2> QED BY <1>9, <2>1 DEF AddInstancesToGroup, Goto, TypeOK, object
<1>10. CASE Commit(v) \/ CommitUnacknowledged(v)
  <2>1. \E to \in {"serving", "idle"} : CommitAnd(v, to)
    BY <1>10 DEF Commit, CommitUnacknowledged
  <2>2. <<>> \in Seq(Gateways)
    OBVIOUS
  <2> QED BY <2>1, <2>2 DEF CommitAnd, WriteClusterized, Goto, TypeOK, project
<1>11. CASE FinalizationFails(v)
  BY <1>11 DEF FinalizationFails, Goto, TypeOK, project
<1>12. CASE AddJoinedToGroup(v) \/ LabelJoined(v)
  BY <1>12 DEF AddJoinedToGroup, LabelJoined, Goto, TypeOK, object
<1>13. CASE ClusterizeUnanswered(v) \/ FinalizationUnanswered(v) \/ TimeOut(v)
            \/ CommitUnanswered(v)
  <2>1. \E to \in {"request", "finalize"} : Retry(v, to)
    BY <1>13 DEF ClusterizeUnanswered, FinalizationUnanswered, TimeOut,
                 CommitUnanswered, CallAgain
  <2>2. /\ retries' \in [Gateways -> 0 .. Retries] /\ pc' \in [Gateways -> Points]
        /\ snap' \in [Gateways -> Seq(Gateways)]
        /\ todo' \in [Gateways -> SUBSET Gateways]
    BY <2>1, RetryType
  <2>3. /\ UNCHANGED <<migrated, holder, outside, project, interfaces, exec>>
        /\ instances' \in {instances, <<>>} /\ clusterized' \in {clusterized, TRUE}
    BY <1>13 DEF ClusterizeUnanswered, FinalizationUnanswered, TimeOut,
                 CommitUnanswered, WriteClusterized, CallAgain, object
  <2>4. <<>> \in Seq(Gateways)
    OBVIOUS
  <2> QED BY <2>2, <2>3, <2>4 DEF TypeOK, project
<1>14. ASSUME NEW from, NEW to \in Points, Step(v, from, to) PROVE TypeOK'
  BY <1>14, StepType
<1> QED BY <1>2, <1>3, <1>4, <1>5, <1>6, <1>7, <1>8, <1>9, <1>10, <1>11, <1>12,
           <1>13, <1>14
     DEF GatewayStep, GatewayFault, CriticalStep, FetchDeployScript,
         FetchJoinScript, DeploySucceeds, RefuseExtra, Wait, PortsAreLabelled,
         BootFails, DeployFails, AddFails, TerminateExtraFails, ProtectionFails,
         SetMigratedFails, SetupFails, PortLabelFails, JoinedLabelFails,
         JoinFinalizationFails

\* The steps of executions: where they go, and what they change
LEMMA AdvanceType ==
    ASSUME TypeOK, NEW s \in Scalers, NEW from, NEW to \in ExecType,
           Advance(s, from, to)
    PROVE  /\ exec' \in [Scalers -> ExecType]
           /\ backendsUp' \in BOOLEAN /\ desired' \in Nat
           /\ interfaces' \in [members : SUBSET Gateways, ok : BOOLEAN]
           /\ pc' \in [Gateways -> Points]
           /\ snap' \in [Gateways -> Seq(Gateways)]
           /\ todo' \in [Gateways -> SUBSET Gateways]
           /\ retries' \in [Gateways -> 0 .. Retries]
BY DEF TypeOK, Advance, local

LEMMA ExecOnlyType ==
    ASSUME TypeOK, NEW s \in Scalers, NEW from, NEW to \in ExecType,
           ExecOnly(s, from, to)
    PROVE  TypeOK'
BY AdvanceType DEF TypeOK, ExecOnly, object, project

LEMMA ScalerType ==
    ASSUME TypeOK, NEW s \in Scalers, ScaleStep(s) \/ ScaleFault(s)
    PROVE  TypeOK'
<1>0. exec[s] \in ExecType /\ Off \in ExecType
  BY OffType DEF TypeOK
<1>1. CASE StartScaleUp(s)
  <2>1. [Off EXCEPT !.at = "list", !.backendsUp = backendsUp] \in ExecType
    BY <1>0 DEF TypeOK, ExecType
  <2> QED BY <1>1, <2>1, ExecOnlyType DEF StartScaleUp
<1>2. CASE ListGateways(s)
  <2>1. [exec[s] EXCEPT !.at = "read", !.number = Cardinality(Counted)] \in ExecType
    BY <1>0, CountedNumber DEF ExecType
  <2> QED BY <1>2, <2>1, ExecOnlyType DEF ListGateways
<1>3. \A at \in Migrating \cup {"create", "inspect", "lock"} :
        [exec[s] EXCEPT !.at = at] \in ExecType
  BY <1>0 DEF ExecType
<1>4. CASE ReadNfsState(s)
  <2>1. /\ [exec[s] EXCEPT !.at = "inspect", !.number = 0] \in ExecType
        /\ [exec[s] EXCEPT !.at = "create", !.number = Missing(s)] \in ExecType
    BY <1>0, MissingType DEF ExecType
  <2> QED BY <1>0, <1>4, <2>1, ExecOnlyType DEF ReadNfsState
<1>5. CASE CreateGateway(s)
  <2>1. exec[s].number > 1 =>
          [exec[s] EXCEPT !.number = exec[s].number - 1] \in ExecType
    <3>1. exec[s].number > 1 => exec[s].number - 1 \in Nat
      BY MissingType
    <3> QED BY <1>0, <3>1 DEF ExecType
  <2>2. exec' \in [Scalers -> ExecType]
    BY <1>0, <1>5, <2>1 DEF CreateGateway, TypeOK
  <2> QED BY <1>5, <2>2 DEF CreateGateway, TypeOK, Goto, object, Points
<1>6. CASE InspectInterfaceGroup(s)
  <2>1. [exec[s] EXCEPT !.at = "lock", !.found = interfaces.members,
                        !.ok = interfaces.ok] \in ExecType
    BY <1>0 DEF TypeOK, ExecType
  <2> QED BY <1>6, <2>1, ExecOnlyType DEF InspectInterfaceGroup
<1>7. CASE LockForMigration(s)
  <2>1. [exec[s] EXCEPT !.at = IF exec[s].found = {} THEN "write" ELSE "regroup"]
          \in ExecType
    BY <1>3 DEF Migrating
  <2> QED BY <1>7, <2>1, AdvanceType DEF LockForMigration, TypeOK, project
<1>8. /\ exec[s].found \in SUBSET Gateways
      /\ exec[s].todo \in SUBSET PortsIn(Gateways)
      /\ PortsIn(exec[s].found) \in SUBSET PortsIn(Gateways)
  BY <1>0, PortFacts DEF ExecType
<1>9. CASE RegroupMigrated(s)
  <2>1. [exec[s] EXCEPT !.at = "label", !.todo = PortsIn(exec[s].found)] \in ExecType
    BY <1>0, <1>8 DEF ExecType, Migrating
  <2> QED BY <1>8, <1>9, <2>1, AdvanceType DEF RegroupMigrated, TypeOK, object
<1>10. ASSUME NEW p \in exec[s].todo
       PROVE  /\ [exec[s] EXCEPT !.todo = exec[s].todo \ {p}] \in ExecType
              /\ [exec[s] EXCEPT !.todo = exec[s].todo \ {p},
                                 !.failed = TRUE] \in ExecType
              /\ p[1] \in Gateways
  BY <1>0, <1>8, PortFacts DEF ExecType
<1>11. CASE LabelMigrated(s)
  <2>1. PICK p \in exec[s].todo :
          /\ Advance(s, "label", [exec[s] EXCEPT !.todo = exec[s].todo \ {p}])
          /\ labelled' = labelled \cup {p[1]} /\ ports' = ports \cup {p[1]}
          /\ UNCHANGED <<object, group, protected>>
    BY <1>11 DEF LabelMigrated
  <2>2. [exec[s] EXCEPT !.todo = exec[s].todo \ {p}] \in ExecType /\ p[1] \in Gateways
    BY <1>10
  <2>3. labelled' \subseteq Gateways /\ ports' \subseteq Gateways
    BY <2>1, <2>2 DEF TypeOK
  <2> QED BY <2>1, <2>2, <2>3, AdvanceType DEF TypeOK, object
<1>12. CASE LabelMigratedFails(s)
  BY <1>10, <1>12, ExecOnlyType DEF LabelMigratedFails
<1>13. CASE LabelsAreSet(s)
  BY <1>3, <1>13, ExecOnlyType DEF LabelsAreSet, Migrating
<1>14. ASSUME NEW to \in ExecType, WriteMigrated(s, to) PROVE TypeOK'
  <2>1. instances' \in Seq(Gateways)
    <3>1. PICK order \in SetToSeqs(PortsIn(exec[s].found)) :
            instances' = IF exec[s].ok THEN instances ELSE instances \o Entries(order)
      BY <1>14 DEF WriteMigrated
    <3>2. Entries(order) \in Seq(Gateways)
      BY <1>8, EntriesFacts
    <3> QED BY <3>1, <3>2 DEF TypeOK
  <2>2. clusterized' \in BOOLEAN
    BY <1>14 DEF WriteMigrated
  <2> QED BY <1>14, <2>1, <2>2, AdvanceType DEF WriteMigrated, TypeOK, project
<1>15. CASE CommitMigration(s) \/ MigrationUnacknowledged(s)
  <2>1. [Off EXCEPT !.at = "protect", !.todo = PortsIn(exec[s].found)] \in ExecType
    BY <1>0, <1>8 DEF ExecType
  <2> QED BY <1>0, <1>14, <1>15, <2>1 DEF CommitMigration, MigrationUnacknowledged
<1>16. CASE MigrationFails(s)
  BY <1>0, <1>16, AdvanceType DEF MigrationFails, TypeOK, project
<1>17. CASE ScaleUpFails(s) \/ MigrationDies(s)
  BY <1>0, <1>17, ExecOnlyType DEF ScaleUpFails, MigrationDies
<1>18. CASE ProtectMigrated(s)
  <2>1. PICK p \in exec[s].todo :
          /\ protected' \in {protected, protected \cup {p[1]}}
          /\ Advance(s, "protect", IF exec[s].todo = {p} THEN Off
                                   ELSE [exec[s] EXCEPT !.todo = exec[s].todo \ {p}])
    BY <1>18 DEF ProtectMigrated
  <2>2. [exec[s] EXCEPT !.todo = exec[s].todo \ {p}] \in ExecType /\ p[1] \in Gateways
    BY <1>10
  <2>3. protected' \subseteq Gateways
    BY <2>1, <2>2 DEF TypeOK
  <2>4. UNCHANGED <<object, labelled, ports, group>>
    BY <1>18 DEF ProtectMigrated
  <2>5. PICK to \in ExecType : Advance(s, "protect", to)
    BY <1>0, <2>1, <2>2
  <2> QED BY <2>3, <2>4, <2>5, AdvanceType DEF TypeOK, object
<1> QED BY <1>1, <1>2, <1>4, <1>5, <1>6, <1>7, <1>9, <1>11, <1>12, <1>13, <1>15,
           <1>16, <1>17, <1>18
     DEF ScaleStep, ScaleFault, MigrationStep

LEMMA TypeNext == TypeOK /\ [Next]_vars => TypeOK'
<1> SUFFICES ASSUME TypeOK, [Next]_vars PROVE TypeOK'
  OBVIOUS
<1>1. CASE BackendsComeUp \/ DeleteStaleLock \/ \E size \in Sizes : Resize(size)
  BY <1>1, Numbers
     DEF BackendsComeUp, DeleteStaleLock, Resize, TypeOK, object, project, local
<1>2. CASE UNCHANGED vars
  BY <1>2 DEF vars, TypeOK, object, project, local
<1> QED BY <1>1, <1>2, GatewayType, ScalerType DEF Next

\* The object, the project, handlers and executions keep their types; calls are
\* repeated no more than Retries times.
THEOREM TypeCorrect == Spec => []TypeOK
BY TypeInit, TypeNext, PTL DEF Spec
------------------------------------------------------------------------------
(* The inductive invariant                                                  *)

\* Gateways of an older deployment that nobody has labelled
Unlabelled == {v \in Gateways : pc[v] = "serving" /\ v \notin labelled}

\* A gateway that scale_up created has its label from the template.
Created == \A v \in Gateways : pc[v] \notin {"absent", "serving"} => v \in labelled

\* Where an execution is that has yet to migrate them
PendingAt(s) ==
    /\ exec[s].at \in {"list", "read"} => exec[s].backendsUp
    /\ exec[s].at \notin {"create", "write"}
    /\ exec[s].at \in {"lock", "regroup"} => Unlabelled \subseteq exec[s].found
    /\ exec[s].at = "label" /\ ~exec[s].failed =>
         \A v \in Unlabelled : \E p \in exec[s].todo : p[1] = v

\* As long as there are such gateways, every execution that gets so far migrates
\* them, and no gateway is created.
Pending ==
    Unlabelled # {} =>
      /\ ~migrated /\ backendsUp
      /\ \A v \in Gateways : pc[v] \in {"absent", "serving"}
      /\ Unlabelled \subseteq interfaces.members
      /\ \A s \in Scalers : PendingAt(s)

\* The setup of an interface group begins with the migrated flag, and a gateway
\* joins one that was set up or migrated: before, there are existing gateways only.
Flagged ==
    /\ clusterized => migrated
    /\ migrated \/ interfaces.members \subseteq Existing
    /\ \A v \in Gateways :
         pc[v] \in Finalizing \cup {"join", "form", "check", "finalize"} => migrated

KnownTo(s) ==
    /\ exec[s].found \subseteq interfaces.members
    /\ \A p \in exec[s].todo : p[1] \in interfaces.members

\* What executions and the cloud project know of the interface group
Known ==
    /\ ServedByInterfaceGroup
    /\ \A s \in Scalers : KnownTo(s)

\* Nothing but gateways of the interface group is added to a list that is full:
\* whoever sets the group up has all others in the list it was given.
ListedAt(v) ==
    /\ pc[v] \in {"protect", "decide", "form"} /\ Target <= Len(snap[v]) =>
         /\ ToSet(instances) \subseteq ToSet(snap[v]) \cup interfaces.members
         /\ ~HasRoom
    /\ pc[v] = "form" => Target <= Len(snap[v])
    /\ pc[v] \in Finalizing \cup {"check", "finalize"} =>
         /\ ToSet(instances) \subseteq interfaces.members
         /\ ~HasRoom
    /\ pc[v] \in Finalizing =>
         ToSet(snap[v]) \cup todo[v] \subseteq interfaces.members
    /\ pc[v] \in {"joinProtect", "joinGroup", "joinLabel"} =>
         v \in interfaces.members

Listed == \A v \in Gateways : ListedAt(v)

IndInv == TypeOK /\ Created /\ Pending /\ Flagged /\ Known /\ Listed

------------------------------------------------------------------------------
(* Initial states                                                           *)

LEMMA InitIndInv == Init => IndInv
<1> SUFFICES ASSUME Init PROVE IndInv
  OBVIOUS
<1>1. TypeOK
  BY TypeInit
<1>3. PICK old \in {{}, Existing}, ok \in BOOLEAN :
        /\ backendsUp \in BOOLEAN /\ (old # {} => backendsUp)
        /\ interfaces = [members |-> old, ok |-> ok /\ old # {}]
        /\ pc = [v \in Gateways |-> IF v \in old THEN "serving" ELSE "absent"]
  BY DEF Init
<1>4. /\ Unlabelled \subseteq interfaces.members
      /\ \A v \in Gateways : pc[v] \in {"absent", "serving"}
      /\ Unlabelled # {} => backendsUp
  BY <1>3 DEF Unlabelled
<1>5. Created
  BY <1>4 DEF Created
<1>6. Pending
  BY <1>4 DEF Pending, PendingAt, Init, Off
<1>7. Flagged
  BY <1>3, <1>4 DEF Flagged, Init, Finalizing
<1>8. Known
  BY <1>3 DEF Known, KnownTo, Init, Off, ServedByInterfaceGroup
<1>9. Listed
  BY <1>4 DEF Listed, ListedAt, Finalizing
<1> QED BY <1>1, <1>5, <1>6, <1>7, <1>8, <1>9 DEF IndInv

------------------------------------------------------------------------------
(* What a step leaves alone                                                 *)

\* The interface group grows, and a full list grows by gateways of the group only.
Grows ==
    /\ interfaces.members \subseteq interfaces'.members
    /\ ~HasRoom => /\ ~HasRoom'
                   /\ ToSet(instances') \subseteq
                        ToSet(instances) \cup interfaces.members

LEMMA SteadyGrows == UNCHANGED <<instances, clusterized, interfaces>> => Grows
BY DEF Grows, HasRoom

\* A handler that does not move keeps what it knows of the list.
LEMMA OthersListed ==
    ASSUME IndInv, Grows, NEW u \in Gateways,
           pc'[u] = pc[u], snap'[u] = snap[u], todo'[u] = todo[u]
    PROVE  ListedAt(u)'
<1>1. ListedAt(u)
  BY DEF IndInv, Listed
<1> QED BY <1>1 DEF ListedAt, Grows

\* A gateway that nobody has to migrate moves.
LEMMA GatewayFrame ==
    ASSUME IndInv, TypeOK', NEW v \in Gateways, pc[v] \notin {"absent", "serving"},
           \A u \in Gateways \ {v} :
             pc'[u] = pc[u] /\ snap'[u] = snap[u] /\ todo'[u] = todo[u],
           labelled' = labelled, exec' = exec,
           Grows, migrated => migrated', clusterized' => migrated',
           migrated' \/ interfaces'.members = interfaces.members,
           pc'[v] \in Finalizing \cup {"join", "form", "check", "finalize"} => migrated',
           group' \cup ports' \subseteq interfaces'.members,
           ListedAt(v)'
    PROVE  IndInv'
<1>1. v \in labelled /\ Unlabelled = {}
  BY DEF IndInv, Created, Pending
<1>2. Created'
  BY <1>1 DEF IndInv, Created
<1>3. Unlabelled' = {}
  BY <1>1 DEF Unlabelled
<1>4. Pending'
  BY <1>3 DEF Pending
<1>5. Flagged'
  BY DEF IndInv, Flagged
<1>6. Known'
  BY DEF IndInv, Known, KnownTo, Grows, ServedByInterfaceGroup
<1>7. Listed'
  BY OthersListed DEF Listed
<1> QED BY <1>2, <1>4, <1>5, <1>6, <1>7 DEF IndInv

\* ... and the list, the group and the migrated flag stay.
LEMMA SteadyFrame ==
    ASSUME IndInv, TypeOK', NEW v \in Gateways, pc[v] \notin {"absent", "serving"},
           \A u \in Gateways \ {v} :
             pc'[u] = pc[u] /\ snap'[u] = snap[u] /\ todo'[u] = todo[u],
           UNCHANGED <<instances, clusterized, interfaces, migrated, labelled, exec>>,
           pc'[v] \in Finalizing \cup {"join", "form", "check", "finalize"} => migrated,
           group' \cup ports' \subseteq interfaces.members,
           ListedAt(v)'
    PROVE  IndInv'
<1>1. Grows
  BY SteadyGrows DEF IndInv
<1> QED BY <1>1, GatewayFrame DEF IndInv, Known, Flagged

\* Only its own position changes, to one that asks for no more.
LEMMA StepFrame ==
    ASSUME IndInv, TypeOK', NEW v \in Gateways, NEW from, NEW to,
           Step(v, from, to), from \notin {"absent", "serving"},
           to \in Finalizing => from \in Finalizing, to = "join" => clusterized,
           to \notin {"protect", "decide", "form", "check", "finalize",
                      "joinProtect", "joinGroup", "joinLabel"}
    PROVE  IndInv'
<1>1. pc[v] = from /\ pc'[v] = to /\ TypeOK
  BY DEF Step, Goto, IndInv, TypeOK
<1>2. \A u \in Gateways \ {v} :
        pc'[u] = pc[u] /\ snap'[u] = snap[u] /\ todo'[u] = todo[u]
  BY DEF Step, Goto, IndInv, TypeOK
<1>3. to \in Finalizing \cup {"join"} => migrated
  BY <1>1 DEF IndInv, Flagged
<1>4. group' \cup ports' \subseteq interfaces.members
  BY DEF Step, project, IndInv, Known, ServedByInterfaceGroup
<1>5. UNCHANGED <<instances, clusterized, interfaces, migrated, labelled, exec,
                  snap, todo>>
  BY DEF Step, object, project
<1>6. ListedAt(v)'
  <2>1. ListedAt(v)
    BY DEF IndInv, Listed
  <2> QED BY <1>1, <1>5, <2>1 DEF ListedAt, HasRoom, Finalizing
<1> QED BY <1>1, <1>2, <1>3, <1>4, <1>5, <1>6, SteadyFrame

------------------------------------------------------------------------------
(* The steps of gateways                                                    *)

LEMMA AppendInd ==
    ASSUME IndInv, TypeOK', NEW v \in Gateways, AddGateway(v) \/ AddUnacknowledged(v)
    PROVE  IndInv'
<1> USE DEF AddGateway, AddUnacknowledged, AppendGateway, IndInv
<1>1. /\ Len(instances) \in Nat /\ Len(instances') = Len(instances) + 1
      /\ \A i \in 1 .. Len(instances) : instances'[i] = instances[i]
  <2>1. instances \in Seq(Gateways) /\ instances' = Append(instances, v)
    BY DEF TypeOK
  <2> QED BY <2>1
<1>2. HasRoom /\ UNCHANGED interfaces
  OBVIOUS
<1>3. Grows
  BY <1>2 DEF Grows
<1>4. /\ pc[v] = "request" /\ pc'[v] \in {"protect", "idle"}
      /\ \A u \in Gateways \ {v} :
           pc'[u] = pc[u] /\ snap'[u] = snap[u] /\ todo'[u] = todo[u]
      /\ pc'[v] = "protect" => snap'[v] = instances'
  BY DEF Goto, TypeOK
<1>5. ListedAt(v)'
  BY <1>1, <1>4, Numbers DEF ListedAt, HasRoom, Finalizing
<1>6. /\ UNCHANGED <<labelled, exec, migrated, clusterized, interfaces>>
      /\ group' \cup ports' \subseteq interfaces.members
  BY DEF project, Known, ServedByInterfaceGroup
<1> QED BY <1>3, <1>4, <1>5, <1>6, GatewayFrame DEF Flagged, Finalizing

\* Deletion protection, the migrated flag, and the termination of an extra gateway
LEMMA SmallInd ==
    ASSUME IndInv, TypeOK', NEW v \in Gateways,
           TerminateExtra(v) \/ Protect(v) \/ ProtectJoined(v) \/ SetMigrated(v)
    PROVE  IndInv'
<1> USE DEF TerminateExtra, Protect, ProtectJoined, ProtectedBy, SetMigrated, IndInv
<1>1. /\ pc[v] \notin {"absent", "serving"}
      /\ \A u \in Gateways \ {v} :
           pc'[u] = pc[u] /\ snap'[u] = snap[u] /\ todo'[u] = todo[u]
      /\ <<pc[v], pc'[v]>> \in {<<"extra", "gone">>, <<"protect", "decide">>,
                                <<"joinProtect", "joinGroup">>, <<"decide", "form">>}
  BY DEF Goto, TypeOK
<1>2. /\ UNCHANGED <<instances, clusterized, interfaces, labelled, exec, snap>>
      /\ group' \cup ports' \subseteq interfaces.members
      /\ migrated => migrated'
      /\ pc'[v] = "form" => migrated' /\ Completes(v)
  BY <1>1 DEF project, object, Known, ServedByInterfaceGroup
<1>3. Grows
  BY <1>2, SteadyGrows
<1>4. ListedAt(v)'
  <2>1. ListedAt(v)
    BY DEF Listed
  <2> QED BY <1>1, <1>2, <2>1, Numbers DEF ListedAt, Completes, HasRoom, Finalizing
<1> QED BY <1>1, <1>2, <1>3, <1>4, GatewayFrame DEF Flagged, Finalizing

LEMMA CreateInd ==
    ASSUME IndInv, TypeOK', NEW v \in Gateways, CreateInterfaceGroup(v)
    PROVE  IndInv'
<1> USE DEF CreateInterfaceGroup, SetInterfaces, IndInv
<1>1. /\ pc[v] = "form" /\ pc'[v] = "check"
      /\ interfaces'.members = interfaces.members \cup ToSet(snap[v])
      /\ \A u \in Gateways \ {v} : pc'[u] = pc[u]
      /\ UNCHANGED <<instances, clusterized, migrated, labelled, ports, group, exec,
                     snap, todo>>
  BY DEF Goto, TypeOK, object, project
<1>2. ToSet(instances) \subseteq interfaces'.members /\ ~HasRoom
  BY <1>1 DEF Listed, ListedAt
<1>3. Grows
  BY <1>1 DEF Grows, HasRoom
<1>4. ListedAt(v)'
  BY <1>1, <1>2 DEF ListedAt, HasRoom, Finalizing
<1>5. migrated /\ group \cup ports \subseteq interfaces'.members
  BY <1>1 DEF Flagged, Known, ServedByInterfaceGroup
<1> QED BY <1>1, <1>3, <1>4, <1>5, GatewayFrame

LEMMA InterfacesInd ==
    ASSUME IndInv, TypeOK', NEW v \in Gateways,
           InterfaceGroupIsUp(v) \/ JoinInterfaceGroup(v)
    PROVE  IndInv'
<1> USE DEF InterfaceGroupIsUp, JoinInterfaceGroup, SetInterfaces, IndInv
<1>1. /\ <<pc[v], pc'[v]>> \in {<<"check", "finalize">>, <<"join", "joinProtect">>}
      /\ interfaces.members \subseteq interfaces'.members
      /\ pc'[v] = "joinProtect" => v \in interfaces'.members
      /\ \A u \in Gateways \ {v} : pc'[u] = pc[u]
      /\ UNCHANGED <<instances, clusterized, migrated, labelled, ports, group, exec,
                     snap, todo>>
  <2>1. CASE InterfaceGroupIsUp(v)
    BY <2>1 DEF Goto, TypeOK, object, project
  <2>2. CASE JoinInterfaceGroup(v)
    BY <2>2 DEF Goto, TypeOK, object, project
  <2> QED BY <2>1, <2>2
<1>2. Grows
  BY <1>1 DEF Grows, HasRoom
<1>3. ListedAt(v)'
  <2>1. ListedAt(v)
    BY DEF Listed
  <2> QED BY <1>1, <2>1 DEF ListedAt, HasRoom, Finalizing
<1>4. migrated
  BY <1>1 DEF Flagged
<1>5. group \cup ports \subseteq interfaces'.members /\ (clusterized => migrated)
  BY <1>1 DEF Flagged, Known, ServedByInterfaceGroup
<1> QED BY <1>1, <1>2, <1>3, <1>4, <1>5, GatewayFrame DEF Finalizing

\* In the critical section of the finalization, and entering it
LEMMA CriticalInd ==
    ASSUME IndInv, TypeOK', NEW v \in Gateways,
           LockAndRead(v) \/ LabelPort(v) \/ AddInstancesToGroup(v)
    PROVE  IndInv'
<1> USE DEF LockAndRead, LabelPort, AddInstancesToGroup, IndInv
<1>1. /\ pc[v] \in {"finalize", "label", "regroup"} /\ pc'[v] \in Finalizing
      /\ \A u \in Gateways \ {v} :
           pc'[u] = pc[u] /\ snap'[u] = snap[u] /\ todo'[u] = todo[u]
      /\ UNCHANGED <<instances, clusterized, migrated, interfaces, labelled, exec>>
  BY DEF Goto, TypeOK, object, project, Finalizing
<1>2. ListedAt(v) /\ ~HasRoom
  BY <1>1 DEF Listed, ListedAt, Finalizing
<1>3. ToSet(snap'[v]) \cup todo'[v] \subseteq interfaces.members
  BY <1>1, <1>2 DEF ListedAt, Goto, TypeOK, Finalizing
<1>4. ListedAt(v)'
  BY <1>1, <1>2, <1>3 DEF ListedAt, HasRoom, Finalizing
<1>5. group' \cup ports' \subseteq interfaces.members
  <2>1. pc[v] \in Finalizing => ToSet(snap[v]) \cup todo[v] \subseteq interfaces.members
    BY <1>2 DEF ListedAt
  <2> QED BY <2>1 DEF Known, ServedByInterfaceGroup, project, Finalizing
<1>6. migrated
  BY <1>1 DEF Flagged, Finalizing
<1> QED BY <1>1, <1>4, <1>5, <1>6, SteadyFrame DEF Finalizing

LEMMA CommitInd ==
    ASSUME IndInv, TypeOK', NEW v \in Gateways,
           Commit(v) \/ CommitUnacknowledged(v) \/ CommitUnanswered(v)
    PROVE  IndInv'
<1> USE DEF Commit, CommitUnacknowledged, CommitUnanswered, CommitAnd, Retry,
            WriteClusterized, IndInv
<1>1. /\ pc[v] = "commit" /\ pc'[v] \in {"serving", "idle", "finalize"}
      /\ instances' = <<>> /\ clusterized'
      /\ \A u \in Gateways \ {v} :
           pc'[u] = pc[u] /\ snap'[u] = snap[u] /\ todo'[u] = todo[u]
      /\ UNCHANGED <<migrated, interfaces, labelled, ports, group, exec>>
  <2>1. CASE Commit(v) \/ CommitUnacknowledged(v)
    BY <2>1 DEF Goto, TypeOK, project
  <2>2. CASE CommitUnanswered(v)
    <3>1. pc' \in {[pc EXCEPT ![v] = "finalize"], [pc EXCEPT ![v] = "idle"]}
      BY <2>2 DEF Goto
    <3>2. /\ \A u \in Gateways \ {v} : snap'[u] = snap[u] /\ todo'[u] = todo[u]
          /\ UNCHANGED <<migrated, interfaces, labelled, ports, group, exec>>
      BY <2>2 DEF TypeOK, project
    <3>3. pc[v] = "commit" /\ instances' = <<>> /\ clusterized'
      BY <2>2
    <3> QED BY <3>1, <3>2, <3>3 DEF TypeOK
  <2> QED BY <2>1, <2>2
<1>2. migrated
  BY <1>1 DEF Flagged, Finalizing
<1>3. Grows
  BY <1>1 DEF Grows, HasRoom, ToSet
<1>4. ListedAt(v)'
  BY <1>1 DEF ListedAt, HasRoom, ToSet, Finalizing
<1>5. group \cup ports \subseteq interfaces.members
  BY DEF Known, ServedByInterfaceGroup
<1> QED BY <1>1, <1>2, <1>3, <1>4, <1>5, GatewayFrame

\* A call that ends without an answer, and the last steps of a joining gateway
LEMMA EndInd ==
    ASSUME IndInv, TypeOK', NEW v \in Gateways,
           \/ FinalizationFails(v) \/ ClusterizeUnanswered(v)
           \/ FinalizationUnanswered(v) \/ TimeOut(v)
           \/ AddJoinedToGroup(v) \/ LabelJoined(v)
    PROVE  IndInv'
<1> USE DEF FinalizationFails, ClusterizeUnanswered, FinalizationUnanswered, TimeOut,
            CallAgain, Retry, AddJoinedToGroup, LabelJoined, IndInv
<1>1. /\ pc[v] \in Finalizing \cup {"extra", "protect", "decide", "form",
                                    "joinGroup", "joinLabel"}
      /\ pc'[v] \in {"idle", "request", "finalize", "joinLabel", "serving"}
      /\ pc'[v] = "finalize" => pc[v] \in Finalizing
      /\ pc'[v] = "joinLabel" => pc[v] = "joinGroup"
      /\ \A u \in Gateways \ {v} :
           pc'[u] = pc[u] /\ snap'[u] = snap[u] /\ todo'[u] = todo[u]
  <2> USE DEF Goto, TypeOK, Finalizing
  <2>1. CASE FinalizationFails(v)
    BY <2>1
  <2>2. CASE ClusterizeUnanswered(v)
    BY <2>2
  <2>3. CASE FinalizationUnanswered(v) \/ TimeOut(v)
    BY <2>3
  <2>4. CASE AddJoinedToGroup(v) \/ LabelJoined(v)
    BY <2>4
  <2> QED BY <2>1, <2>2, <2>3, <2>4
<1>2. UNCHANGED <<instances, clusterized, migrated, interfaces, labelled, exec>>
  BY DEF object, project
<1>3. ListedAt(v)
  BY DEF Listed
<1>4. ListedAt(v)'
  BY <1>1, <1>2, <1>3 DEF ListedAt, HasRoom, Finalizing
<1>5. group' \cup ports' \subseteq interfaces.members
  <2>1. pc[v] \in {"joinGroup", "joinLabel"} => v \in interfaces.members
    BY <1>3 DEF ListedAt
  <2> QED BY <2>1 DEF Known, ServedByInterfaceGroup, project
<1>6. pc'[v] = "finalize" => migrated
  BY <1>1 DEF Flagged
<1> QED BY <1>1, <1>2, <1>4, <1>5, <1>6, SteadyFrame DEF Finalizing

LEMMA GatewayInd ==
    ASSUME IndInv, NEW v \in Gateways, GatewayStep(v) \/ GatewayFault(v)
    PROVE  IndInv'
<1>1. TypeOK'
  BY GatewayType DEF IndInv
<1>2. CASE \/ FetchDeployScript(v) \/ FetchJoinScript(v) \/ DeploySucceeds(v)
           \/ RefuseExtra(v) \/ Wait(v) \/ PortsAreLabelled(v) \/ BootFails(v)
           \/ DeployFails(v) \/ AddFails(v) \/ TerminateExtraFails(v)
  BY <1>1, <1>2, StepFrame
     DEF FetchDeployScript, FetchJoinScript, DeploySucceeds, RefuseExtra, Wait,
         PortsAreLabelled, BootFails, DeployFails, AddFails, TerminateExtraFails,
         Finalizing
<1>3. CASE \/ ProtectionFails(v) \/ SetMigratedFails(v) \/ SetupFails(v)
           \/ PortLabelFails(v) \/ JoinedLabelFails(v) \/ JoinFinalizationFails(v)
  BY <1>1, <1>3, StepFrame
     DEF ProtectionFails, SetMigratedFails, SetupFails, PortLabelFails,
         JoinedLabelFails, JoinFinalizationFails, Finalizing
<1> QED BY <1>1, <1>2, <1>3, AppendInd, SmallInd, CreateInd, InterfacesInd,
           CriticalInd, CommitInd, EndInd
     DEF GatewayStep, GatewayFault, CriticalStep

------------------------------------------------------------------------------
(* The steps of executions                                                  *)

\* An execution moves, and may label gateways.
LEMMA ExecFrame ==
    ASSUME IndInv, TypeOK', NEW s \in Scalers, NEW from, NEW to \in ExecType,
           Advance(s, from, to), UNCHANGED <<instances, clusterized, migrated>>,
           labelled \subseteq labelled',
           group' \cup ports' \subseteq interfaces.members,
           to.found \subseteq interfaces.members,
           \A p \in to.todo : p[1] \in interfaces.members,
           Unlabelled # {} /\ Unlabelled' # {} => PendingAt(s)'
    PROVE  IndInv'
<1>1. /\ UNCHANGED <<backendsUp, interfaces, pc, snap, todo>>
      /\ exec'[s] = to
      /\ \A t \in Scalers \ {s} : exec'[t] = exec[t]
  BY DEF Advance, local, IndInv, TypeOK
<1>2. Unlabelled' \subseteq Unlabelled
  BY <1>1 DEF Unlabelled
<1>3. Created'
  BY <1>1 DEF IndInv, Created
<1>4. Pending'
  <2> SUFFICES ASSUME Unlabelled' # {} PROVE Pending'
    BY DEF Pending
  <2>1. Unlabelled # {}
    BY <1>2
  <2>2. \A t \in Scalers \ {s} : PendingAt(t)'
    BY <1>1, <1>2, <2>1 DEF IndInv, Pending, PendingAt
  <2>3. /\ ~migrated' /\ backendsUp' /\ Unlabelled' \subseteq interfaces'.members
        /\ \A v \in Gateways : pc'[v] \in {"absent", "serving"}
    BY <1>1, <1>2, <2>1 DEF IndInv, Pending
  <2> QED BY <2>1, <2>2, <2>3 DEF Pending
<1>5. Flagged'
  BY <1>1 DEF IndInv, Flagged
<1>6. Known'
  BY <1>1 DEF IndInv, Known, KnownTo, ServedByInterfaceGroup
<1>7. Grows
  BY <1>1, SteadyGrows DEF IndInv
<1>8. Listed'
  BY <1>1, <1>7, OthersListed DEF Listed
<1> QED BY <1>3, <1>4, <1>5, <1>6, <1>8 DEF IndInv

\* An execution that gives up, or has nothing left to do
LEMMA OffInd ==
    ASSUME IndInv, TypeOK', NEW s \in Scalers, NEW from, Advance(s, from, Off),
           UNCHANGED <<instances, clusterized, migrated, labelled, group, ports>>
    PROVE  IndInv'
<1>1. exec'[s] = Off
  BY DEF Advance, IndInv, TypeOK
<1>2. PendingAt(s)'
  BY <1>1 DEF PendingAt, Off
<1>3. Off.found = {} /\ Off.todo = {}
  BY DEF Off
<1>4. group \cup ports \subseteq interfaces.members
  BY DEF IndInv, Known, ServedByInterfaceGroup
<1> QED BY <1>2, <1>3, <1>4, OffType, ExecFrame

\* An execution reads, waits for the lock, or regroups.
LEMMA MovesInd ==
    ASSUME IndInv, TypeOK', NEW s \in Scalers,
           \/ StartScaleUp(s) \/ ListGateways(s) \/ ReadNfsState(s)
           \/ InspectInterfaceGroup(s) \/ LockForMigration(s) \/ RegroupMigrated(s)
           \/ LabelMigratedFails(s) \/ LabelsAreSet(s)
    PROVE  IndInv'
<1>1. exec \in [Scalers -> ExecType] /\ exec'[s] \in ExecType
  BY DEF IndInv, TypeOK
<1>2. \E from, to : Advance(s, from, to)
  BY DEF StartScaleUp, ListGateways, ReadNfsState, InspectInterfaceGroup,
         LockForMigration, RegroupMigrated, LabelMigratedFails, LabelsAreSet, ExecOnly
<1>3. \E from : Advance(s, from, exec'[s])
  BY <1>1, <1>2 DEF Advance
<1>4. UNCHANGED <<instances, clusterized, migrated, labelled, interfaces, backendsUp,
                  pc>>
  BY <1>2 DEF StartScaleUp, ListGateways, ReadNfsState, InspectInterfaceGroup,
         LockForMigration, RegroupMigrated, LabelMigratedFails, LabelsAreSet, ExecOnly,
         Advance, object, project, local
<1>5. Unlabelled' = Unlabelled
  BY <1>4 DEF Unlabelled
<1>6. Unlabelled # {} =>
        /\ ~migrated /\ backendsUp /\ PendingAt(s)
        /\ Unlabelled \subseteq interfaces.members
  BY DEF IndInv, Pending
<1>7. KnownTo(s) /\ group \cup ports \subseteq interfaces.members
  BY DEF IndInv, Known, KnownTo, ServedByInterfaceGroup
<1> DEFINE Kept ==
      /\ exec'[s].found \subseteq interfaces.members
      /\ \A p \in exec'[s].todo : p[1] \in interfaces.members
      /\ group' \cup ports' \subseteq interfaces.members
      /\ Unlabelled # {} => PendingAt(s)'
<1> SUFFICES Kept
  BY <1>1, <1>3, <1>4, ExecFrame
<1>8. CASE StartScaleUp(s)
  <2>1. exec'[s] = [Off EXCEPT !.at = "list", !.backendsUp = backendsUp]
    BY <1>1, <1>8 DEF StartScaleUp, ExecOnly, Advance
  <2>2. Kept
    BY <1>6, <1>7, <1>8, <2>1 DEF KnownTo, StartScaleUp, ExecOnly, project, PendingAt, Off
  <2> QED BY <2>2
<1>9. CASE ListGateways(s)
  <2>1. exec[s].at = "list" /\ UNCHANGED project
    BY <1>9 DEF ListGateways, ExecOnly, Advance
  <2>2. /\ exec'[s].at = "read" /\ exec'[s].backendsUp = exec[s].backendsUp
        /\ exec'[s].found = exec[s].found /\ exec'[s].todo = exec[s].todo
    BY <1>1, <1>9 DEF ListGateways, ExecOnly, Advance, ExecType
  <2> QED BY <1>6, <1>7, <2>1, <2>2 DEF KnownTo, PendingAt, project
<1>10. CASE ReadNfsState(s)
  <2>1. exec[s].at = "read" /\ UNCHANGED project
    BY <1>10 DEF ReadNfsState, ExecOnly, Advance
  <2>2. \/ exec'[s] = [exec[s] EXCEPT !.at = "inspect", !.number = 0]
        \/ /\ ~MustMigrate(s)
           /\ exec'[s] = [exec[s] EXCEPT !.at = "create", !.number = Missing(s)]
        \/ ~MustMigrate(s) /\ exec'[s] = Off
    <3>1. exec'[s] = CASE MustMigrate(s) ->
                            [exec[s] EXCEPT !.at = "inspect", !.number = 0]
                       [] ~MustMigrate(s) /\ Missing(s) > 0 ->
                            [exec[s] EXCEPT !.at = "create", !.number = Missing(s)]
                       [] OTHER -> Off
      BY <1>1, <1>10 DEF ReadNfsState, ExecOnly, Advance
    <3> QED BY <3>1
  <2>3. Unlabelled # {} => MustMigrate(s)
    BY <1>6, <2>1 DEF PendingAt, MustMigrate
  <2>4. /\ exec'[s].found \in {exec[s].found, {}} /\ exec'[s].todo \in {exec[s].todo, {}}
        /\ MustMigrate(s) => exec'[s].at = "inspect"
    <3>1. exec[s] \in ExecType
      BY <1>1
    <3>2. CASE exec'[s] = [exec[s] EXCEPT !.at = "inspect", !.number = 0]
      BY <3>1, <3>2 DEF ExecType
    <3>3. CASE exec'[s] = [exec[s] EXCEPT !.at = "create", !.number = Missing(s)]
      BY <2>2, <3>1, <3>3 DEF ExecType, Off
    <3>4. CASE exec'[s] = Off /\ ~MustMigrate(s)
      BY <3>4 DEF Off
    <3> QED BY <2>2, <3>2, <3>3, <3>4
  <2> QED BY <1>6, <1>7, <2>1, <2>3, <2>4 DEF KnownTo, PendingAt, project
<1>11. CASE InspectInterfaceGroup(s)
  <2>1. UNCHANGED project
    BY <1>11 DEF InspectInterfaceGroup, ExecOnly
  <2>2. /\ exec'[s].at = "lock" /\ exec'[s].todo = exec[s].todo
        /\ exec'[s].found = interfaces.members /\ exec'[s].ok = interfaces.ok
    BY <1>1, <1>11 DEF InspectInterfaceGroup, ExecOnly, Advance, ExecType
  <2> QED BY <1>5, <1>6, <1>7, <2>1, <2>2 DEF KnownTo, PendingAt, project
<1>12. CASE LockForMigration(s)
  <2>1. exec[s].at = "lock" /\ UNCHANGED project
    BY <1>12 DEF LockForMigration, Advance
  <2>2. /\ exec'[s].at = IF exec[s].found = {} THEN "write" ELSE "regroup"
        /\ exec'[s].found = exec[s].found /\ exec'[s].todo = exec[s].todo
    BY <1>1, <1>12 DEF LockForMigration, Advance, ExecType
  <2> QED BY <1>5, <1>6, <1>7, <2>1, <2>2 DEF KnownTo, PendingAt, project
<1>13. CASE RegroupMigrated(s)
  <2>1. exec[s].at = "regroup" /\ group' \subseteq group \cup exec[s].found /\ ports' = ports
    BY <1>13 DEF RegroupMigrated, Advance
  <2>3. /\ \A p \in PortsIn(exec[s].found) : p[1] \in exec[s].found
        /\ \A v \in exec[s].found : \E p \in PortsIn(exec[s].found) : p[1] = v
    <3>1. exec[s].found \in SUBSET Gateways
      BY <1>1 DEF ExecType
    <3>2. \A v \in exec[s].found : <<v, 1>> \in PortsIn(exec[s].found) /\ <<v, 1>>[1] = v
      BY <3>1, PortFacts
    <3> QED BY <3>1, <3>2, PortFacts
  <2>2. /\ exec'[s].at = "label" /\ exec'[s].todo = PortsIn(exec[s].found)
        /\ exec'[s].found = exec[s].found
    BY <1>1, <1>13 DEF RegroupMigrated, Advance, ExecType
  <2> QED BY <1>5, <1>6, <1>7, <2>1, <2>2, <2>3 DEF KnownTo, PendingAt
<1>14. CASE LabelMigratedFails(s)
  <2>1. UNCHANGED project
    BY <1>14 DEF LabelMigratedFails, ExecOnly
  <2>2. /\ exec'[s].at = "label" /\ exec'[s].failed /\ exec'[s].todo \subseteq exec[s].todo
        /\ exec'[s].found = exec[s].found
    <3>1. PICK p \in exec[s].todo :
            ExecOnly(s, "label", [exec[s] EXCEPT !.todo = exec[s].todo \ {p},
                                                 !.failed = TRUE])
      BY <1>14 DEF LabelMigratedFails
    <3>2. /\ exec[s].at = "label"
          /\ exec'[s] = [exec[s] EXCEPT !.todo = exec[s].todo \ {p}, !.failed = TRUE]
      BY <1>1, <3>1 DEF ExecOnly, Advance
    <3> QED BY <1>1, <3>2 DEF ExecType
  <2> QED BY <1>6, <1>7, <2>1, <2>2 DEF KnownTo, PendingAt, project
<1>15. CASE LabelsAreSet(s)
  <2>1. /\ exec[s].at = "label" /\ exec[s].todo = {} /\ ~exec[s].failed
        /\ UNCHANGED project
    BY <1>15 DEF LabelsAreSet, ExecOnly, Advance
  <2>2. exec'[s] = [exec[s] EXCEPT !.at = "write"]
    BY <1>1, <1>15 DEF LabelsAreSet, ExecOnly, Advance
  <2>3. Unlabelled = {}
    BY <1>6, <2>1 DEF PendingAt
  <2> QED BY <1>1, <1>7, <2>1, <2>2, <2>3 DEF KnownTo, PendingAt, ExecType, project
<1> QED BY <1>8, <1>9, <1>10, <1>11, <1>12, <1>13, <1>14, <1>15

\* One label less is missing.
LEMMA LabelInd ==
    ASSUME IndInv, TypeOK', NEW s \in Scalers, LabelMigrated(s)
    PROVE  IndInv'
<1>1. PICK p \in exec[s].todo :
        /\ Advance(s, "label", [exec[s] EXCEPT !.todo = exec[s].todo \ {p}])
        /\ labelled' = labelled \cup {p[1]}
        /\ ports' = ports \cup {p[1]}
        /\ UNCHANGED <<object, group, protected>>
  BY DEF LabelMigrated
<1> DEFINE to == [exec[s] EXCEPT !.todo = exec[s].todo \ {p}]
<1>2. exec[s] \in ExecType /\ exec'[s] = to /\ exec[s].at = "label"
  BY <1>1 DEF Advance, IndInv, TypeOK
<1>3. /\ to.at = "label" /\ to.todo = exec[s].todo \ {p} /\ to.failed = exec[s].failed
      /\ to.found = exec[s].found /\ to \in ExecType
  BY <1>2 DEF ExecType
<1>4. /\ exec[s].found \subseteq interfaces.members
      /\ \A q \in exec[s].todo : q[1] \in interfaces.members
      /\ group \cup ports \subseteq interfaces.members
  BY DEF IndInv, Known, KnownTo, ServedByInterfaceGroup
<1>5. Unlabelled' \subseteq Unlabelled \ {p[1]}
  BY <1>1 DEF Unlabelled, Advance, local
<1>6. Unlabelled # {} => PendingAt(s)
  BY DEF IndInv, Pending
<1>7. Unlabelled # {} => PendingAt(s)'
  BY <1>2, <1>3, <1>5, <1>6 DEF PendingAt
<1>8. UNCHANGED <<instances, clusterized, migrated, group>>
  BY <1>1 DEF object
<1> HIDE DEF to
<1>9. Advance(s, "label", to)
  BY <1>1 DEF to
<1> QED BY <1>1, <1>3, <1>4, <1>7, <1>8, <1>9, ExecFrame

\* The migration is written: none of the gateways is without its label.
LEMMA WriteInd ==
    ASSUME IndInv, TypeOK', NEW s \in Scalers, NEW then, WriteMigrated(s, then),
           then \in {Off, [Off EXCEPT !.at = "protect", !.todo = PortsIn(exec[s].found)]}
    PROVE  IndInv'
<1>1. /\ exec[s].at = "write" /\ exec'[s] = then
      /\ \A t \in Scalers \ {s} : exec'[t] = exec[t]
      /\ UNCHANGED <<backendsUp, interfaces, pc, snap, todo, labelled, ports, group>>
      /\ migrated' /\ clusterized' = (clusterized \/ exec[s].ok)
  BY DEF WriteMigrated, Advance, local, project, IndInv, TypeOK
<1>2. exec[s].found \in SUBSET Gateways /\ instances \in Seq(Gateways)
  BY DEF IndInv, TypeOK, ExecType
<1>3. then.found = {} /\ \A p \in then.todo : p[1] \in exec[s].found
  <2>1. CASE then = Off
    BY <2>1 DEF Off
  <2>2. CASE then = [Off EXCEPT !.at = "protect", !.todo = PortsIn(exec[s].found)]
    <3>1. then.found = Off.found /\ then.todo = PortsIn(exec[s].found)
      BY <2>2, OffType DEF ExecType
    <3> QED BY <1>2, <3>1, PortFacts DEF Off
  <2> QED BY <2>1, <2>2
<1>4. exec[s].found \subseteq interfaces.members
  BY DEF IndInv, Known, KnownTo
<1>5. PICK order \in SetToSeqs(PortsIn(exec[s].found)) :
        instances' = IF exec[s].ok THEN instances ELSE instances \o Entries(order)
  BY DEF WriteMigrated
<1>6. Entries(order) \in Seq(Gateways) /\ ToSet(Entries(order)) \subseteq exec[s].found
  BY <1>2, EntriesFacts
<1>7. /\ Len(instances) \in Nat /\ Len(Entries(order)) \in Nat
      /\ Len(instances \o Entries(order)) = Len(instances) + Len(Entries(order))
      /\ ToSet(instances \o Entries(order)) \subseteq
           ToSet(instances) \cup ToSet(Entries(order))
  BY <1>2, <1>6 DEF ToSet
<1>8. /\ Len(instances) <= Len(instances') /\ Len(instances') \in Nat
      /\ ToSet(instances') \subseteq ToSet(instances) \cup exec[s].found
  BY <1>5, <1>6, <1>7
<1>9. Grows
  <2>1. ~HasRoom => ~HasRoom'
    BY <1>1, <1>7, <1>8, Numbers DEF HasRoom, IndInv, TypeOK
  <2> QED BY <1>1, <1>4, <1>8, <2>1 DEF Grows
<1>10. Unlabelled = {}
  BY <1>1 DEF IndInv, Pending, PendingAt
<1>11. Unlabelled' = {}
  BY <1>1, <1>10 DEF Unlabelled
<1>12. Created' /\ Pending' /\ Flagged'
  BY <1>1, <1>11 DEF IndInv, Created, Pending, Flagged
<1>13. KnownTo(s)'
  BY <1>1, <1>3, <1>4 DEF KnownTo
<1>14. Known'
  <2>1. \A t \in Scalers \ {s} : KnownTo(t)'
    BY <1>1 DEF IndInv, Known, KnownTo
  <2> QED BY <1>1, <1>13, <2>1 DEF IndInv, Known, ServedByInterfaceGroup
<1>15. Listed'
  BY <1>1, <1>9, OthersListed DEF Listed
<1> QED BY <1>12, <1>14, <1>15 DEF IndInv

LEMMA ProtectMigratedInd ==
    ASSUME IndInv, TypeOK', NEW s \in Scalers, ProtectMigrated(s)
    PROVE  IndInv'
<1>1. UNCHANGED <<instances, clusterized, migrated, labelled, group, ports>>
  BY DEF ProtectMigrated, object
<1>2. PICK p \in exec[s].todo :
        Advance(s, "protect", IF exec[s].todo = {p} THEN Off
                              ELSE [exec[s] EXCEPT !.todo = exec[s].todo \ {p}])
  BY DEF ProtectMigrated
<1> DEFINE to == [exec[s] EXCEPT !.todo = exec[s].todo \ {p}]
<1>3. CASE exec[s].todo = {p}
  BY <1>1, <1>2, <1>3, OffInd
<1>4. CASE exec[s].todo # {p}
  <2>1. Advance(s, "protect", to)
    BY <1>2, <1>4
  <2>2. exec[s] \in ExecType /\ exec'[s] = to /\ exec[s].at = "protect"
    BY <2>1 DEF Advance, IndInv, TypeOK
  <2>3. /\ to.at = "protect" /\ to.todo \subseteq exec[s].todo
        /\ to.found = exec[s].found /\ to \in ExecType
    BY <2>2 DEF ExecType
  <2>4. PendingAt(s)'
    BY <2>2, <2>3 DEF PendingAt
  <2>5. /\ exec[s].found \subseteq interfaces.members
        /\ \A q \in exec[s].todo : q[1] \in interfaces.members
        /\ group \cup ports \subseteq interfaces.members
    BY DEF IndInv, Known, KnownTo, ServedByInterfaceGroup
  <2> HIDE DEF to
  <2> QED BY <1>1, <2>1, <2>3, <2>4, <2>5, ExecFrame
<1> QED BY <1>3, <1>4

\* A gateway is created when none is left to be labelled.
LEMMA CreateGatewayInd ==
    ASSUME IndInv, TypeOK', NEW s \in Scalers, CreateGateway(s)
    PROVE  IndInv'
<1>1. PICK v \in Gateways :
        pc[v] = "absent" /\ Goto(v, "boot") /\ labelled' = labelled \cup {v}
  BY DEF CreateGateway
<1>2. /\ exec[s].at = "create"
      /\ \A t \in Scalers \ {s} : exec'[t] = exec[t]
      /\ UNCHANGED <<instances, clusterized, migrated, interfaces, ports, group, snap,
                     todo>>
  BY DEF CreateGateway, object, IndInv, TypeOK
<1>3. pc'[v] = "boot" /\ \A u \in Gateways \ {v} : pc'[u] = pc[u]
  BY <1>1 DEF Goto, IndInv, TypeOK
<1>4. Unlabelled = {}
  BY <1>2 DEF IndInv, Pending, PendingAt
<1>5. Unlabelled' = {}
  BY <1>1, <1>3, <1>4 DEF Unlabelled
<1>6. Created' /\ Pending'
  BY <1>1, <1>3, <1>5 DEF IndInv, Created, Pending
<1>7. Flagged'
  BY <1>2, <1>3 DEF IndInv, Flagged, Finalizing
<1>8. KnownTo(s)'
  <2>1. exec[s] \in ExecType /\ KnownTo(s)
    BY DEF IndInv, TypeOK, Known
  <2>2. exec'[s] = IF exec[s].number > 1
                     THEN [exec[s] EXCEPT !.number = exec[s].number - 1] ELSE Off
    BY DEF CreateGateway, IndInv, TypeOK
  <2>3. \/ exec'[s].found = exec[s].found /\ exec'[s].todo = exec[s].todo
        \/ exec'[s] = Off
    BY <2>1, <2>2 DEF ExecType
  <2> QED BY <1>2, <2>1, <2>3 DEF KnownTo, Off
<1>9. Known'
  BY <1>2, <1>8 DEF IndInv, Known, KnownTo, ServedByInterfaceGroup
<1>10. Listed'
  <2>1. Grows
    BY <1>2, SteadyGrows DEF IndInv
  <2>2. \A u \in Gateways \ {v} : ListedAt(u)'
    BY <1>2, <1>3, <2>1, OthersListed
  <2>3. ListedAt(v)'
    BY <1>3 DEF ListedAt, Finalizing
  <2> QED BY <2>2, <2>3 DEF Listed
<1> QED BY <1>6, <1>7, <1>9, <1>10 DEF IndInv

LEMMA ScalerInd ==
    ASSUME IndInv, NEW s \in Scalers, ScaleStep(s) \/ ScaleFault(s)
    PROVE  IndInv'
<1>1. TypeOK'
  BY ScalerType DEF IndInv
<1>2. CASE CommitMigration(s) \/ MigrationUnacknowledged(s)
  BY <1>1, <1>2, WriteInd DEF CommitMigration, MigrationUnacknowledged
<1>3. CASE ScaleUpFails(s) \/ MigrationFails(s) \/ MigrationDies(s)
  BY <1>1, <1>3, OffInd
     DEF ScaleUpFails, MigrationFails, MigrationDies, ExecOnly, object, project
<1> QED BY <1>1, <1>2, <1>3, MovesInd, LabelInd, ProtectMigratedInd, CreateGatewayInd
     DEF ScaleStep, ScaleFault, MigrationStep

\* Gateways that are there and do not serve move, and leave executions alone.
LEMMA GatewayGoes ==
    ASSUME IndInv, NEW v \in Gateways, GatewayStep(v) \/ GatewayFault(v)
    PROVE  /\ pc[v] \notin {"absent", "serving", "gone"}
           /\ \A u \in Gateways \ {v} : pc'[u] = pc[u]
           /\ UNCHANGED <<exec, desired, labelled>>
<1>1. TypeOK
  BY DEF IndInv
<1>2. CASE GatewayStep(v)
  BY <1>1, <1>2
     DEF TypeOK, GatewayStep, CriticalStep, FetchDeployScript, FetchJoinScript,
         DeploySucceeds, AddGateway, AppendGateway, RefuseExtra, TerminateExtra,
         Protect, ProtectedBy, Wait, SetMigrated, CreateInterfaceGroup,
         InterfaceGroupIsUp, SetInterfaces, LockAndRead, LabelPort,
         PortsAreLabelled, AddInstancesToGroup, Commit, WriteClusterized,
         CommitAnd, JoinInterfaceGroup, ProtectJoined, AddJoinedToGroup,
         LabelJoined, Step, Goto, project
<1>3. CASE GatewayFault(v)
  BY <1>1, <1>3
     DEF TypeOK, GatewayFault, BootFails, DeployFails, AddUnacknowledged,
         AppendGateway, AddFails, TerminateExtraFails, ProtectionFails,
         SetMigratedFails, SetupFails, PortLabelFails, CommitUnacknowledged,
         WriteClusterized, FinalizationFails, JoinedLabelFails,
         JoinFinalizationFails, ClusterizeUnanswered, FinalizationUnanswered,
         CommitUnanswered, CommitAnd, Retry, TimeOut, CallAgain, Finalizing, Step,
         Goto, project
<1> QED BY <1>2, <1>3

\* Only what ReadNfsState reads leads to a migration.
LEMMA ReadsToMigrate ==
    ASSUME IndInv, [Next]_vars, NEW s \in Scalers, exec[s].at = "read",
           exec'[s].at = "inspect"
    PROVE  MustMigrate(s)
<1>1. exec \in [Scalers -> ExecType] /\ Off.at = "off"
  BY DEF IndInv, TypeOK, Off
<1>2. exec'[s] # exec[s]
  OBVIOUS
<1>3. CASE \E v \in Gateways : GatewayStep(v) \/ GatewayFault(v)
  BY <1>2, <1>3, GatewayGoes
<1>4. CASE \/ BackendsComeUp \/ DeleteStaleLock \/ UNCHANGED vars
           \/ \E size \in Sizes : Resize(size)
  BY <1>2, <1>4 DEF BackendsComeUp, DeleteStaleLock, Resize, vars
<1>5. ASSUME NEW t \in Scalers, ScaleStep(t) \/ ScaleFault(t)
      PROVE  \E to : exec' = [exec EXCEPT ![t] = to]
  BY <1>5
     DEF ScaleStep, ScaleFault, MigrationStep, StartScaleUp, ListGateways,
         ReadNfsState, CreateGateway, InspectInterfaceGroup, LockForMigration,
         RegroupMigrated, LabelMigrated, LabelsAreSet, CommitMigration,
         MigrationUnacknowledged, WriteMigrated, ProtectMigrated, ScaleUpFails,
         LabelMigratedFails, MigrationFails, MigrationDies, ExecOnly, Advance
<1>6. CASE \E t \in Scalers : ScaleStep(t) \/ ScaleFault(t)
  <2>1. ScaleStep(s) \/ ScaleFault(s)
    BY <1>1, <1>2, <1>5, <1>6
  <2>2. ReadNfsState(s) \/ ScaleUpFails(s)
    BY <2>1
       DEF ScaleStep, ScaleFault, MigrationStep, StartScaleUp, ListGateways,
           CreateGateway, InspectInterfaceGroup, LockForMigration, RegroupMigrated,
           LabelMigrated, LabelsAreSet, CommitMigration, MigrationUnacknowledged,
           WriteMigrated, ProtectMigrated, LabelMigratedFails, MigrationFails,
           MigrationDies, ExecOnly, Advance, Migrating
  <2>3. ~ScaleUpFails(s)
    BY <1>1 DEF ScaleUpFails, ExecOnly, Advance
  <2>4. exec'[s] = CASE MustMigrate(s) ->
                          [exec[s] EXCEPT !.at = "inspect", !.number = 0]
                     [] ~MustMigrate(s) /\ Missing(s) > 0 ->
                          [exec[s] EXCEPT !.at = "create", !.number = Missing(s)]
                     [] OTHER -> Off
    BY <1>1, <2>2, <2>3 DEF ReadNfsState, ExecOnly, Advance
  <2>5. [exec[s] EXCEPT !.at = "create", !.number = Missing(s)].at = "create"
    BY <1>1 DEF ExecType
  <2> QED BY <1>1, <2>4, <2>5
<1> QED BY <1>3, <1>4, <1>6 DEF Next

------------------------------------------------------------------------------
(* Theorems                                                                 *)

LEMMA NextIndInv == IndInv /\ [Next]_vars => IndInv'
<1> SUFFICES ASSUME IndInv, [Next]_vars PROVE IndInv'
  OBVIOUS
<1>1. TypeOK'
  BY TypeNext DEF IndInv
<1>2. ASSUME UNCHANGED <<instances, clusterized, migrated, interfaces, labelled, ports,
                         group, pc, snap, todo, exec>>,
             backendsUp => backendsUp'
      PROVE  IndInv'
  <2>1. Unlabelled' = Unlabelled
    BY <1>2 DEF Unlabelled
  <2>2. Created' /\ Flagged'
    BY <1>2 DEF IndInv, Created, Flagged
  <2>3. Pending'
    BY <1>2, <2>1 DEF IndInv, Pending, PendingAt
  <2>4. Known'
    BY <1>2 DEF IndInv, Known, KnownTo, ServedByInterfaceGroup
  <2>5. Listed'
    BY <1>1, <1>2, SteadyGrows, OthersListed DEF IndInv, Listed
  <2> QED BY <1>1, <2>2, <2>3, <2>4, <2>5 DEF IndInv
<1>3. CASE \/ BackendsComeUp \/ DeleteStaleLock \/ UNCHANGED vars
           \/ \E size \in Sizes : Resize(size)
  BY <1>2, <1>3
     DEF BackendsComeUp, DeleteStaleLock, Resize, vars, object, project, local
<1> QED BY <1>3, GatewayInd, ScalerInd DEF Next

LEMMA Invariance == Spec => []IndInv
BY InitIndInv, NextIndInv, PTL DEF Spec

\* What the instance group and the port label lead to is in the interface group.
THEOREM ServedCorrect == Spec => []ServedByInterfaceGroup
<1>1. IndInv => ServedByInterfaceGroup
  BY DEF IndInv, Known
<1> QED BY <1>1, Invariance, PTL

\* After the migration, scale_up counts every gateway that serves, also when
\* executions overlap.
THEOREM CountedCorrect == Spec => []MigratedIsCounted
<1>1. IndInv => MigratedIsCounted
  BY DEF IndInv, Pending, Unlabelled, MigratedIsCounted
<1> QED BY <1>1, Invariance, PTL

\* Before nfs_state says that gateways are migrated, the interface group has none
\* but those of an older deployment.
THEOREM MigratesExisting == Spec => MigratesExistingOnly
<1>1. ASSUME IndInv, [Next]_vars, NEW s \in Scalers, exec[s].at = "read",
             exec'[s].at = "inspect"
      PROVE  interfaces.members \subseteq Existing
  <2>1. MustMigrate(s)
    BY <1>1, ReadsToMigrate
  <2> QED BY <1>1, <2>1 DEF MustMigrate, IndInv, Flagged
<1>2. IndInv /\ [Next]_vars =>
        [\A s \in Scalers : exec[s].at = "read" /\ exec'[s].at = "inspect"
           => interfaces.members \subseteq Existing]_vars
  BY <1>1
<1> QED BY <1>2, Invariance, PTL DEF Spec, MigratesExistingOnly

------------------------------------------------------------------------------
(* How many gateways are created                                            *)

Present == {v \in Gateways : Exists(v)}

\* How many of the gateways that exist are charged to s
Share(f, s) == Cardinality(Row(Present, f, s))

\* No execution is charged more than d, with those it is about to create, but one
\* that may be charged m; none is charged more than it has seen.
ShareAt(f, one, m, d, s) ==
    /\ Share(f, s) <= IF s = one THEN m ELSE d
    /\ exec[s].at = "read" => Share(f, s) <= exec[s].number
    /\ exec[s].at = "create" => /\ exec[s].number > 0
                                /\ Share(f, s) + exec[s].number <= d

Shares(f, one, m, d) == \A s \in Scalers : ShareAt(f, one, m, d, s)

\* While gateways are without a label there are no others than the existing ones.
\* The one execution is that which sets the last of their labels; it may be
\* charged them all, even if they are more than d.
Shared(m, d) ==
    IF Unlabelled # {} THEN Present \subseteq Existing
    ELSE \E f \in [Gateways -> Scalers], one \in Scalers : Shares(f, one, m, d)

\* What m and d have to be
Bounds(m, d) == d \in Nat /\ m \in Nat /\ d <= m /\ Cardinality(Existing) <= m

LEMMA RowFacts ==
    ASSUME NEW S \in SUBSET Gateways, NEW f, NEW s
    PROVE  /\ IsFiniteSet(Row(S, f, s)) /\ Cardinality(Row(S, f, s)) \in Nat
           /\ \A R \in SUBSET S :
                /\ Cardinality(Row(R, f, s)) \in Nat
                /\ Cardinality(Row(R, f, s)) <= Cardinality(Row(S, f, s))
<1>1. \A R \in SUBSET Gateways : /\ IsFiniteSet(Row(R, f, s))
                                 /\ Cardinality(Row(R, f, s)) \in Nat
  BY NameAssumption, FS_Subset, FS_CardinalityType DEF Row
<1>2. \A R \in SUBSET S : Row(R, f, s) \in SUBSET Row(S, f, s)
  BY DEF Row
<1> QED BY <1>1, <1>2, FS_Subset

LEMMA PresentFacts ==
    /\ Present \in SUBSET Gateways /\ Present' \in SUBSET Gateways
    /\ IsFiniteSet(Present) /\ Cardinality(Present) \in Nat
<1>1. Present \in SUBSET Gateways /\ Present' \in SUBSET Gateways
  BY DEF Present
<1> QED BY <1>1, NameAssumption, FS_Subset, FS_CardinalityType

LEMMA ShareType ==
    ASSUME NEW f, NEW s
    PROVE  Share(f, s) \in Nat /\ Share(f, s)' \in Nat
BY PresentFacts, RowFacts DEF Share

LEMMA ShareShrinks ==
    ASSUME NEW f, NEW s, Present' \subseteq Present
    PROVE  Share(f, s)' <= Share(f, s)
<1>1. Present' \in SUBSET Present
  OBVIOUS
<1> QED BY <1>1, PresentFacts, RowFacts DEF Share

LEMMA NumberType ==
    TypeOK => \A s \in Scalers : exec[s].number \in Nat
BY MissingType

\* An execution that stays, or that no longer counts nor creates
LEMMA ShareFrame ==
    ASSUME NEW f, NEW one, NEW m, NEW d, Bounds(m, d), TypeOK, TypeOK',
           NEW s \in Scalers, ShareAt(f, one, m, d, s), Present' \subseteq Present,
           exec'[s] = exec[s] \/ exec'[s].at \notin {"read", "create"}
    PROVE  ShareAt(f, one, m, d, s)'
<1>1. Share(f, s) \in Nat /\ Share(f, s)' \in Nat /\ Share(f, s)' <= Share(f, s)
  BY ShareType, ShareShrinks
<1>2. exec[s].number \in Nat
  BY NumberType
<1> QED BY <1>1, <1>2 DEF ShareAt, Bounds

\* The number of all that are charged
LEMMA SharedCount ==
    ASSUME NEW m, NEW d, Bounds(m, d), Shared(m, d)
    PROVE  Cardinality(Present) <= m + (Cardinality(Scalers) - 1) * d
<1>1. Cardinality(Scalers) \in Nat \ {0}
  BY ScalersAssumption, FS_CardinalityType, FS_EmptySet
<1>2. CASE Unlabelled # {}
  <2>1. Present \in SUBSET Existing
    BY <1>2 DEF Shared
  <2>2. IsFiniteSet(Existing) /\ Cardinality(Existing) \in Nat
    BY NameAssumption, FS_Subset, FS_CardinalityType
  <2>3. Cardinality(Present) <= Cardinality(Existing)
    BY <2>1, <2>2, FS_Subset
  <2>4. (Cardinality(Scalers) - 1) * d >= 0
    BY <1>1 DEF Bounds
  <2>5. (Cardinality(Scalers) - 1) * d \in Nat
    BY <1>1, <2>4 DEF Bounds
  <2> DEFINE others == (Cardinality(Scalers) - 1) * d
  <2> HIDE DEF others
  <2>6. others \in Nat
    BY <2>5 DEF others
  <2>7. Cardinality(Present) <= m + others
    BY <2>2, <2>3, <2>6, PresentFacts DEF Bounds
  <2> QED BY <2>7 DEF others
<1>3. CASE Unlabelled = {}
  <2>1. PICK f \in [Gateways -> Scalers], one \in Scalers : Shares(f, one, m, d)
    BY <1>3 DEF Shared
  <2> DEFINE g == [v \in Present |-> f[v]]
  <2>2. g \in [Present -> Scalers]
    BY PresentFacts
  <2>3. \A s \in Scalers : Row(Present, g, s) = Row(Present, f, s)
    BY DEF Row
  <2> HIDE DEF g
  <2>4. /\ Cardinality(Row(Present, g, one)) <= m
        /\ \A s \in Scalers \ {one} : Cardinality(Row(Present, g, s)) <= d
    BY <2>1, <2>3 DEF Shares, ShareAt, Share
  <2> QED BY <2>2, <2>4, PresentFacts, ScalersAssumption, RowsCountButOne DEF Bounds
<1> QED BY <1>2, <1>3

\* When they all have their labels, scale_up counts all that exist.
LEMMA CountsAll ==
    ASSUME IndInv, Unlabelled = {}
    PROVE  Counted = Present
<1>1. labelled \subseteq Gateways
  BY DEF IndInv, TypeOK
<1>2. \A v \in Gateways : Exists(v) => v \in labelled
  BY DEF IndInv, Created, Unlabelled, Exists
<1> QED BY <1>1, <1>2 DEF Counted, Present

\* Gateways may go, and executions do other things than counting and creating.
LEMMA SharedFrame ==
    ASSUME NEW m, NEW d, Bounds(m, d), TypeOK, TypeOK', Shared(m, d),
           Unlabelled' = Unlabelled, Present' \subseteq Present,
           \A s \in Scalers : \/ exec'[s] = exec[s]
                              \/ exec'[s].at \notin {"read", "create"}
    PROVE  Shared(m, d)'
BY ShareFrame DEF Shared, Shares

LEMMA GatewayShared ==
    ASSUME NEW m, NEW d, Bounds(m, d), IndInv, IndInv', Shared(m, d),
           NEW v \in Gateways, GatewayStep(v) \/ GatewayFault(v)
    PROVE  Shared(m, d)'
<1>1. /\ pc[v] \notin {"absent", "serving", "gone"}
      /\ \A u \in Gateways \ {v} : pc'[u] = pc[u]
      /\ UNCHANGED <<exec, labelled>>
  BY GatewayGoes
<1>2. Present' \subseteq Present
  BY <1>1 DEF Present, Exists
<1>3. v \in labelled
  BY <1>1 DEF IndInv, Created
<1>4. Unlabelled' = Unlabelled
  BY <1>1, <1>3 DEF Unlabelled
<1> QED BY <1>1, <1>2, <1>4, SharedFrame DEF IndInv

LEMMA ThenFacts ==
    ASSUME NEW S \in SUBSET PortsIn(Gateways)
    PROVE  /\ Off.at = "off"
           /\ [Off EXCEPT !.at = "protect", !.todo = S].at = "protect"
<1>1. Off.at = "off"
  BY DEF Off
<1> QED BY <1>1, OffType DEF ExecType

\* The steps of an execution that neither count nor create
LEMMA OtherShared ==
    ASSUME NEW m, NEW d, Bounds(m, d), IndInv, IndInv', Shared(m, d),
           NEW s \in Scalers,
           \/ StartScaleUp(s) \/ InspectInterfaceGroup(s) \/ LockForMigration(s)
           \/ RegroupMigrated(s) \/ LabelsAreSet(s) \/ CommitMigration(s)
           \/ ProtectMigrated(s) \/ ScaleFault(s)
    PROVE  Shared(m, d)'
<1> USE DEF ExecOnly, Advance, local, project, Off, ExecType, Migrating
<1>1. /\ UNCHANGED <<pc, labelled>>
      /\ \A t \in Scalers \ {s} : exec'[t] = exec[t]
  BY DEF StartScaleUp, InspectInterfaceGroup, LockForMigration, RegroupMigrated,
         LabelsAreSet, CommitMigration, WriteMigrated, ProtectMigrated, ScaleFault,
         ScaleUpFails, LabelMigratedFails, MigrationUnacknowledged, MigrationFails,
         MigrationDies, IndInv, TypeOK
<1>2. exec \in [Scalers -> ExecType]
  BY DEF IndInv, TypeOK
<1>3. exec'[s].at \notin {"read", "create"}
  <2>1. CASE StartScaleUp(s) \/ InspectInterfaceGroup(s) \/ LockForMigration(s)
    BY <1>2, <2>1 DEF StartScaleUp, InspectInterfaceGroup, LockForMigration
  <2>2. CASE RegroupMigrated(s) \/ LabelsAreSet(s)
    BY <1>2, <2>2 DEF RegroupMigrated, LabelsAreSet
  <2>3. CASE CommitMigration(s) \/ MigrationUnacknowledged(s)
    <3>1. PICK then \in {Off, [Off EXCEPT !.at = "protect", !.todo = PortsIn(exec[s].found)]} :
            WriteMigrated(s, then)
      BY <2>3 DEF CommitMigration, MigrationUnacknowledged
    <3>2. exec'[s] = then
      BY <1>2, <3>1 DEF WriteMigrated
    <3>3. then.at \in {"off", "protect"}
      BY <3>1, ThenFacts
    <3> QED BY <3>2, <3>3
  <2>4. CASE ProtectMigrated(s)
    BY <1>2, <2>4 DEF ProtectMigrated
  <2>5. CASE ScaleUpFails(s) \/ MigrationFails(s) \/ MigrationDies(s)
    BY <1>2, <2>5 DEF ScaleUpFails, MigrationFails, MigrationDies
  <2>6. CASE LabelMigratedFails(s)
    BY <1>2, <2>6 DEF LabelMigratedFails
  <2> QED BY <2>1, <2>2, <2>3, <2>4, <2>5, <2>6 DEF ScaleFault
<1>4. Present' = Present /\ Unlabelled' = Unlabelled
  BY <1>1 DEF Present, Exists, Unlabelled
<1> QED BY <1>1, <1>3, <1>4, SharedFrame DEF IndInv

\* s takes all upon itself.
LEMMA TakeAll ==
    ASSUME NEW m, NEW d, Bounds(m, d), TypeOK, TypeOK', NEW s \in Scalers,
           UNCHANGED pc, \A t \in Scalers \ {s} : exec'[t] = exec[t],
           Cardinality(Present) <= m,
           exec'[s].at # "create",
           exec'[s].at = "read" => exec'[s].number = Cardinality(Present),
           \A t \in Scalers \ {s} : exec[t].at = "create" =>
             0 < exec[t].number /\ exec[t].number <= d
    PROVE  \E f \in [Gateways -> Scalers], one \in Scalers : Shares(f, one, m, d)'
<1> DEFINE f == [v \in Gateways |-> s]
<1>1. Present' = Present
  BY DEF Present, Exists
<1>2. Row(Present, f, s) = Present /\ \A t \in Scalers \ {s} : Row(Present, f, t) = {}
  BY PresentFacts DEF Row
<1>3. f \in [Gateways -> Scalers]
  OBVIOUS
<1> HIDE DEF f
<1>4. Share(f, s)' = Cardinality(Present)
  BY <1>1, <1>2 DEF Share
<1>5. \A t \in Scalers \ {s} : Share(f, t)' = 0
  BY <1>1, <1>2, FS_EmptySet DEF Share
<1>6. \A t \in Scalers : exec[t].number \in Nat
  BY NumberType
<1>7. ShareAt(f, s, m, d, s)'
  BY <1>4, PresentFacts DEF ShareAt
<1>8. ASSUME NEW t \in Scalers \ {s} PROVE ShareAt(f, s, m, d, t)'
  BY <1>5, <1>6 DEF ShareAt, Bounds
<1>9. Shares(f, s, m, d)'
  BY <1>7, <1>8 DEF Shares
<1> QED BY <1>3, <1>9

\* A count of no more than d covers all that exist.
LEMMA ListShared ==
    ASSUME NEW m, NEW d, Bounds(m, d), IndInv, IndInv', Shared(m, d),
           NEW s \in Scalers, ListGateways(s)
    PROVE  Shared(m, d)'
<1>1. /\ UNCHANGED <<pc, labelled>> /\ exec'[s].at = "read"
      /\ exec'[s].number = Cardinality(Counted)
      /\ \A t \in Scalers \ {s} : exec'[t] = exec[t]
  BY DEF ListGateways, ExecOnly, Advance, local, project, IndInv, TypeOK, ExecType
<1>2. Present' = Present /\ Unlabelled' = Unlabelled
  BY <1>1 DEF Present, Exists, Unlabelled
<1>3. CASE Unlabelled # {}
  BY <1>2, <1>3 DEF Shared
<1>4. CASE Unlabelled = {}
  <2>1. PICK f \in [Gateways -> Scalers], one \in Scalers : Shares(f, one, m, d)
    BY <1>4 DEF Shared
  <2>2. exec'[s].number = Cardinality(Present)
    BY <1>1, <1>4, CountsAll
  <2>3. CASE Cardinality(Present) <= d
    <3>1. \A t \in Scalers : exec[t].at = "create" =>
            0 < exec[t].number /\ exec[t].number <= d
      <4> SUFFICES ASSUME NEW t \in Scalers, exec[t].at = "create"
                   PROVE  0 < exec[t].number /\ exec[t].number <= d
        OBVIOUS
      <4>1. exec[t].number > 0 /\ Share(f, t) + exec[t].number <= d
        BY <2>1 DEF Shares, ShareAt
      <4>2. Share(f, t) \in Nat /\ exec[t].number \in Nat
        BY ShareType, NumberType DEF IndInv
      <4> QED BY <4>1, <4>2 DEF Bounds
    <3>2. Cardinality(Present) <= m
      BY <2>3, PresentFacts DEF Bounds
    <3>3. \E g \in [Gateways -> Scalers], o \in Scalers : Shares(g, o, m, d)'
      BY <1>1, <2>2, <3>1, <3>2, TakeAll DEF IndInv
    <3> QED BY <1>2, <1>4, <3>3 DEF Shared
  <2>4. CASE Cardinality(Present) > d
    <3>1. Row(Present, f, s) \in SUBSET Present
      BY DEF Row
    <3>2. Share(f, s) <= Cardinality(Present) /\ Share(f, s)' = Share(f, s)
      BY <1>2, <3>1, PresentFacts, FS_Subset DEF Share
    <3>3. ShareAt(f, one, m, d, s)'
      BY <1>1, <2>1, <2>2, <3>2 DEF Shares, ShareAt
    <3>4. \A t \in Scalers \ {s} : ShareAt(f, one, m, d, t)'
      BY <1>1, <1>2, <2>1, ShareFrame DEF Shares, IndInv
    <3>5. Shares(f, one, m, d)'
      BY <3>3, <3>4 DEF Shares
    <3> QED BY <1>2, <1>4, <3>5 DEF Shared
  <2> QED BY <2>3, <2>4, PresentFacts DEF Bounds
<1> QED BY <1>3, <1>4

\* What is missing fits.
LEMMA ReadShared ==
    ASSUME NEW m, NEW d, Bounds(m, d), desired <= d, IndInv, IndInv', Shared(m, d),
           NEW s \in Scalers, ReadNfsState(s)
    PROVE  Shared(m, d)'
<1>1. /\ UNCHANGED <<pc, labelled>> /\ exec[s].at = "read"
      /\ \A t \in Scalers \ {s} : exec'[t] = exec[t]
  BY DEF ReadNfsState, ExecOnly, Advance, local, project, IndInv, TypeOK
<1>2. Present' = Present /\ Unlabelled' = Unlabelled
  BY <1>1 DEF Present, Exists, Unlabelled
<1>3. \/ exec'[s].at \notin {"read", "create"}
      \/ /\ Missing(s) > 0
         /\ exec'[s].at = "create" /\ exec'[s].number = Missing(s)
  <2>1. exec \in [Scalers -> ExecType]
    BY DEF IndInv, TypeOK
  <2>2. exec'[s] = CASE MustMigrate(s) ->
                          [exec[s] EXCEPT !.at = "inspect", !.number = 0]
                     [] ~MustMigrate(s) /\ Missing(s) > 0 ->
                          [exec[s] EXCEPT !.at = "create", !.number = Missing(s)]
                     [] OTHER -> Off
    BY <2>1 DEF ReadNfsState, ExecOnly, Advance
  <2>3. CASE MustMigrate(s)
    BY <2>1, <2>2, <2>3 DEF ExecType
  <2>4. CASE ~MustMigrate(s) /\ Missing(s) > 0
    BY <2>1, <2>2, <2>4 DEF ExecType
  <2>5. CASE ~MustMigrate(s) /\ ~(Missing(s) > 0)
    BY <2>2, <2>5 DEF Off
  <2> QED BY <2>3, <2>4, <2>5
<1>4. CASE exec'[s].at \notin {"read", "create"}
  BY <1>1, <1>2, <1>4, SharedFrame DEF IndInv
<1>5. CASE /\ Missing(s) > 0
           /\ exec'[s].at = "create" /\ exec'[s].number = Missing(s)
  <2>1. CASE Unlabelled # {}
    BY <1>2, <2>1 DEF Shared
  <2>2. CASE Unlabelled = {}
    <3>1. PICK f \in [Gateways -> Scalers], one \in Scalers : Shares(f, one, m, d)
      BY <2>2 DEF Shared
    <3>2. Share(f, s)' = Share(f, s) /\ Share(f, s) \in Nat
      BY <1>2, ShareType DEF Share
    <3>3. Share(f, s) <= exec[s].number /\ exec[s].number \in Nat /\ desired \in Nat
      BY <1>1, <3>1, NumberType DEF Shares, ShareAt, IndInv, TypeOK
    <3>4. Share(f, s) + Missing(s) <= d /\ Missing(s) \in Nat
      BY <1>5, <3>2, <3>3 DEF Missing, Bounds
    <3>5. ShareAt(f, one, m, d, s)'
      BY <1>5, <3>1, <3>2, <3>4 DEF Shares, ShareAt
    <3>6. \A t \in Scalers \ {s} : ShareAt(f, one, m, d, t)'
      BY <1>1, <1>2, <3>1, ShareFrame DEF Shares, IndInv
    <3>7. Shares(f, one, m, d)'
      BY <3>5, <3>6 DEF Shares
    <3> QED BY <1>2, <2>2, <3>7 DEF Shared
  <2> QED BY <2>1, <2>2
<1> QED BY <1>3, <1>4, <1>5

LEMMA CreateShared ==
    ASSUME NEW m, NEW d, Bounds(m, d), IndInv, IndInv', Shared(m, d),
           NEW s \in Scalers, CreateGateway(s)
    PROVE  Shared(m, d)'
<1>1. PICK v \in Gateways :
        pc[v] = "absent" /\ Goto(v, "boot") /\ labelled' = labelled \cup {v}
  BY DEF CreateGateway
<1>2. pc'[v] = "boot" /\ \A u \in Gateways \ {v} : pc'[u] = pc[u]
  BY <1>1 DEF Goto, IndInv, TypeOK
<1>3. /\ exec[s].at = "create"
      /\ \A t \in Scalers \ {s} : exec'[t] = exec[t]
      /\ exec'[s] = IF exec[s].number > 1
                      THEN [exec[s] EXCEPT !.number = exec[s].number - 1]
                      ELSE Off
  BY DEF CreateGateway, IndInv, TypeOK
<1>4. Unlabelled = {}
  BY <1>3 DEF IndInv, Pending, PendingAt
<1>5. Unlabelled' = {}
  BY <1>1, <1>2, <1>4 DEF Unlabelled
<1>6. PICK f \in [Gateways -> Scalers], one \in Scalers : Shares(f, one, m, d)
  BY <1>4 DEF Shared
<1> DEFINE g == [f EXCEPT ![v] = s]
<1>7. v \notin Present /\ Present' = Present \cup {v}
  <2>1. \A u \in Gateways : u \in Present' <=> u \in Present \/ u = v
    BY <1>1, <1>2 DEF Present, Exists
  <2> QED BY <1>1, <2>1 DEF Present, Exists
<1>8. g \in [Gateways -> Scalers]
  OBVIOUS
<1>9. /\ Row(Present', g, s) = Row(Present, f, s) \cup {v}
      /\ v \notin Row(Present, f, s)
      /\ \A t \in Scalers \ {s} : Row(Present', g, t) = Row(Present, f, t)
  BY <1>7, PresentFacts DEF Row
<1> HIDE DEF g
<1>10. Share(g, s)' = Share(f, s) + 1
  <2> DEFINE R == Row(Present, f, s)
  <2>1. IsFiniteSet(R) /\ v \notin R
    BY <1>9, PresentFacts, RowFacts
  <2> HIDE DEF R
  <2>2. Cardinality(R \cup {v}) = Cardinality(R) + 1
    BY <2>1, FS_AddElement
  <2> QED BY <1>9, <2>2 DEF R, Share
<1>11. \A t \in Scalers \ {s} : Share(g, t)' = Share(f, t)
  BY <1>9 DEF Share
<1>12. /\ Share(f, s) \in Nat /\ exec[s].number \in Nat
       /\ exec[s].number > 0 /\ Share(f, s) + exec[s].number <= d
  BY <1>3, <1>6, ShareType, NumberType DEF Shares, ShareAt, IndInv
<1>13. \/ /\ exec'[s].at = "create" /\ exec[s].number > 1
          /\ exec'[s].number = exec[s].number - 1
       \/ exec'[s].at = "off"
  BY <1>3 DEF Off, IndInv, TypeOK, ExecType
<1>14. ShareAt(g, one, m, d, s)'
  BY <1>10, <1>12, <1>13 DEF ShareAt, Bounds
<1>15. \A t \in Scalers \ {s} : ShareAt(g, one, m, d, t)'
  BY <1>3, <1>6, <1>11 DEF Shares, ShareAt
<1>16. Shares(g, one, m, d)'
  BY <1>14, <1>15 DEF Shares
<1> QED BY <1>5, <1>8, <1>16 DEF Shared

\* The last label: all that exist are existing ones, and nobody creates yet.
LEMMA LabelShared ==
    ASSUME NEW m, NEW d, Bounds(m, d), IndInv, IndInv', Shared(m, d),
           NEW s \in Scalers, LabelMigrated(s)
    PROVE  Shared(m, d)'
<1>1. /\ UNCHANGED pc /\ labelled \subseteq labelled'
      /\ \A t \in Scalers \ {s} : exec'[t] = exec[t]
      /\ exec'[s].at = "label"
  BY DEF LabelMigrated, Advance, local, IndInv, TypeOK, ExecType
<1>2. Present' = Present /\ Unlabelled' \subseteq Unlabelled
  BY <1>1 DEF Present, Exists, Unlabelled
<1>3. CASE Unlabelled' # {}
  BY <1>2, <1>3 DEF Shared
<1>4. CASE Unlabelled = {}
  BY <1>1, <1>2, <1>4, SharedFrame DEF IndInv
<1>5. CASE Unlabelled # {} /\ Unlabelled' = {}
  <2>1. Present \in SUBSET Existing
    BY <1>5 DEF Shared
  <2>2. Cardinality(Present) <= Cardinality(Existing) /\ Cardinality(Existing) \in Nat
    BY <2>1, NameAssumption, FS_Subset, FS_CardinalityType
  <2>3. Cardinality(Present) <= m
    BY <2>2, PresentFacts DEF Bounds
  <2>4. \A t \in Scalers : exec[t].at # "create"
    BY <1>5 DEF IndInv, Pending, PendingAt
  <2>5. \E f \in [Gateways -> Scalers], one \in Scalers : Shares(f, one, m, d)'
    BY <1>1, <2>3, <2>4, TakeAll DEF IndInv
  <2> QED BY <1>5, <2>5 DEF Shared
<1> QED BY <1>3, <1>4, <1>5

LEMMA NextShared ==
    ASSUME NEW m, NEW d, Bounds(m, d), desired <= d, IndInv, Shared(m, d), [Next]_vars
    PROVE  Shared(m, d)'
<1>1. IndInv'
  BY NextIndInv
<1>2. CASE \/ BackendsComeUp \/ DeleteStaleLock \/ UNCHANGED vars
           \/ \E size \in Sizes : Resize(size)
  <2>1. UNCHANGED <<pc, labelled, exec>>
    BY <1>2 DEF BackendsComeUp, DeleteStaleLock, Resize, vars, project, local
  <2>2. Present' = Present /\ Unlabelled' = Unlabelled
    BY <2>1 DEF Present, Exists, Unlabelled
  <2> QED BY <1>1, <2>1, <2>2, SharedFrame DEF IndInv
<1> QED BY <1>1, <1>2, GatewayShared, OtherShared, ListShared, ReadShared,
           CreateShared, LabelShared
     DEF Next, ScaleStep, MigrationStep

LEMMA InitShared ==
    ASSUME NEW m, NEW d, Bounds(m, d), Init
    PROVE  Shared(m, d)
<1>1. PICK old \in {{}, Existing} :
        pc = [v \in Gateways |-> IF v \in old THEN "serving" ELSE "absent"]
  BY DEF Init
<1>2. Present \subseteq old /\ (Unlabelled = {} => Present = {})
  BY <1>1 DEF Present, Exists, Unlabelled, Init
<1>3. CASE Unlabelled # {}
  BY <1>2, <1>3 DEF Shared
<1>4. CASE Unlabelled = {}
  <2>1. PICK s \in Scalers : TRUE
    BY ScalersAssumption
  <2> DEFINE f == [v \in Gateways |-> s]
  <2>2. \A t : Row({}, f, t) = {}
    BY DEF Row
  <2>3. f \in [Gateways -> Scalers]
    OBVIOUS
  <2> HIDE DEF f
  <2>4. \A t \in Scalers : Share(f, t) = 0
    BY <1>2, <1>4, <2>2, FS_EmptySet DEF Share
  <2>5. Shares(f, s, m, d)
    BY <2>4 DEF Shares, ShareAt, Init, Off, Bounds
  <2> QED BY <1>4, <2>3, <2>5 DEF Shared
<1> QED BY <1>3, <1>4


LEMMA DesiredNext ==
    ASSUME IndInv, [Next]_vars
    PROVE  desired' = desired \/ \E size \in Sizes : desired' = size
<1>1. ASSUME NEW s \in Scalers, ScaleStep(s) \/ ScaleFault(s) PROVE desired' = desired
  BY <1>1
     DEF ScaleStep, MigrationStep, ScaleFault, StartScaleUp, ListGateways,
         ReadNfsState, CreateGateway, InspectInterfaceGroup, LockForMigration,
         RegroupMigrated, LabelMigrated, LabelsAreSet, CommitMigration,
         WriteMigrated, ProtectMigrated, ScaleUpFails, LabelMigratedFails,
         MigrationUnacknowledged, MigrationFails, MigrationDies, ExecOnly, Advance
<1>2. CASE \/ BackendsComeUp \/ DeleteStaleLock \/ UNCHANGED vars
           \/ \E size \in Sizes : Resize(size)
  BY <1>2 DEF BackendsComeUp, DeleteStaleLock, Resize, vars
<1> QED BY <1>1, <1>2, GatewayGoes DEF Next

LEMMA ExistingNumber == Cardinality(Existing) \in Nat
BY NameAssumption, FS_Subset, FS_CardinalityType

\* Nobody asks for fewer gateways.
NeverShrinks == [][desired' >= desired]_vars

\* As long as nobody asks for fewer gateways, and however the migration fails or is
\* repeated: one execution of scale_up creates gateways up to the desired number
\* only, counting those it has found, and each that overlaps with it creates no
\* more than the desired number.
THEOREM ExtraCorrect == Spec /\ NeverShrinks => []NoExtraGateways
<1> DEFINE Fits == \E m, d \in Nat : /\ d = desired /\ Bounds(m, d)
                                     /\ m = d \/ m = Cardinality(Existing)
                                     /\ Shared(m, d)
<1>1. Init => Fits
  <2> SUFFICES ASSUME Init PROVE Fits
    OBVIOUS
  <2>1. PICK d \in Nat : d = desired
    BY TypeInit DEF TypeOK
  <2>2. PICK m \in Nat : Bounds(m, d) /\ (m = d \/ m = Cardinality(Existing))
    BY <2>1, ExistingNumber DEF Bounds
  <2> QED BY <2>1, <2>2, InitShared
<1>2. IndInv /\ Fits /\ [Next]_vars /\ [desired' >= desired]_vars => Fits'
  <2> SUFFICES ASSUME IndInv, Fits, [Next]_vars, [desired' >= desired]_vars
               PROVE  Fits'
    OBVIOUS
  <2>1. PICK m \in Nat, d \in Nat : /\ d = desired /\ Bounds(m, d)
                                    /\ m = d \/ m = Cardinality(Existing)
                                    /\ Shared(m, d)
    OBVIOUS
  <2>2. IndInv' /\ TypeOK'
    BY NextIndInv DEF IndInv
  <2>3. PICK e \in Nat : e = desired'
    BY <2>2 DEF TypeOK
  <2>4. d <= e
    BY <2>1, <2>3 DEF vars
  <2>5. PICK n \in Nat : /\ Bounds(n, e) /\ m <= n
                         /\ n = e \/ n = Cardinality(Existing)
    BY <2>1, <2>4, ExistingNumber DEF Bounds
  <2>6. Shared(m, d)'
    BY <2>1, NextShared
  <2>7. Shared(n, e)'
    <3>1. ASSUME NEW f, NEW one, NEW s \in Scalers, ShareAt(f, one, m, d, s)'
          PROVE  ShareAt(f, one, n, e, s)'
      <4>1. Share(f, s)' \in Nat /\ exec'[s].number \in Nat
        BY <2>2, ShareType, NumberType DEF TypeOK, ExecType
      <4> QED BY <2>1, <2>4, <2>5, <3>1, <4>1 DEF ShareAt, Bounds
    <3> QED BY <2>6, <3>1 DEF Shared, Shares
  <2> QED BY <2>3, <2>5, <2>7
<1>3. IndInv /\ Fits => NoExtraGateways
  <2> SUFFICES ASSUME IndInv, Fits PROVE NoExtraGateways
    OBVIOUS
  <2>1. PICK m \in Nat, d \in Nat : /\ d = desired /\ Bounds(m, d)
                                    /\ m = d \/ m = Cardinality(Existing)
                                    /\ Shared(m, d)
    OBVIOUS
  <2>2. Cardinality(Present) <= m + (Cardinality(Scalers) - 1) * d
    BY <2>1, SharedCount
  <2> QED BY <2>1, <2>2 DEF NoExtraGateways, Present
<1> QED BY <1>1, <1>2, <1>3, Invariance, PTL DEF Spec, NeverShrinks

\* Whatever numbers are asked for, in any order: if none exceeds d, and there are no
\* more than m gateways of an older deployment, and d <= m, no more than m exist,
\* and d for each execution that overlaps.
THEOREM ExtraBounded ==
    ASSUME NEW m \in Nat, NEW d \in Nat, d <= m, Cardinality(Existing) <= m,
           Target <= d, \A size \in Sizes : size <= d
    PROVE  Spec => [](Cardinality({v \in Gateways : Exists(v)})
                        <= m + (Cardinality(Scalers) - 1) * d)
<1> DEFINE Fits == desired <= d /\ Shared(m, d)
<1>1. Bounds(m, d)
  BY DEF Bounds
<1>2. Init => Fits
  BY <1>1, InitShared DEF Init
<1>3. IndInv /\ Fits /\ [Next]_vars => Fits'
  BY <1>1, NextShared, DesiredNext
<1>4. Fits => Cardinality({v \in Gateways : Exists(v)})
                <= m + (Cardinality(Scalers) - 1) * d
  BY <1>1, SharedCount DEF Present
<1> QED BY <1>2, <1>3, <1>4, Invariance, PTL DEF Spec

------------------------------------------------------------------------------
(* How often a gateway is migrated                                          *)

Times(v) == Cardinality({i \in DOMAIN instances : instances[i] = v})

\* Executions that have decided to migrate
InFlight == {s \in Scalers : exec[s].at \in Migrating \cup {"inspect", "lock"}}

\* Each of them adds a gateway once for each port; none joins them after the first
\* write.
Once ==
    \A v \in Existing :
        /\ pc[v] \in {"absent", "serving"}
        /\ ~migrated => v \notin ToSet(instances)
        /\ migrated => Times(v) + Cardinality(InFlight) * PortsOf[v]
                         <= Cardinality(Scalers) * PortsOf[v]

LEMMA Products ==
    ASSUME NEW v \in Existing, NEW a \in Nat, NEW b \in Nat, a <= b
    PROVE  /\ PortsOf[v] \in Nat /\ a * PortsOf[v] \in Nat /\ b * PortsOf[v] \in Nat
           /\ a * PortsOf[v] <= b * PortsOf[v]
           /\ a < b => a * PortsOf[v] + PortsOf[v] <= b * PortsOf[v]
<1>1. PortsOf[v] \in Nat
  BY Numbers, NameAssumption
<1> DEFINE n == PortsOf[v]
<1> HIDE DEF n
<1>2. n \in Nat
  BY <1>1 DEF n
<1>3. PICK c \in Nat : b = a + c
  <2>1. b - a \in Nat /\ b = a + (b - a)
    OBVIOUS
  <2> QED BY <2>1
<1>4. a * n \in Nat /\ b * n \in Nat /\ c * n \in Nat
  BY <1>2
<1>5. b * n = a * n + c * n
  BY <1>2, <1>3
<1>6. a * n <= b * n
  BY <1>4, <1>5
<1>7. ASSUME a < b PROVE a * n + n <= b * n
  <2>1. c - 1 \in Nat
    BY <1>3, <1>7
  <2>2. (c - 1) * n \in Nat
    BY <1>2, <2>1
  <2>3. c * n = (c - 1) * n + n
    BY <1>2, <2>1
  <2> QED BY <1>2, <1>4, <1>5, <2>2, <2>3
<1> QED BY <1>2, <1>4, <1>6, <1>7 DEF n

LEMMA InFlightFacts ==
    /\ InFlight \in SUBSET Scalers /\ IsFiniteSet(InFlight)
    /\ Cardinality(InFlight) \in Nat /\ Cardinality(Scalers) \in Nat
    /\ Cardinality(InFlight) <= Cardinality(Scalers)
<1>1. InFlight \in SUBSET Scalers
  BY DEF InFlight
<1> QED BY <1>1, ScalersAssumption, FS_Subset, FS_CardinalityType

LEMMA InFlightShrinks ==
    ASSUME InFlight' \subseteq InFlight
    PROVE  /\ Cardinality(InFlight') \in Nat
           /\ Cardinality(InFlight') <= Cardinality(InFlight)
<1>1. InFlight' \in SUBSET InFlight
  OBVIOUS
<1> QED BY <1>1, InFlightFacts, FS_Subset, FS_CardinalityType

LEMMA TimesFacts ==
    ASSUME NEW q \in Seq(Gateways), NEW v
    PROVE  /\ IsFiniteSet({i \in DOMAIN q : q[i] = v})
           /\ Cardinality({i \in DOMAIN q : q[i] = v}) \in Nat
           /\ v \notin ToSet(q) => Cardinality({i \in DOMAIN q : q[i] = v}) = 0
<1> DEFINE places == {i \in DOMAIN q : q[i] = v}
<1>1. DOMAIN q = 1 .. Len(q) /\ Len(q) \in Nat
  OBVIOUS
<1>2. IsFiniteSet(DOMAIN q)
  BY <1>1, FS_Interval
<1>3. IsFiniteSet(places) /\ Cardinality(places) \in Nat
  BY <1>2, FS_Subset, FS_CardinalityType
<1>4. v \notin ToSet(q) => places = {}
  BY DEF ToSet
<1> QED BY <1>3, <1>4, FS_EmptySet

\* Neither the list, as far as it is about existing gateways, nor the executions
\* that migrate become more.
LEMMA OnceFrame ==
    ASSUME TypeOK, TypeOK', Once, InFlight' \subseteq InFlight,
           migrated => migrated',
           \A v \in Existing : /\ pc'[v] = pc[v] /\ Times(v)' <= Times(v)
                               /\ v \in ToSet(instances') => v \in ToSet(instances)
    PROVE  Once'
<1> SUFFICES ASSUME NEW v \in Existing
             PROVE  /\ pc'[v] \in {"absent", "serving"}
                    /\ ~migrated' => v \notin ToSet(instances')
                    /\ migrated' => Times(v)' + Cardinality(InFlight') * PortsOf[v]
                                      <= Cardinality(Scalers) * PortsOf[v]
  BY DEF Once
<1>1. Times(v) \in Nat /\ Times(v)' \in Nat /\ (v \notin ToSet(instances) => Times(v) = 0)
  <2>1. instances \in Seq(Gateways) /\ instances' \in Seq(Gateways)
    BY DEF TypeOK
  <2> QED BY <2>1, TimesFacts DEF Times
<1> DEFINE before == Cardinality(InFlight) * PortsOf[v]
           after == Cardinality(InFlight') * PortsOf[v]
           all == Cardinality(Scalers) * PortsOf[v]
<1>2. /\ before \in Nat /\ after \in Nat /\ all \in Nat
      /\ before <= all /\ after <= before
  BY InFlightFacts, InFlightShrinks, Products
<1>3. migrated => Times(v) + before <= all
  BY DEF Once
<1>4. ~migrated => Times(v) = 0
  BY <1>1 DEF Once
<1> HIDE DEF before, after, all
<1>5. Times(v)' + after <= all
  BY <1>1, <1>2, <1>3, <1>4
<1> QED BY <1>5 DEF Once, after, all

\* Gateways that call clusterize are not existing ones.
LEMMA GatewayOnce ==
    ASSUME IndInv, IndInv', Once, NEW v \in Gateways, GatewayStep(v) \/ GatewayFault(v)
    PROVE  Once'
<1>1. /\ pc[v] \notin {"absent", "serving", "gone"}
      /\ \A u \in Gateways \ {v} : pc'[u] = pc[u]
      /\ exec' = exec
  BY GatewayGoes
<1>2. v \notin Existing /\ \A u \in Existing : pc'[u] = pc[u]
  BY <1>1, NameAssumption DEF Once
<1>3. /\ migrated => migrated'
      /\ instances' \in {instances, Append(instances, v), <<>>}
  <2>1. CASE GatewayStep(v)
    BY <2>1
       DEF GatewayStep, CriticalStep, FetchDeployScript, FetchJoinScript,
           DeploySucceeds, AddGateway, AppendGateway, RefuseExtra, TerminateExtra,
           Protect, ProtectedBy, Wait, SetMigrated, CreateInterfaceGroup,
           InterfaceGroupIsUp, SetInterfaces, LockAndRead, LabelPort,
           PortsAreLabelled, AddInstancesToGroup, Commit, CommitAnd,
           WriteClusterized, JoinInterfaceGroup, ProtectJoined, AddJoinedToGroup, LabelJoined, Step,
           object
  <2>2. CASE GatewayFault(v)
    BY <2>2
       DEF GatewayFault, BootFails, DeployFails, AddUnacknowledged, AppendGateway,
           AddFails, TerminateExtraFails, ProtectionFails, SetMigratedFails,
           SetupFails, PortLabelFails, CommitUnacknowledged, CommitUnanswered,
           CommitAnd, WriteClusterized, Retry, FinalizationFails, JoinedLabelFails, JoinFinalizationFails,
           ClusterizeUnanswered, FinalizationUnanswered, TimeOut, CallAgain, Step,
           object
  <2> QED BY <2>1, <2>2
<1>4. ASSUME NEW u \in Existing
      PROVE  /\ Times(u)' <= Times(u)
             /\ u \in ToSet(instances') => u \in ToSet(instances)
  <2> DEFINE Places(q) == {i \in DOMAIN q : q[i] = u}
  <2>1. instances \in Seq(Gateways) /\ u # v
    BY <1>2 DEF IndInv, TypeOK
  <2>2. Cardinality(Places(instances)) \in Nat
    BY <2>1, TimesFacts
  <2>3. CASE instances' = instances
    BY <2>2, <2>3 DEF Times
  <2>4. CASE instances' = <<>>
    <3>1. Places(instances') = {} /\ ToSet(instances') = {}
      BY <2>4 DEF ToSet
    <3>2. Times(u)' = 0
      BY <3>1, FS_EmptySet DEF Times
    <3> QED BY <2>2, <3>1, <3>2 DEF Times
  <2>5. CASE instances' = Append(instances, v)
    <3> DEFINE n == Len(instances)
    <3>1. n \in Nat /\ DOMAIN instances = 1 .. n
      BY <2>1
    <3>2. /\ DOMAIN instances' = 1 .. n + 1 /\ instances'[n + 1] = v
          /\ \A i \in 1 .. n : instances'[i] = instances[i]
      BY <2>1, <2>5
    <3>3. \A i \in DOMAIN instances' :
            instances'[i] = u => i \in DOMAIN instances /\ instances[i] = u
      BY <2>1, <3>1, <3>2
    <3>4. \A i \in DOMAIN instances : i \in DOMAIN instances' /\ instances'[i] = instances[i]
      BY <3>1, <3>2
    <3>5. Places(instances') = Places(instances)
      BY <3>3, <3>4
    <3>6. u \in ToSet(instances') => u \in ToSet(instances)
      BY <3>3 DEF ToSet
    <3> QED BY <2>2, <3>5, <3>6 DEF Times
  <2> QED BY <1>3, <2>3, <2>4, <2>5
<1>5. InFlight' = InFlight
  BY <1>1 DEF InFlight
<1> QED BY <1>2, <1>3, <1>4, <1>5, OnceFrame DEF IndInv

\* One that has migrated them is in flight no longer.
LEMMA WriteOnce ==
    ASSUME IndInv, IndInv', Once, NEW s \in Scalers, NEW then, WriteMigrated(s, then),
           then.at \in {"off", "protect"}
    PROVE  Once'
<1>1. /\ exec[s].at = "write" /\ exec'[s] = then /\ migrated' /\ UNCHANGED pc
      /\ \A t \in Scalers \ {s} : exec'[t] = exec[t]
  BY DEF WriteMigrated, Advance, local, IndInv, TypeOK
<1>2. s \in InFlight /\ InFlight' = InFlight \ {s}
  BY <1>1 DEF InFlight, Migrating
<1>3. Cardinality(InFlight') = Cardinality(InFlight) - 1
  BY <1>2, InFlightFacts, FS_RemoveElement
<1>4. ASSUME NEW v \in Existing
      PROVE  Times(v)' <= Times(v) + PortsOf[v] /\ Times(v)' \in Nat
  <2> DEFINE places == {i \in DOMAIN instances : instances[i] = v}
             later == {i \in DOMAIN instances' : instances'[i] = v}
  <2>1. PICK order \in SetToSeqs(PortsIn(exec[s].found)) :
          instances' = IF exec[s].ok THEN instances ELSE instances \o Entries(order)
    BY DEF WriteMigrated
  <2>2. /\ instances \in Seq(Gateways) /\ instances' \in Seq(Gateways)
        /\ exec[s].found \in SUBSET Gateways
    BY DEF IndInv, TypeOK, ExecType
  <2>3. /\ IsFiniteSet(places) /\ Cardinality(places) \in Nat
        /\ IsFiniteSet(later) /\ Cardinality(later) \in Nat
        /\ PortsOf[v] \in Nat
    BY <2>2, TimesFacts, Numbers, NameAssumption
  <2>4. CASE exec[s].ok
    <3>1. instances' = instances
      BY <2>1, <2>4
    <3> QED BY <2>3, <3>1 DEF Times
  <2>5. CASE ~exec[s].ok
    <3> DEFINE n == Len(instances)
               k == Len(order)
               added == {i \in n + 1 .. n + k : instances'[i] = v}
               port == [i \in added |-> order[i - n][2]]
    <3>1. /\ order \in Seq(PortsIn(exec[s].found)) /\ IsInjective(order)
          /\ Entries(order) \in Seq(Gateways) /\ Len(Entries(order)) = k
          /\ \A i \in 1 .. k : Entries(order)[i] = order[i][1]
      BY <2>1, <2>2, EntriesFacts
    <3>2. /\ n \in Nat /\ k \in Nat
          /\ DOMAIN instances = 1 .. n /\ DOMAIN order = 1 .. k
      BY <2>2, <3>1
    <3>3. /\ DOMAIN instances' = 1 .. n + k
          /\ \A i \in 1 .. n : instances'[i] = instances[i]
          /\ \A i \in n + 1 .. n + k : instances'[i] = Entries(order)[i - n]
      <4>1. instances' = instances \o Entries(order)
        BY <2>1, <2>5
      <4>2. \A q, r \in Seq(Gateways) :
              /\ DOMAIN (q \o r) = 1 .. Len(q) + Len(r)
              /\ \A i \in 1 .. Len(q) : (q \o r)[i] = q[i]
              /\ \A i \in Len(q) + 1 .. Len(q) + Len(r) : (q \o r)[i] = r[i - Len(q)]
        OBVIOUS
      <4>3. PICK r \in Seq(Gateways) : r = Entries(order) /\ Len(r) = k
        BY <3>1
      <4> HIDE DEF k
      <4>4. instances' = instances \o r
        BY <4>1, <4>3
      <4>5. /\ DOMAIN instances' = 1 .. n + k
            /\ \A i \in 1 .. n : instances'[i] = instances[i]
            /\ \A i \in n + 1 .. n + k : instances'[i] = r[i - n]
        BY <2>2, <4>2, <4>3, <4>4
      <4> QED BY <4>3, <4>5
    <3>4. ASSUME NEW i \in added
          PROVE  /\ i - n \in DOMAIN order /\ i \in Int
                 /\ order[i - n][2] \in 1 .. PortsOf[v]
                 /\ order[i - n] = <<v, order[i - n][2]>>
      <4>1. i \in n + 1 .. n + k /\ instances'[i] = v
        OBVIOUS
      <4>2. i - n \in 1 .. k /\ i \in Int
        BY <3>2, <4>1
      <4>3. order[i - n][1] = v /\ order[i - n] \in PortsIn(exec[s].found)
        BY <3>1, <3>2, <3>3, <4>1, <4>2
      <4> QED BY <2>2, <3>2, <4>2, <4>3, PortFacts
    <3>5. port \in [added -> 1 .. PortsOf[v]]
      BY <3>4
    <3>6. ASSUME NEW i \in added, NEW j \in added, port[i] = port[j]
          PROVE  i = j
      <4>1. order[i - n] = order[j - n]
        BY <3>4, <3>6
      <4>2. i - n = j - n
        BY <3>1, <3>4, <4>1 DEF IsInjective
      <4> QED BY <3>2, <3>4, <4>2
    <3> HIDE DEF port
    <3>7. port \in Injection(added, 1 .. PortsOf[v])
      BY <3>5, <3>6 DEF Injection, IsInjective
    <3>8. IsFiniteSet(1 .. PortsOf[v]) /\ Cardinality(1 .. PortsOf[v]) = PortsOf[v]
      <4>1. 1 \in Int /\ PortsOf[v] \in Int
        BY <2>3
      <4>2. /\ IsFiniteSet(1 .. PortsOf[v])
            /\ Cardinality(1 .. PortsOf[v]) =
                 IF 1 > PortsOf[v] THEN 0 ELSE PortsOf[v] - 1 + 1
        BY <4>1, FS_Interval
      <4> QED BY <2>3, <4>2
    <3>9. /\ IsFiniteSet(added) /\ Cardinality(added) \in Nat
          /\ Cardinality(added) <= PortsOf[v]
      BY <3>7, <3>8, FS_Injection, FS_CardinalityType
    <3>10. later \subseteq places \cup added
      <4> SUFFICES ASSUME NEW i \in later PROVE i \in places \/ i \in added
        OBVIOUS
      <4>1. i \in 1 .. n + k /\ instances'[i] = v
        BY <3>3
      <4>2. i \in 1 .. n \/ i \in n + 1 .. n + k
        BY <3>2, <4>1
      <4> QED BY <3>2, <3>3, <4>1, <4>2
    <3> HIDE DEF places, later, added, n, k
    <3>11. /\ IsFiniteSet(places \cup added) /\ Cardinality(places \cap added) \in Nat
           /\ Cardinality(places \cup added) =
                Cardinality(places) + Cardinality(added) - Cardinality(places \cap added)
      <4>1. IsFiniteSet(places \cap added)
        BY <2>3, FS_Intersection
      <4> QED BY <2>3, <3>9, <4>1, FS_Union, FS_CardinalityType
    <3>12. Cardinality(later) <= Cardinality(places \cup added)
      BY <3>10, <3>11, FS_Subset
    <3>13. Cardinality(later) <= Cardinality(places) + PortsOf[v]
      BY <2>3, <3>9, <3>11, <3>12
    <3> QED BY <2>3, <3>13 DEF Times, places, later
  <2> QED BY <2>4, <2>5
<1>5. ASSUME NEW v \in Existing
      PROVE  Times(v)' + Cardinality(InFlight') * PortsOf[v]
               <= Cardinality(Scalers) * PortsOf[v]
  <2> DEFINE before == Cardinality(InFlight) * PortsOf[v]
             after == Cardinality(InFlight') * PortsOf[v]
             all == Cardinality(Scalers) * PortsOf[v]
  <2>1. Times(v) \in Nat /\ (v \notin ToSet(instances) => Times(v) = 0)
    BY TimesFacts DEF IndInv, TypeOK, Times
  <2>2. InFlight' \subseteq InFlight
    BY <1>2
  <2>3. /\ Cardinality(InFlight') \in Nat /\ Cardinality(InFlight') < Cardinality(InFlight)
    BY <1>3, <2>2, InFlightFacts, InFlightShrinks
  <2>4. /\ PortsOf[v] \in Nat /\ before \in Nat /\ after \in Nat /\ all \in Nat
        /\ before <= all /\ after + PortsOf[v] <= before
    BY <2>3, InFlightFacts, Products
  <2>5. migrated => Times(v) + before <= all
    BY DEF Once
  <2>6. ~migrated => Times(v) = 0
    BY <2>1 DEF Once
  <2> HIDE DEF before, after, all
  <2>7. Times(v)' + after <= all
    BY <1>4, <2>1, <2>4, <2>5, <2>6
  <2> QED BY <2>7 DEF after, all
<1> QED BY <1>1, <1>5 DEF Once

LEMMA ScalerOnce ==
    ASSUME IndInv, IndInv', Once, NEW s \in Scalers, ScaleStep(s) \/ ScaleFault(s)
    PROVE  Once'
<1> USE DEF ExecOnly, Advance, local, object
<1>1. exec \in [Scalers -> ExecType] /\ IsFiniteSet(Gateways) /\ instances \in Seq(Gateways)
  BY NameAssumption DEF IndInv, TypeOK
<1>2. \A v \in Existing : Times(v) \in Nat
  BY <1>1, TimesFacts DEF Times
<1>3. ASSUME UNCHANGED <<instances, migrated>>, \A v \in Existing : pc'[v] = pc[v],
             InFlight' \subseteq InFlight
      PROVE  Once'
  BY <1>2, <1>3, OnceFrame DEF IndInv, Times
<1>4. ASSUME UNCHANGED <<instances, migrated, pc>>,
             \A t \in Scalers \ {s} : exec'[t] = exec[t],
             exec'[s].at \in {"off", "list", "read", "create", "protect"}
               \/ exec[s].at \in Migrating \cup {"inspect", "lock"}
      PROVE  Once'
  BY <1>3, <1>4 DEF InFlight, Migrating
<1>5. CASE StartScaleUp(s) \/ ListGateways(s) \/ ScaleUpFails(s) \/ MigrationFails(s)
           \/ MigrationDies(s)
  <2>1. UNCHANGED <<instances, migrated, pc>> /\ \A t \in Scalers \ {s} : exec'[t] = exec[t]
    BY <1>1, <1>5
       DEF StartScaleUp, ListGateways, ScaleUpFails, MigrationFails, MigrationDies
  <2>2. exec'[s].at \in {"off", "list", "read"}
    <3>1. CASE StartScaleUp(s)
      BY <1>1, <3>1, OffType DEF StartScaleUp, ExecType
    <3>2. CASE ListGateways(s)
      BY <1>1, <3>2 DEF ListGateways, ExecType
    <3>3. CASE ScaleUpFails(s) \/ MigrationFails(s) \/ MigrationDies(s)
      BY <1>1, <3>3 DEF ScaleUpFails, MigrationFails, MigrationDies, Off
    <3> QED BY <1>5, <3>1, <3>2, <3>3
  <2> QED BY <1>4, <2>1, <2>2
<1>6. CASE \/ InspectInterfaceGroup(s) \/ LockForMigration(s) \/ RegroupMigrated(s)
           \/ LabelMigrated(s) \/ LabelsAreSet(s) \/ LabelMigratedFails(s)
  BY <1>1, <1>4, <1>6
     DEF InspectInterfaceGroup, LockForMigration, RegroupMigrated, LabelMigrated,
         LabelsAreSet, LabelMigratedFails, Migrating
<1>7. CASE ProtectMigrated(s)
  <2>1. PICK v \in exec[s].todo :
          Advance(s, "protect", IF exec[s].todo = {v} THEN Off
                                ELSE [exec[s] EXCEPT !.todo = exec[s].todo \ {v}])
    BY <1>7 DEF ProtectMigrated
  <2>2. exec'[s].at \in {"off", "protect"}
    BY <1>1, <2>1 DEF Off, ExecType
  <2> QED BY <1>1, <1>4, <1>7, <2>1, <2>2 DEF ProtectMigrated
<1>8. CASE CommitMigration(s) \/ MigrationUnacknowledged(s)
  <2>1. PICK then \in {Off, [Off EXCEPT !.at = "protect", !.todo = PortsIn(exec[s].found)]} :
          WriteMigrated(s, then)
    BY <1>8 DEF CommitMigration, MigrationUnacknowledged
  <2>2. PortsIn(exec[s].found) \in SUBSET PortsIn(Gateways)
    BY <1>1, PortFacts DEF ExecType
  <2>3. then.at \in {"off", "protect"}
    BY <2>1, <2>2, ThenFacts
  <2> QED BY <2>1, <2>3, WriteOnce
<1>9. CASE CreateGateway(s)
  <2>1. PICK v \in Gateways \ Existing : Goto(v, "boot")
    BY <1>9 DEF CreateGateway
  <2>2. \A u \in Existing : pc'[u] = pc[u]
    BY <2>1, NameAssumption DEF Goto, IndInv, TypeOK
  <2>3. exec'[s].at \in {"off", "create"} /\ \A t \in Scalers \ {s} : exec'[t] = exec[t]
    BY <1>1, <1>9 DEF CreateGateway, Off, ExecType
  <2>4. InFlight' \subseteq InFlight
    BY <2>3 DEF InFlight, Migrating
  <2> QED BY <1>3, <1>9, <2>2, <2>4 DEF CreateGateway
<1>10. CASE ReadNfsState(s)
  <2>1. /\ \A t \in Scalers \ {s} : exec'[t] = exec[t]
        /\ UNCHANGED <<instances, migrated, pc>>
    BY <1>1, <1>10 DEF ReadNfsState
  <2>2. CASE migrated
    <3>1. exec'[s].at \in {"off", "create"}
      BY <1>1, <1>10, <2>2 DEF ReadNfsState, MustMigrate, Off, ExecType
    <3> QED BY <1>4, <2>1, <3>1
  <2>3. CASE ~migrated
    BY <2>1, <2>3 DEF Once
  <2> QED BY <2>2, <2>3
<1> QED BY <1>5, <1>6, <1>7, <1>8, <1>9, <1>10
     DEF ScaleStep, ScaleFault, MigrationStep

LEMMA NextOnce == IndInv /\ Once /\ [Next]_vars => Once'
<1> SUFFICES ASSUME IndInv, Once, [Next]_vars PROVE Once'
  OBVIOUS
<1>1. IndInv'
  BY NextIndInv
<1>2. CASE \/ BackendsComeUp \/ DeleteStaleLock \/ UNCHANGED vars
           \/ \E size \in Sizes : Resize(size)
  <2>1. UNCHANGED <<pc, exec, instances, migrated>>
    BY <1>2 DEF BackendsComeUp, DeleteStaleLock, Resize, vars, object, local
  <2> QED BY <2>1 DEF Once, Times, InFlight
<1> QED BY <1>1, <1>2, GatewayOnce, ScalerOnce DEF Next

LEMMA InitOnce == Init => Once
<1> SUFFICES ASSUME Init, NEW v \in Existing
             PROVE  pc[v] \in {"absent", "serving"} /\ v \notin ToSet(instances)
  BY DEF Once, Init
<1>1. ToSet(<<>>) = {}
  BY DEF ToSet
<1> QED BY <1>1, NameAssumption DEF Init

\* However often the migration fails, is cut off or is tried again, a gateway of an
\* older deployment is put in the list once for each of its ports by each execution
\* that has found it not migrated, and by no other.
THEOREM MigratedOnceCorrect == Spec => []MigratedOnce
<1>1. IndInv /\ Once => MigratedOnce
  <2> SUFFICES ASSUME IndInv, Once, NEW v \in Existing
               PROVE  Times(v) <= Cardinality(Scalers) * PortsOf[v]
    BY DEF MigratedOnce, Times
  <2> DEFINE before == Cardinality(InFlight) * PortsOf[v]
             all == Cardinality(Scalers) * PortsOf[v]
  <2>1. Times(v) \in Nat /\ (v \notin ToSet(instances) => Times(v) = 0)
    BY TimesFacts DEF IndInv, TypeOK, Times
  <2>2. before \in Nat /\ all \in Nat
    BY InFlightFacts, Products
  <2>3. (migrated => Times(v) + before <= all) /\ (~migrated => Times(v) = 0)
    BY <2>1 DEF Once
  <2> HIDE DEF before, all
  <2>4. Times(v) <= all
    BY <2>1, <2>2, <2>3
  <2> QED BY <2>4 DEF all
<1> QED BY <1>1, InitOnce, NextOnce, Invariance, PTL DEF Spec
=============================================================================
