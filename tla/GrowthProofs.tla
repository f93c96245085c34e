---------------------------- MODULE GrowthProofs ----------------------------
(***************************************************************************)
(* That overlapping executions of scale_up create no more instances than   *)
(* desired for each of them, for any number of instances and executions.   *)
(*                                                                         *)
(* Every instance that exists is charged to an execution.  One that lists  *)
(* no more than desired instances takes them all upon itself; one that     *)
(* lists more will create none.  Either way it creates what is missing at  *)
(* most, and since the listing its share can only have become smaller.     *)
(***************************************************************************)
EXTENDS ClusterizationProofs, Counting

\* How many of the instances that exist are charged to s
Share(f, s) == Cardinality(Row(Backends, f, s))

\* No execution is charged more than d, with those it is about to create, nor
\* more than it has seen.
Shares(f, d) ==
    \A s \in Scalers :
        /\ Share(f, s) <= d
        /\ scale[s].at = "read" => Share(f, s) <= scale[s].backends
        /\ scale[s].at = "create" => /\ scale[s].missing > 0
                                     /\ Share(f, s) + scale[s].missing <= d

Shared(d) == \E f \in [Vms -> Scalers] : Shares(f, d)

------------------------------------------------------------------------------
(* Counting shares                                                          *)

LEMMA RowFacts ==
    ASSUME NEW S \in SUBSET Vms, NEW f, NEW s
    PROVE  /\ IsFiniteSet(Row(S, f, s)) /\ Cardinality(Row(S, f, s)) \in Nat
           /\ \A R \in SUBSET S :
                /\ Cardinality(Row(R, f, s)) \in Nat
                /\ Cardinality(Row(R, f, s)) <= Cardinality(Row(S, f, s))
<1>1. \A R \in SUBSET Vms : /\ IsFiniteSet(Row(R, f, s))
                            /\ Cardinality(Row(R, f, s)) \in Nat
  BY VmsAssumption, FS_Subset, FS_CardinalityType DEF Row
<1>2. \A R \in SUBSET S : Row(R, f, s) \in SUBSET Row(S, f, s)
  BY DEF Row
<1> QED
  BY <1>1, <1>2, FS_Subset

LEMMA ShareType ==
    ASSUME NEW f, NEW s
    PROVE  Share(f, s) \in Nat /\ Share(f, s)' \in Nat
<1>1. Backends \in SUBSET Vms /\ Backends' \in SUBSET Vms
  BY DEF Backends
<1> QED
  BY <1>1, RowFacts DEF Share

LEMMA ShareShrinks ==
    ASSUME NEW f, NEW s, Backends' \subseteq Backends
    PROVE  Share(f, s)' <= Share(f, s)
<1>1. Backends \in SUBSET Vms /\ Backends' \in SUBSET Backends
  BY DEF Backends
<1> QED
  BY <1>1, RowFacts DEF Share

\* Nothing is created, and whoever is about to create has not moved.
LEMMA SharesFrame ==
    ASSUME NEW f, NEW d \in Nat, TypeOK, TypeOK', Shares(f, d),
           Backends' \subseteq Backends,
           \A s \in Scalers : \/ scale'[s] = scale[s]
                              \/ scale'[s].at \in {"off", "list"}
    PROVE  Shares(f, d)'
<1> SUFFICES ASSUME NEW s \in Scalers
             PROVE  /\ Share(f, s)' <= d
                    /\ scale'[s].at = "read" => Share(f, s)' <= scale'[s].backends
                    /\ scale'[s].at = "create" =>
                         /\ scale'[s].missing > 0
                         /\ Share(f, s)' + scale'[s].missing <= d
  BY DEF Shares
<1>1. Share(f, s) \in Nat /\ Share(f, s)' \in Nat /\ Share(f, s)' <= Share(f, s)
  BY ShareType, ShareShrinks
<1>2. scale[s].missing \in Nat /\ scale[s].backends \in Nat
  BY DEF TypeOK
<1> QED
  BY <1>1, <1>2 DEF Shares

LEMMA SharesGrow ==
    ASSUME NEW f, NEW d \in Nat, NEW e \in Nat, d <= e, TypeOK, Shares(f, d)
    PROVE  Shares(f, e)
<1>1. \A s \in Scalers : Share(f, s) \in Nat /\ scale[s].missing \in Nat
  BY ShareType DEF TypeOK
<1> QED
  BY <1>1 DEF Shares

\* The instances of all shares
LEMMA SharedCount ==
    ASSUME NEW d \in Nat, Shared(d)
    PROVE  Cardinality(Backends) <= Cardinality(Scalers) * d
<1>1. PICK f \in [Vms -> Scalers] : Shares(f, d)
  BY DEF Shared
<1> DEFINE g == [v \in Backends |-> f[v]]
<1>2. Backends \subseteq Vms /\ IsFiniteSet(Backends)
  BY VmsAssumption, FS_Subset DEF Backends
<1>3. g \in [Backends -> Scalers]
  BY <1>2
<1>4. \A s \in Scalers : Row(Backends, g, s) = Row(Backends, f, s)
  BY DEF Row
<1>5. \A s \in Scalers : Cardinality(Row(Backends, g, s)) <= d
  BY <1>1, <1>4 DEF Shares, Share
<1> QED
  BY <1>2, <1>3, <1>5, ScalersAssumption, RowsCount

------------------------------------------------------------------------------
(* Steps                                                                    *)

\* Only scale_up creates instances.
LEMMA VmsFrame ==
    ASSUME TypeOK, NEW v \in Vms, VmStep(v) \/ Fault(v) \/ Loss(v)
    PROVE  Backends' \subseteq Backends /\ UNCHANGED <<scale, desired>>
<1>1. /\ pc[v] \notin {"absent", "gone"} /\ UNCHANGED <<scale, desired>>
      /\ \E to : Goto(v, to)
  <2>1. CASE VmStep(v)
    BY <2>1
    DEF VmStep, FetchDeployScript, FetchJoinScript, DeploySucceeds, StartupEnds,
        CallClusterize, AddInstance, AppendInstance, RefuseExtra,
        TerminateExtra, SelfDelete, SetDeletionProtection, Wait, GenerateScript,
        SetPassword, FormCluster, LockAndRead, AddAllToGroup,
        AddInstancesToGroup, Commit, WriteClusterized, JoinCluster,
        ProtectJoined, AddJoinedToGroup, Step, state
  <2>2. CASE Fault(v)
    BY <2>2
    DEF Fault, BootFails, DeployFails, JoinFails, AddUnacknowledged,
        AppendInstance, CommitUnacknowledged, WriteClusterized, AddFails,
        TerminateExtraFails, ProtectionFails, AdminSecretFails,
        DeploymentSecretFails, SetPassword, FormFails, AddSomeToGroup,
        AddInstancesToGroup, FinalizationFails, JoinFinalizationFails, Step,
        state, Finalizing
  <2>3. CASE Loss(v)
    BY <2>3
    DEF Loss, ClusterizeUnanswered, FinalizationUnanswered, CommitUnanswered,
        WriteClusterized, Retry, state, Clusterizing, Finalizing
  <2> QED
    BY <2>1, <2>2, <2>3
<1>2. \A u \in Vms \ {v} : pc'[u] = pc[u]
  BY <1>1 DEF Goto, TypeOK
<1> QED
  BY <1>1, <1>2 DEF Backends, Exists

\* An execution that finds no more than d instances takes them upon itself.
LEMMA ListShared ==
    ASSUME NEW d \in Nat, TypeOK, TypeOK', Shared(d), NEW s \in Scalers,
           ListBackends(s)
    PROVE  Shared(d)'
<1>1. PICK f \in [Vms -> Scalers] : Shares(f, d)
  BY DEF Shared
<1>2. /\ UNCHANGED <<pc, desired>> /\ Backends' = Backends
      /\ \A t \in Scalers \ {s} : scale'[t] = scale[t]
      /\ scale'[s].at = "read" /\ scale'[s].backends = Cardinality(Backends)
  BY DEF ListBackends, ScaleTo, local, state, TypeOK, Backends, Exists
<1>3. Cardinality(Backends) \in Nat
  BY BackendsCount
<1>4. Backends \in SUBSET Vms /\ IsFiniteSet(Backends)
  BY VmsAssumption, FS_Subset DEF Backends
<1>5. CASE Cardinality(Backends) <= d
  <2> DEFINE g == [v \in Vms |-> s]
  <2>1. Row(Backends, g, s) = Backends
    BY <1>4 DEF Row
  <2>2. \A t \in Scalers \ {s} : Row(Backends, g, t) = {}
    BY <1>4 DEF Row
  <2> HIDE DEF g
  <2>3. Share(g, s)' = Cardinality(Backends)
    BY <1>2, <2>1 DEF Share
  <2>4. \A t \in Scalers \ {s} : Share(g, t)' = 0
    BY <1>2, <2>2, FS_EmptySet DEF Share
  <2>5. ASSUME NEW t \in Scalers \ {s}
        PROVE  /\ Share(g, t)' <= d
               /\ scale'[t].at = "read" => Share(g, t)' <= scale'[t].backends
               /\ scale'[t].at = "create" => /\ scale'[t].missing > 0
                                             /\ Share(g, t)' + scale'[t].missing <= d
    <3>1. Share(f, t) \in Nat /\ scale[t].missing \in Nat /\ scale[t].backends \in Nat
      BY ShareType DEF TypeOK
    <3> QED
      BY <1>1, <1>2, <2>4, <3>1 DEF Shares
  <2>6. Shares(g, d)'
    BY <1>2, <1>3, <1>5, <2>3, <2>5 DEF Shares
  <2> QED
    BY <2>6 DEF g, Shared
<1>6. CASE Cardinality(Backends) > d
  <2>1. \A t \in Scalers : Share(f, t)' = Share(f, t)
    BY <1>2 DEF Share
  <2>2. Share(f, s) <= Cardinality(Backends)
    <3>1. Share(f, s) <= d /\ Share(f, s) \in Nat
      BY <1>1, ShareType DEF Shares
    <3> QED
      BY <1>3, <1>6, <3>1
  <2>3. Shares(f, d)'
    BY <1>1, <1>2, <2>1, <2>2 DEF Shares
  <2> QED
    BY <2>3 DEF Shared
<1> QED
  BY <1>3, <1>5, <1>6

\* What is missing fits, as desired_size is not more than d.
LEMMA ReadShared ==
    ASSUME NEW d \in Nat, desired <= d, TypeOK, TypeOK', Shared(d),
           NEW s \in Scalers, ReadDesiredSize(s)
    PROVE  Shared(d)'
<1>1. PICK f \in [Vms -> Scalers] : Shares(f, d)
  BY DEF Shared
<1>2. /\ scale[s].at = "read" /\ Backends' = Backends
      /\ \A t \in Scalers \ {s} : scale'[t] = scale[t]
      /\ \/ scale'[s] = Off
         \/ /\ Missing(s) # 0
            /\ scale'[s] = [at |-> "create", backends |-> 0, missing |-> Missing(s)]
  BY DEF ReadDesiredSize, ScaleTo, local, TypeOK, Backends, Exists
<1>3. \A t \in Scalers : Share(f, t)' = Share(f, t) /\ Share(f, t) \in Nat
  BY <1>2, ShareType DEF Share
<1>4. scale[s].backends \in Nat /\ desired \in Nat
  BY DEF TypeOK
<1>5. Share(f, s) <= scale[s].backends /\ Share(f, s) <= d
  BY <1>1, <1>2 DEF Shares
<1>6. Missing(s) # 0 => Missing(s) > 0 /\ Share(f, s) + Missing(s) <= d
  BY <1>3, <1>4, <1>5 DEF Missing
<1>7. /\ Share(f, s)' <= d
      /\ scale'[s].at = "read" => Share(f, s)' <= scale'[s].backends
      /\ scale'[s].at = "create" => /\ scale'[s].missing > 0
                                    /\ Share(f, s)' + scale'[s].missing <= d
  BY <1>2, <1>3, <1>5, <1>6 DEF Off
<1>8. Shares(f, d)'
  BY <1>1, <1>2, <1>3, <1>7 DEF Shares
<1> QED
  BY <1>8 DEF Shared

\* The instance is charged to the execution that creates it.
LEMMA CreateShared ==
    ASSUME NEW d \in Nat, TypeOK, TypeOK', Shared(d), NEW s \in Scalers,
           CreateBackend(s)
    PROVE  Shared(d)'
<1>1. PICK f \in [Vms -> Scalers] : Shares(f, d)
  BY DEF Shared
<1>2. PICK v \in Vms : pc[v] = "absent" /\ Goto(v, "boot")
  BY DEF CreateBackend
<1> DEFINE g == [f EXCEPT ![v] = s]
<1>3. Backends \in SUBSET Vms /\ v \notin Backends /\ Backends' = Backends \cup {v}
  <2>1. pc'[v] = "boot" /\ \A u \in Vms \ {v} : pc'[u] = pc[u]
    BY <1>2 DEF Goto, TypeOK
  <2>2. \A u \in Vms : u \in Backends' <=> u \in Backends \/ u = v
    BY <1>2, <2>1 DEF Backends, Exists
  <2> QED
    BY <1>2, <2>2 DEF Backends, Exists
<1>4. g \in [Vms -> Scalers]
  OBVIOUS
<1>5. /\ Row(Backends', g, s) = Row(Backends, f, s) \cup {v}
      /\ v \notin Row(Backends, f, s)
      /\ \A t \in Scalers \ {s} : Row(Backends', g, t) = Row(Backends, f, t)
  BY <1>3 DEF Row
<1> HIDE DEF g
<1>6. Share(g, s)' = Share(f, s) + 1
  <2> DEFINE R == Row(Backends, f, s)
  <2>1. IsFiniteSet(R) /\ v \notin R
    BY <1>3, <1>5, RowFacts
  <2> HIDE DEF R
  <2>2. Cardinality(R \cup {v}) = Cardinality(R) + 1
    BY <2>1, FS_AddElement
  <2> QED
    BY <1>5, <2>2 DEF R, Share
<1>7. \A t \in Scalers \ {s} : Share(g, t)' = Share(f, t)
  BY <1>5 DEF Share
<1>8. /\ scale[s].at = "create"
      /\ \A t \in Scalers \ {s} : scale'[t] = scale[t]
      /\ scale'[s] = IF scale[s].missing > 1
                       THEN [at |-> "create", backends |-> 0,
                             missing |-> scale[s].missing - 1]
                       ELSE Off
  BY DEF CreateBackend, TypeOK
<1>9. Share(f, s) \in Nat /\ scale[s].missing \in Nat
  BY ShareType DEF TypeOK
<1>10. scale[s].missing > 0 /\ Share(f, s) + scale[s].missing <= d
  BY <1>1, <1>8 DEF Shares
<1>11. /\ Share(g, s)' <= d
       /\ scale'[s].at = "read" => Share(g, s)' <= scale'[s].backends
       /\ scale'[s].at = "create" => /\ scale'[s].missing > 0
                                     /\ Share(g, s)' + scale'[s].missing <= d
  BY <1>6, <1>8, <1>9, <1>10 DEF Off
<1>12. Shares(g, d)'
  BY <1>1, <1>7, <1>8, <1>11 DEF Shares
<1> QED
  BY <1>4, <1>12 DEF Shared

LEMMA NextShared ==
    ASSUME NEW d \in Nat, desired <= d, TypeOK, Shared(d), [Next]_vars
    PROVE  Shared(d)'
<1>1. TypeOK'
  BY NextType
<1>2. ASSUME Backends' \subseteq Backends,
             \A s \in Scalers : \/ scale'[s] = scale[s]
                                \/ scale'[s].at \in {"off", "list"}
      PROVE  Shared(d)'
  BY <1>1, <1>2, SharesFrame DEF Shared
<1>3. ASSUME NEW v \in Vms, VmStep(v) \/ Fault(v) \/ Loss(v)
      PROVE  Shared(d)'
  BY <1>2, <1>3, VmsFrame
<1>4. ASSUME NEW s \in Scalers, StartScaleUp(s) \/ ScaleUpFails(s)
      PROVE  Shared(d)'
  <2>1. /\ UNCHANGED pc /\ scale'[s].at \in {"off", "list"}
        /\ \A t \in Scalers \ {s} : scale'[t] = scale[t]
    BY <1>4 DEF StartScaleUp, ScaleUpFails, ScaleTo, local, TypeOK, Off
  <2> QED
    BY <1>2, <2>1 DEF Backends, Exists
<1>5. CASE DeleteStaleLock \/ UNCHANGED vars \/ \E size \in Sizes : Resize(size)
  <2>1. UNCHANGED <<pc, scale>>
    BY <1>5 DEF DeleteStaleLock, Resize, vars, local
  <2> QED
    BY <1>2, <2>1 DEF Backends, Exists
<1> QED
  BY <1>1, <1>3, <1>4, <1>5, ListShared, ReadShared, CreateShared
  DEF Next, SteadyNext, ScaleStep

LEMMA InitShared ==
    ASSUME NEW d \in Nat, Init
    PROVE  Shared(d)
<1>1. PICK s \in Scalers : TRUE
  BY ScalersAssumption
<1> DEFINE f == [v \in Vms |-> s]
<1>2. \A S : Row({}, f, S) = {}
  BY DEF Row
<1>3. Backends = {}
  BY DEF Init, Backends, Exists
<1>4. \A t \in Scalers : Share(f, t) = 0
  BY <1>2, <1>3, FS_EmptySet DEF Share
<1> HIDE DEF f
<1>5. Shares(f, d)
  BY <1>4 DEF Shares, Init, Off
<1>6. f \in [Vms -> Scalers]
  BY DEF f
<1> QED
  BY <1>5, <1>6 DEF Shared

------------------------------------------------------------------------------
(* Theorems                                                                 *)

\* Nobody asks for a smaller cluster.
NeverShrinks == [][desired' >= desired]_vars

\* As long as nobody asks for a smaller cluster, there are no more than desired
\* instances for each of the executions of scale_up that overlap: no more than
\* desired when they do not.
THEOREM GrowthCorrect == Spec /\ NeverShrinks => []NoOvershoot
<1> DEFINE Inv == TypeOK /\ \E d \in Nat : d = desired /\ Shared(d)
<1>1. Init => Inv
  BY InitTypeOK, InitShared DEF TypeOK
<1>2. Inv /\ [Next]_vars /\ [desired' >= desired]_vars => Inv'
  <2> SUFFICES ASSUME Inv, [Next]_vars, [desired' >= desired]_vars PROVE Inv'
    OBVIOUS
  <2>1. TypeOK'
    BY NextType
  <2>2. PICK d \in Nat : d = desired /\ Shared(d)
    OBVIOUS
  <2>3. PICK e \in Nat : e = desired'
    BY <2>1 DEF TypeOK
  <2>4. d <= e
    BY <2>2, <2>3 DEF vars, state
  <2>5. Shared(d)'
    BY <2>2, NextShared
  <2>6. Shared(e)'
    <3>1. PICK f \in [Vms -> Scalers] : Shares(f, d)'
      BY <2>5 DEF Shared
    <3>2. \A s \in Scalers : Share(f, s)' \in Nat /\ scale'[s].missing \in Nat
      BY <2>1, ShareType DEF TypeOK
    <3>3. Shares(f, e)'
      BY <2>4, <3>1, <3>2 DEF Shares
    <3> QED
      BY <3>3 DEF Shared
  <2> QED
    BY <2>1, <2>3, <2>6
<1>3. Inv => NoOvershoot
  BY SharedCount DEF NoOvershoot
<1> QED
  BY <1>1, <1>2, <1>3, PTL DEF Spec, NeverShrinks

\* Whatever sizes are asked for, larger and smaller ones in any order: if none
\* exceeds d, no more than d instances exist for each execution that overlaps.
THEOREM GrowthBounded ==
    ASSUME NEW d \in Nat, Target <= d, \A size \in Sizes : size <= d
    PROVE  Spec => [](Cardinality(Backends) <= Cardinality(Scalers) * d)
<1> DEFINE Inv == TypeOK /\ desired <= d /\ Shared(d)
<1>1. Init => Inv
  BY InitTypeOK, InitShared DEF Init
<1>2. Inv /\ [Next]_vars => Inv'
  <2> SUFFICES ASSUME Inv, [Next]_vars PROVE Inv'
    OBVIOUS
  <2>1. TypeOK' /\ Shared(d)'
    BY NextType, NextShared
  <2>2. \/ desired' = desired
        \/ \E size \in Sizes : Resize(size)
    <3>1. ASSUME NEW s \in Scalers, ScaleStep(s) \/ ScaleUpFails(s)
          PROVE  desired' = desired
      BY <3>1 DEF ScaleStep, StartScaleUp, ListBackends, ReadDesiredSize,
                  CreateBackend, ScaleUpFails, ScaleTo, state
    <3>2. CASE DeleteStaleLock \/ UNCHANGED vars
      BY <3>2 DEF DeleteStaleLock, vars, state
    <3> QED
      BY <3>1, <3>2, VmsFrame DEF Next, SteadyNext
  <2>3. desired' <= d
    BY <2>2 DEF Resize
  <2> QED
    BY <2>1, <2>3
<1>3. Inv => Cardinality(Backends) <= Cardinality(Scalers) * d
  BY SharedCount
<1> QED
  BY <1>1, <1>2, <1>3, PTL DEF Spec
=============================================================================
