---------------------- MODULE ClusterTerminationProofs ----------------------
(***************************************************************************)
(* Type correctness of ClusterTermination, and that a terminated cluster   *)
(* stays terminated.                                                       *)
(***************************************************************************)
EXTENDS ClusterTermination, FiniteSetTheorems, TLAPS

USE KindAssumption, SizeAssumption, FiniteAssumption

\* The kinds are those of the state objects and of the machines' labels.
LEMMA KindFacts ==
    /\ "backends" \in Kinds
    /\ Kinds \subseteq {"backends", "nfs"}
    /\ DOMAIN Order \subseteq Nat
    /\ 1 \in DOMAIN Order
    /\ \A i \in DOMAIN Order : Order[i] \in Kinds
    /\ \A i \in DOMAIN Order : i < Len(Order) => i + 1 \in DOMAIN Order
<1>1. CASE Order = <<"backends">>
  <2>1. DOMAIN Order = {1} /\ Order[1] = "backends" /\ Len(Order) = 1
    BY <1>1
  <2> QED BY <2>1 DEF Kinds
<1>2. CASE Order = <<"nfs", "backends">>
  <2>1. /\ DOMAIN Order = {1, 2} /\ Order[1] = "nfs" /\ Order[2] = "backends"
        /\ Len(Order) = 2
    BY <1>2
  <2> QED BY <2>1 DEF Kinds
<1> QED BY <1>1, <1>2

LEMMA Numbers ==
    /\ Size \in Nat \ {0} /\ Cardinality(Names) \in Nat
    /\ Calls \in Nat /\ Failures \in Nat
    /\ 0 \in 0 .. Size
    /\ 0 .. Cardinality(Names) \subseteq 0 .. Cardinality(Names) + Size
    /\ 0 .. Size \subseteq 0 .. Cardinality(Names) + Size
<1>1. Cardinality(Names) \in Nat
  BY FS_CardinalityType
<1> QED BY <1>1

\* What executions and calls go on with
LEMMA NextFacts ==
    ASSUME TypeOK
    PROVE  /\ Idle \in Updates /\ Off \in Executions /\ Done \in Terminations
           /\ Continue \in Terminations /\ Kind \in Kinds
           /\ \A k \in Kinds : /\ NextKind(k) \in Executions
                               /\ NextKind(k).at # "create"
                               /\ Cardinality(Machines(k)) \in 0 .. Cardinality(Names)
<1> USE KindFacts, Numbers
<1>1. Idle \in Updates /\ Off \in Executions /\ Done \in Terminations
  BY DEF Idle, Off, Done, Updates, Executions, Terminations
<1>2. call \in Terminations
  BY DEF TypeOK
<1>3. Kind \in Kinds
  BY <1>2 DEF Terminations, Kind
<1>4. Continue \in Terminations
  BY <1>1, <1>2 DEF Terminations, Continue, Done
<1>5. ASSUME NEW k \in Kinds
      PROVE  NextKind(k) \in Executions /\ NextKind(k).at # "create"
  <2>1. Off.at # "create" /\ [Off EXCEPT !.at = "list", !.kind = "nfs"].at # "create"
    BY DEF Off
  <2>2. "nfs" \in Kinds => [Off EXCEPT !.at = "list", !.kind = "nfs"] \in Executions
    BY <1>1 DEF Executions
  <2> QED BY <1>1, <2>1, <2>2 DEF NextKind
<1>6. ASSUME NEW k \in Kinds
      PROVE  Cardinality(Machines(k)) \in 0 .. Cardinality(Names)
  <2>1. Machines(k) \subseteq Names
    BY DEF Machines
  <2>2. /\ IsFiniteSet(Machines(k))
        /\ Cardinality(Machines(k)) <= Cardinality(Names)
    BY <2>1, FS_Subset
  <2>3. Cardinality(Machines(k)) \in Nat
    BY <2>2, FS_CardinalityType
  <2> QED BY <2>2, <2>3
<1> QED BY <1>1, <1>3, <1>4, <1>5, <1>6

LEMMA TypeInit == Init => TypeOK
<1> SUFFICES ASSUME Init PROVE TypeOK
  OBVIOUS
<1> USE KindFacts, Numbers
<1>1. Idle \in Updates /\ Off \in Executions /\ Done \in Terminations
  BY DEF Idle, Off, Done, Updates, Executions, Terminations
<1>2. object \in [Kinds -> 0 .. Size \cup {None}]
  BY DEF Init
<1>3. machine \in [Names -> Kinds \cup {"absent", "gone"}]
  BY DEF Init
<1> QED BY <1>1, <1>2, <1>3 DEF Init, TypeOK, Exists

\* The three shapes of steps
LEMMA HandlerStepType ==
    ASSUME TypeOK, NEW h \in Handlers, NEW to \in Updates,
           NEW newLock \in Handlers \cup {None}, HandlerStep(h, to, newLock),
           object' \in [Kinds -> 0 .. Size \cup {None}]
    PROVE  TypeOK'
BY DEF TypeOK, HandlerStep

LEMMA ScaleToType ==
    ASSUME TypeOK, NEW s \in Scalers, NEW to \in Executions, ScaleTo(s, to),
           machine' \in [Names -> Kinds \cup {"absent", "gone"}],
           installing' \subseteq Names
    PROVE  TypeOK'
BY DEF TypeOK, ScaleTo

LEMMA CallToType ==
    ASSUME TypeOK, NEW to \in Terminations, CallTo(to),
           object' \in [Kinds -> 0 .. Size \cup {None}],
           machine' \in [Names -> Kinds \cup {"absent", "gone"}],
           protected' \subseteq Names, failures' \in 0 .. Failures
    PROVE  TypeOK'
BY DEF TypeOK, CallTo

LEMMA TypeHandlers ==
    ASSUME TypeOK, NEW h \in Handlers, HandlerNext(h)
    PROVE  TypeOK'
<1> USE Numbers
<1>1. /\ handler[h] \in Updates
      /\ object \in [Kinds -> 0 .. Size \cup {None}]
      /\ h \in Handlers \cup {None} /\ None \in Handlers \cup {None}
      /\ Idle \in Updates
  BY NextFacts DEF TypeOK
<1>2. ASSUME NEW k \in Kinds, StartUpdate(h, k) PROVE TypeOK'
  <2>1. [at |-> "read", kind |-> k, size |-> 0] \in Updates
    BY DEF Updates
  <2>2. calls + 1 \in 0 .. Calls
    BY <1>2 DEF StartUpdate, TypeOK
  <2> QED BY <1>2, <2>1, <2>2 DEF StartUpdate, TypeOK
<1>3. CASE Read(h)
  <2>1. handler[h].kind \in Kinds
    BY <1>1 DEF Updates
  <2>2. object[handler[h].kind] \in 0 .. Size \cup {None}
    BY <1>1, <2>1
  <2>3. ReadState(handler[h].kind) \in 0 .. Size
    BY <2>2 DEF ReadState
  <2>4. [handler[h] EXCEPT !.at = "write", !.size = ReadState(handler[h].kind)]
          \in Updates
    BY <1>1, <2>3 DEF Updates
  <2> QED BY <1>1, <1>3, <2>4, HandlerStepType DEF Read
<1>4. CASE ReadFails(h)
  <2>1. [handler[h] EXCEPT !.at = "write", !.size = 0] \in Updates
    <3>1. 0 \in 0 .. Size
      BY Numbers
    <3> QED BY <1>1, <3>1 DEF Updates
  <2> QED BY <1>1, <1>4, <2>1, HandlerStepType DEF ReadFails
<1>5. CASE Write(h)
  <2>1. object' \in [Kinds -> 0 .. Size \cup {None}]
    <3>1. handler[h].size \in 0 .. Size
      BY <1>1 DEF Updates
    <3> QED BY <1>1, <1>5, <3>1 DEF Write
  <2> QED BY <1>1, <1>5, <2>1, HandlerStepType DEF Write
<1>6. CASE WriteFails(h)
  BY <1>1, <1>6, HandlerStepType DEF WriteFails
<1> QED BY <1>2, <1>3, <1>4, <1>5, <1>6 DEF HandlerNext

LEMMA TypeScalers ==
    ASSUME TypeOK, NEW s \in Scalers, ScaleNext(s)
    PROVE  TypeOK'
<1> USE Numbers
<1>1. /\ exec[s] \in Executions
      /\ machine \in [Names -> Kinds \cup {"absent", "gone"}]
      /\ installing \subseteq Names
      /\ Off \in Executions
  BY NextFacts DEF TypeOK
<1>2. exec[s].kind \in Kinds /\ NextKind(exec[s].kind) \in Executions
  BY <1>1, NextFacts DEF Executions
<1>3. CASE StartScaleUp(s)
  <2>1. [Off EXCEPT !.at = "list"] \in Executions
    BY <1>1 DEF Executions
  <2> QED BY <1>1, <1>3, <2>1, ScaleToType DEF StartScaleUp
<1>4. CASE List(s)
  <2>1. Cardinality(Machines(exec[s].kind)) \in 0 .. Cardinality(Names)
    BY <1>2, NextFacts
  <2>2. [exec[s] EXCEPT !.at = "read",
                        !.number = Cardinality(Machines(exec[s].kind))]
          \in Executions
    <3>1. Cardinality(Machines(exec[s].kind)) \in 0 .. Cardinality(Names) + Size
      BY <2>1
    <3> QED BY <1>1, <3>1 DEF Executions
  <2> QED BY <1>1, <1>4, <2>2, ScaleToType DEF List
<1>5. CASE ReadDesiredSize(s)
  <2>1. object[exec[s].kind] \in 0 .. Size
    BY <1>2, <1>5 DEF ReadDesiredSize, TypeOK
  <2>2. exec[s].number \in Nat
    BY <1>1 DEF Executions
  <2>3. ASSUME exec[s].number < object[exec[s].kind]
        PROVE  [exec[s] EXCEPT !.at = "create",
                  !.number = object[exec[s].kind] - exec[s].number] \in Executions
    <3>1. object[exec[s].kind] - exec[s].number \in 0 .. Cardinality(Names) + Size
      BY <2>1, <2>2, <2>3
    <3> QED BY <1>1, <3>1 DEF Executions
  <2> DEFINE to == IF exec[s].number < object[exec[s].kind]
                     THEN [exec[s] EXCEPT !.at = "create",
                             !.number = object[exec[s].kind] - exec[s].number]
                     ELSE NextKind(exec[s].kind)
  <2>4. to \in Executions
    BY <1>2, <2>3
  <2>5. ScaleTo(s, to) /\ UNCHANGED <<machine, installing>>
    BY <1>5 DEF ReadDesiredSize
  <2> HIDE DEF to
  <2> QED BY <1>1, <2>4, <2>5, ScaleToType
<1>6. CASE Create(s)
  <2> DEFINE to == IF exec[s].number > 1
                     THEN [exec[s] EXCEPT !.number = exec[s].number - 1]
                     ELSE NextKind(exec[s].kind)
  <2>1. to \in Executions
    BY <1>1, <1>2 DEF Executions
  <2>2. ScaleTo(s, to)
    BY <1>6 DEF Create
  <2>3. /\ machine' \in [Names -> Kinds \cup {"absent", "gone"}]
        /\ installing' \subseteq Names
    BY <1>1, <1>2, <1>6 DEF Create
  <2> HIDE DEF to
  <2> QED BY <2>1, <2>2, <2>3, ScaleToType
<1>7. CASE ScaleUpFails(s)
  BY <1>1, <1>7, ScaleToType DEF ScaleUpFails
<1> QED BY <1>3, <1>4, <1>5, <1>6, <1>7 DEF ScaleNext

LEMMA TypeCall ==
    ASSUME TypeOK, Terminate \/ TerminateFails
    PROVE  TypeOK'
<1> USE Numbers
<1>1. /\ call \in Terminations /\ Done \in Terminations
      /\ Continue \in Terminations /\ Kind \in Kinds
      /\ object \in [Kinds -> 0 .. Size \cup {None}]
      /\ machine \in [Names -> Kinds \cup {"absent", "gone"}]
      /\ protected \subseteq Names /\ failures \in 0 .. Failures
  BY NextFacts DEF TypeOK
<1>2. ASSUME NEW to \in Terminations, Fails(to) PROVE TypeOK'
  BY <1>1, <1>2, CallToType DEF Fails
<1>3. ASSUME NEW to \in Terminations, Succeeds(to),
             UNCHANGED <<object, machine, protected>>
      PROVE  TypeOK'
  BY <1>1, <1>3, CallToType DEF Succeeds
<1>4. /\ [Done EXCEPT !.at = "state"] \in Terminations
      /\ \A at \in {"list", "delete"} : [call EXCEPT !.at = at] \in Terminations
      /\ [call EXCEPT !.at = "unprotect", !.todo = Machines(Kind)] \in Terminations
  BY <1>1 DEF Terminations, Machines
<1>5. ASSUME NEW n \in Names
      PROVE  /\ [call EXCEPT !.todo = call.todo \ {n}] \in Terminations
             /\ [call EXCEPT !.todo = call.todo \ {n},
                             !.listed = call.listed \cup {n}] \in Terminations
             /\ Rest(n) \in Terminations
  <2>1. /\ call.todo \ {n} \in SUBSET Names /\ call.listed \ {n} \in SUBSET Names
        /\ call.listed \cup {n} \in SUBSET Names
    BY <1>1 DEF Terminations
  <2>2. [call EXCEPT !.listed = call.listed \ {n}] \in Terminations
    BY <1>1, <2>1 DEF Terminations
  <2>3. Rest(n) \in Terminations
    BY <1>1, <2>2 DEF Rest
  <2>4. [call EXCEPT !.todo = call.todo \ {n}] \in Terminations
    BY <1>1, <2>1 DEF Terminations
  <2>5. [call EXCEPT !.todo = call.todo \ {n},
                     !.listed = call.listed \cup {n}] \in Terminations
    BY <1>1, <2>1 DEF Terminations
  <2> QED BY <2>3, <2>4, <2>5
<1>6. CASE StartTermination
  BY <1>3, <1>4, <1>6 DEF StartTermination
<1>7. CASE DeleteStateObject
  <2>1. object' \in [Kinds -> 0 .. Size \cup {None}]
    BY <1>1, <1>7 DEF DeleteStateObject
  <2> QED BY <1>1, <1>4, <1>7, <2>1, CallToType DEF DeleteStateObject, Succeeds
<1>8. CASE ListMachines
  BY <1>3, <1>4, <1>8 DEF ListMachines
<1>9. CASE AllUnprotected
  BY <1>1, <1>3, <1>4, <1>9 DEF AllUnprotected
<1>10. ASSUME NEW n \in Names, Unprotect(n) \/ Delete(n) PROVE TypeOK'
  <2>1. /\ protected' \subseteq Names
        /\ machine' \in [Names -> Kinds \cup {"absent", "gone"}]
        /\ UNCHANGED <<object, failures>>
    BY <1>1, <1>10 DEF Unprotect, Delete, Succeeds
  <2> QED BY <1>1, <1>5, <1>10, <2>1, CallToType DEF Unprotect, Delete, Succeeds
<1>11. ASSUME NEW n \in Names, UnprotectFails(n) \/ DeleteFails(n) PROVE TypeOK'
  BY <1>2, <1>5, <1>11 DEF UnprotectFails, DeleteFails
<1>12. CASE DeleteStateObjectFails \/ ListMachinesFails \/ TerminationDies
  BY <1>1, <1>2, <1>12
     DEF DeleteStateObjectFails, ListMachinesFails, TerminationDies
<1> QED BY <1>6, <1>7, <1>8, <1>9, <1>10, <1>11, <1>12
     DEF Terminate, TerminateFails

LEMMA TypeStep == TypeOK /\ [Next]_vars => TypeOK'
<1> SUFFICES ASSUME TypeOK, [Next]_vars PROVE TypeOK'
  OBVIOUS
<1>1. ASSUME NEW n \in Names, MachineNext(n) PROVE TypeOK'
  BY <1>1 DEF MachineNext, Protect, InstallationEnds, TypeOK
<1>2. CASE UNCHANGED vars
  BY <1>2 DEF vars, TypeOK
<1> QED BY <1>1, <1>2, TypeHandlers, TypeScalers, TypeCall DEF Next

\* Every variable of terminate_cluster and of what it meets keeps its type; calls
\* and failures keep within their bounds.
THEOREM TypeCorrect == Spec => []TypeOK
BY TypeInit, TypeStep, PTL DEF Spec

\* No step leaves a terminated cluster: who still runs has read nothing that is
\* wanted.
LEMMA TerminatedStep ==
    ASSUME TypeOK, [Next]_vars, Terminated
    PROVE  Terminated'
<1> USE DEF Terminated, Exists
<1>0. /\ "gone" \notin Kinds
      /\ \A s \in Scalers : /\ exec[s].kind \in Kinds /\ exec[s].number \in Nat
                            /\ NextKind(exec[s].kind).at # "create"
  <2>1. "gone" \notin Kinds
    BY KindFacts
  <2>2. ASSUME NEW s \in Scalers PROVE exec[s] \in Executions
    BY DEF TypeOK
  <2>3. ASSUME NEW s \in Scalers
        PROVE  exec[s].kind \in Kinds /\ exec[s].number \in Nat
    BY <2>2, Numbers DEF Executions
  <2> QED BY <2>1, <2>3, NextFacts
<1>1. ASSUME NEW h \in Handlers, HandlerNext(h) PROVE Terminated'
  <2>1. /\ handler \in [Handlers -> Updates]
        /\ object \in [Kinds -> 0 .. Size \cup {None}]
        /\ handler[h].kind \in Kinds
    BY DEF TypeOK, Updates
  <2>2. UNCHANGED <<machine, exec>>
    BY <1>1 DEF HandlerNext, StartUpdate, Read, ReadFails, Write, WriteFails,
                HandlerStep
  <2>3. \A k \in Kinds : object'[k] \in {0, None}
    BY <1>1, <2>1 DEF HandlerNext, StartUpdate, Read, ReadFails, Write, WriteFails,
                      HandlerStep
  <2>4. \A k \in Kinds : ReadState(k) = 0
    BY DEF ReadState
  <2>5. \E to \in Updates : to.size = 0 /\ handler' = [handler EXCEPT ![h] = to]
    <3>1. Idle \in Updates /\ Idle.size = 0
      BY NextFacts DEF Idle
    <3>2. /\ [handler[h] EXCEPT !.at = "write", !.size = 0] \in Updates
          /\ [handler[h] EXCEPT !.at = "write", !.size = 0].size = 0
      BY <2>1, Numbers DEF Updates
    <3>3. ASSUME NEW k \in Kinds
          PROVE  /\ [at |-> "read", kind |-> k, size |-> 0] \in Updates
                 /\ [at |-> "read", kind |-> k, size |-> 0].size = 0
      BY Numbers DEF Updates
    <3> QED BY <1>1, <2>1, <2>4, <3>1, <3>2, <3>3
         DEF HandlerNext, StartUpdate, Read, ReadFails, Write, WriteFails,
             HandlerStep
  <2>6. \A g \in Handlers : handler'[g].size = 0
    BY <2>1, <2>5
  <2> QED BY <2>2, <2>3, <2>6
<1>2. ASSUME NEW s \in Scalers, ScaleNext(s) PROVE Terminated'
  <2>1. CASE ReadDesiredSize(s)
    <3>1. object[exec[s].kind] = 0
      BY <1>0, <2>1 DEF ReadDesiredSize
    <3>2. ~(exec[s].number < object[exec[s].kind])
      BY <1>0, <3>1
    <3> QED BY <1>0, <2>1, <3>2 DEF ReadDesiredSize, ScaleTo, TypeOK
  <2>2. CASE StartScaleUp(s) \/ List(s) \/ ScaleUpFails(s)
    <3>1. exec \in [Scalers -> Executions] /\ UNCHANGED <<object, machine, handler>>
      BY <2>2 DEF StartScaleUp, List, ScaleUpFails, ScaleTo, TypeOK
    <3>2. \E to : to.at # "create" /\ exec' = [exec EXCEPT ![s] = to]
      <4>1. /\ Off.at # "create" /\ [Off EXCEPT !.at = "list"].at # "create"
            /\ [exec[s] EXCEPT !.at = "read",
                  !.number = Cardinality(Machines(exec[s].kind))].at # "create"
        BY <3>1 DEF Off, Executions
      <4> QED BY <2>2, <4>1 DEF StartScaleUp, List, ScaleUpFails, ScaleTo
    <3> QED BY <3>1, <3>2
  <2>3. ~Create(s)
    BY DEF Create
  <2> QED BY <1>2, <2>1, <2>2, <2>3 DEF ScaleNext
<1>3. ASSUME NEW n \in Names, MachineNext(n) PROVE Terminated'
  BY <1>3 DEF MachineNext, Protect, InstallationEnds
<1>4. CASE TerminateFails
  BY <1>4 DEF TerminateFails, DeleteStateObjectFails, ListMachinesFails,
     TerminationDies, UnprotectFails, DeleteFails, Fails, CallTo
<1>5. CASE Terminate
  <2>1. CASE DeleteStateObject
    BY <2>1 DEF DeleteStateObject, Succeeds, CallTo, TypeOK
  <2>2. CASE StartTermination \/ ListMachines \/ AllUnprotected
    BY <2>2 DEF StartTermination, ListMachines, AllUnprotected, Succeeds, CallTo
  <2>3. ASSUME NEW n \in Names, Unprotect(n) \/ Delete(n) PROVE Terminated'
    BY <1>0, <2>3 DEF Unprotect, Delete, Succeeds, CallTo, TypeOK
  <2> QED BY <1>5, <2>1, <2>2, <2>3 DEF Terminate
<1>6. CASE UNCHANGED vars
  BY <1>6 DEF vars
<1> QED BY <1>1, <1>2, <1>3, <1>4, <1>5, <1>6 DEF Next

\* Once nothing exists, is wanted or is remembered, no late report, retried call
\* or scale_up execution brings the cluster back, for any number of them.
THEOREM TerminationLasts == Spec => StaysTerminated
<1>1. TypeOK /\ [Next]_vars => [Terminated => Terminated']_vars
  BY TerminatedStep
<1> QED BY <1>1, TypeCorrect, PTL DEF Spec, StaysTerminated
=============================================================================
