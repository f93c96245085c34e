--------------------------- MODULE ScaleDownProofs ---------------------------
(***************************************************************************)
(* That members of the cluster are kept, that only unprotected ones go,    *)
(* and that scaling implements MemberLife, for any number of founders,     *)
(* instances and executions, whichever founders are protected, and any     *)
(* times with ExecTime < Grace.                                            *)
(***************************************************************************)
EXTENDS ScaleDown, FiniteSetTheorems, TLAPS

HasJoined(v) == status[v] \notin {"absent", "joining"}

\* Only instances that have joined come into the group.
GroupHasJoined == \A v \in group : HasJoined(v)

Compares(e) == exec[e].at \in {"scaled", "listed", "checked"}
Deletes(e) == exec[e].at \in {"picked", "unprotected"}

\* A member that the hosts of an execution do not name joined after they were
\* listed; unless it was late, it is still too young to be deleted.
HostsAreRecent ==
    \A e \in Execs :
        Compares(e) =>
            /\ exec[e].hosts # {} =>
                 \A v \in (weka \ late) \ exec[e].hosts :
                     age[v] + ExecTime < Grace + exec[e].time
            /\ exec[e].at # "scaled" => exec[e].hosts # {}

\* No member is chosen for deletion unless it was late, and none can become one.
ChosenAreLeftovers ==
    \A e \in Execs :
        Deletes(e) => \A v \in exec[e].names : v \notin weka \ late /\ HasJoined(v)

IndInv ==
    /\ TypeOK
    /\ MemberIsKept
    /\ GroupHasJoined
    /\ HostsAreRecent
    /\ ChosenAreLeftovers
------------------------------------------------------------------------------

\* The texts of scale_down's answer are never self links, so explicit removal
\* applies to no instance.
LEMMA NothingIsExplicit ==
    ASSUME TypeOK, NEW e \in Execs, NEW v \in Vms
    PROVE  ~SetForExplicitRemoval(e, v)
<1>1. exec[e].remove \subseteq {HgInstance(u) : u \in Vms}
  BY DEF TypeOK, ExecType
<1>2. \A u \in Vms : HgInstance(u).id # SelfLink(v)
  BY DEF HgInstance, SelfLink
<1> QED
  BY <1>1, <1>2 DEF SetForExplicitRemoval

LEMMA InitIndInv == Init => IndInv
<1>1. SUFFICES ASSUME Init PROVE IndInv
  OBVIOUS
<1>2. Cardinality(First) \in Nat
  BY VmsAssumption, FS_Subset, FS_CardinalityType
<1>3. TypeOK
  BY <1>1, <1>2, VmsAssumption, TimeAssumption DEF Init, TypeOK, ExecType, Off, Statuses
<1>4. MemberIsKept /\ GroupHasJoined
  BY <1>1, VmsAssumption, TimeAssumption
  DEF Init, MemberIsKept, Alive, GroupHasJoined, HasJoined
<1>5. HostsAreRecent /\ ChosenAreLeftovers
  BY <1>1 DEF Init, Off, HostsAreRecent, ChosenAreLeftovers, Compares, Deletes
<1> QED
  BY <1>3, <1>4, <1>5 DEF IndInv

------------------------------------------------------------------------------
(* Steps of instances                                                       *)

\* A change of one status that is no step back, and gives up no member.
LEMMA StatusStep ==
    ASSUME IndInv, NEW v \in Vms, NEW from \in Statuses, NEW to \in Statuses,
           SetStatus(v, from, to),
           UNCHANGED <<weka, protected, late>>,
           group' \subseteq group,
           to # "absent",
           Alive(v) => to \in {"running", "suspended"},
           v \in group => to # "joining",
           to = "joining" => from = "absent",
           HasJoined(v) => to # "joining"
    PROVE  IndInv'
<1> USE DEF IndInv, SetStatus
<1>1. TypeOK'
  BY DEF TypeOK
<1>2. \A u \in Vms : status'[u] = IF u = v THEN to ELSE status[u]
  BY DEF TypeOK
<1>3. MemberIsKept'
  BY <1>2 DEF MemberIsKept, Alive, TypeOK
<1>5. \A u \in Vms : HasJoined(u) => HasJoined(u)'
  BY <1>2 DEF HasJoined
<1>6. GroupHasJoined'
  BY <1>5 DEF GroupHasJoined, TypeOK
<1>7. HostsAreRecent'
  BY DEF HostsAreRecent, Compares
<1>8. ChosenAreLeftovers'
  BY <1>5 DEF ChosenAreLeftovers, Deletes, TypeOK, ExecType
<1> QED
  BY <1>1, <1>3, <1>6, <1>7, <1>8

LEMMA JoinStep ==
    ASSUME IndInv, NEW v \in Vms, Join(v)
    PROVE  IndInv'
<1> USE DEF IndInv, Join, SetStatus
<1>1. TypeOK'
  BY DEF TypeOK, Statuses
<1>2. /\ \A u \in Vms : status'[u] = IF u = v THEN "running" ELSE status[u]
      /\ ~HasJoined(v)
      /\ v \notin group
  BY DEF TypeOK, HasJoined, GroupHasJoined
<1>3. MemberIsKept'
  BY <1>2 DEF MemberIsKept, Alive, TypeOK
<1>5. \A u \in Vms : HasJoined(u) => HasJoined(u)'
  BY <1>2 DEF HasJoined
<1>6. GroupHasJoined'
  BY <1>5 DEF GroupHasJoined, TypeOK
<1>7. HostsAreRecent'
  <2>1. \A e \in Execs : v \notin late' => age[v] + ExecTime < Grace + exec[e].time
    BY TimeAssumption DEF TypeOK, ExecType
  <2> QED
    BY <2>1 DEF HostsAreRecent, Compares
<1>8. ChosenAreLeftovers'
  BY <1>2, <1>5 DEF ChosenAreLeftovers, Deletes, TypeOK, ExecType
<1> QED
  BY <1>1, <1>3, <1>6, <1>7, <1>8

LEMMA VmStepKeeps ==
    ASSUME IndInv, NEW v \in Vms, VmStep(v)
    PROVE  IndInv'
<1> USE DEF IndInv
<1>1. CASE Create(v)
  <2>1. ~Alive(v) /\ v \notin group /\ ~HasJoined(v)
    BY <1>1 DEF Create, SetStatus, Alive, GroupHasJoined, HasJoined
  <2> QED
    BY <1>1, <2>1, StatusStep DEF Create, Statuses
<1>2. CASE Join(v)
  BY <1>2, JoinStep
<1>3. CASE Protect(v)
  BY <1>3 DEF Protect, TypeOK, MemberIsKept, Alive, GroupHasJoined,
              HasJoined, HostsAreRecent, ChosenAreLeftovers, Compares, Deletes
<1>4. CASE AddToGroup(v)
  BY <1>4 DEF AddToGroup, machines, TypeOK, MemberIsKept, Alive,
              GroupHasJoined, HasJoined, HostsAreRecent, ChosenAreLeftovers,
              Compares, Deletes
<1>5. CASE Suspend(v)
  BY <1>5, StatusStep DEF Suspend, Statuses
<1>6. CASE Vanish(v)
  <2>1. ~Alive(v)
    BY <1>6 DEF Vanish, SetStatus, Alive
  <2> QED
    BY <1>6, <2>1, StatusStep DEF Vanish, Statuses
<1> QED
  BY <1>1, <1>2, <1>3, <1>4, <1>5, <1>6 DEF VmStep

LEMMA TickKeeps ==
    ASSUME IndInv, Tick
    PROVE  IndInv'
<1> USE TimeAssumption DEF IndInv, Tick
<1>1. /\ \A v \in Vms : age'[v] = IF Exists(v) /\ age[v] < Grace
                                    THEN age[v] + 1 ELSE age[v]
      /\ \A e \in Execs : exec[e].at # "off" =>
                            exec'[e] = [exec[e] EXCEPT !.time = @ + 1]
      /\ \A e \in Execs : exec[e].at = "off" => exec'[e] = Off
  BY DEF TypeOK
<1>2. TypeOK'
  <2>1. age' \in [Vms -> 0 .. Grace]
    BY DEF TypeOK
  <2>2. exec' \in [Execs -> ExecType]
    BY DEF TypeOK, ExecType, Off, InTime
  <2> QED
    BY <2>1, <2>2 DEF TypeOK
<1>3. MemberIsKept'
  BY DEF MemberIsKept, Alive
<1>5. GroupHasJoined'
  BY DEF GroupHasJoined, HasJoined
<1>6. \A e \in Execs :
         /\ exec'[e].at = exec[e].at
         /\ exec[e].at # "off" => /\ exec'[e].hosts = exec[e].hosts
                                  /\ exec'[e].names = exec[e].names
                                  /\ exec'[e].time = exec[e].time + 1
  BY <1>1 DEF TypeOK, ExecType, Off
<1>7. HostsAreRecent'
  <2>1. \A v \in Vms : age'[v] <= age[v] + 1 /\ age[v] \in Nat /\ age'[v] \in Nat
    BY <1>1 DEF TypeOK
  <2>2. \A e \in Execs : exec[e].time \in Nat
    BY DEF TypeOK, ExecType
  <2> QED
    BY <1>6, <2>1, <2>2 DEF HostsAreRecent, Compares, TypeOK
<1>8. ChosenAreLeftovers'
  BY <1>6 DEF ChosenAreLeftovers, Deletes, HasJoined, TypeOK
<1> QED
  BY <1>2, <1>3, <1>5, <1>7, <1>8

------------------------------------------------------------------------------
(* Steps of executions                                                      *)

\* What a new record of an execution has to satisfy after the step.
SoundAfter(to) ==
    /\ to.at \in {"scaled", "listed", "checked"} =>
         /\ to.hosts # {} =>
              \A v \in (weka' \ late') \ to.hosts :
                  age'[v] + ExecTime < Grace + to.time
         /\ to.at # "scaled" => to.hosts # {}
    /\ to.at \in {"picked", "unprotected"} =>
         \A v \in to.names : v \notin weka' \ late' /\ HasJoined(v)'

\* The record of one execution changes; the cluster may lose members.
LEMMA RecordStep ==
    ASSUME IndInv, NEW e \in Execs, NEW to \in ExecType,
           exec' = [exec EXCEPT ![e] = to],
           weka' \subseteq weka,
           UNCHANGED <<desired, group, machines>>,
           SoundAfter(to)
    PROVE  IndInv'
<1> USE DEF IndInv, machines
<1>1. \A d \in Execs : exec'[d] = IF d = e THEN to ELSE exec[d]
  BY DEF TypeOK
<1>2. TypeOK'
  BY DEF TypeOK
<1>3. MemberIsKept' /\ GroupHasJoined'
  BY DEF MemberIsKept, Alive, GroupHasJoined, HasJoined
<1>4. HostsAreRecent'
  BY <1>1 DEF HostsAreRecent, Compares, SoundAfter
<1>5. ChosenAreLeftovers'
  BY <1>1 DEF ChosenAreLeftovers, Deletes, SoundAfter, HasJoined
<1> QED
  BY <1>2, <1>3, <1>4, <1>5

\* Instances lose their protection or are deleted: leftovers, those that were late
\* and, without protection, founders.
LEMMA DeletionStep ==
    ASSUME IndInv, NEW e \in Execs, NEW to \in ExecType,
           exec' = [exec EXCEPT ![e] = to],
           UNCHANGED <<desired, weka, group, age, late>>,
           SoundAfter(to),
           protected' \subseteq protected,
           \A v \in (weka \ late) \cap protected : v \in protected',
           NEW deleted \in SUBSET Vms,
           status' = [v \in Vms |-> IF v \in deleted THEN "stopping" ELSE status[v]],
           \A v \in deleted \cap (weka \ late) : v \in First \ protected
    PROVE  IndInv'
<1> USE DEF IndInv
<1>1. \A d \in Execs : exec'[d] = IF d = e THEN to ELSE exec[d]
  BY DEF TypeOK
<1>2. TypeOK'
  BY DEF TypeOK, Statuses
<1>3. MemberIsKept'
  BY DEF MemberIsKept, Alive, TypeOK
<1>5. \A v \in Vms : HasJoined(v) => HasJoined(v)'
  BY DEF HasJoined
<1>6. GroupHasJoined'
  BY <1>5 DEF GroupHasJoined, TypeOK
<1>7. HostsAreRecent'
  BY <1>1 DEF HostsAreRecent, Compares, SoundAfter
<1>8. ChosenAreLeftovers'
  <2>1. SUFFICES ASSUME NEW d \in Execs, Deletes(d)', NEW v \in exec'[d].names
                 PROVE  v \notin weka' \ late' /\ HasJoined(v)'
    BY DEF ChosenAreLeftovers
  <2>2. CASE d = e
    BY <1>1, <2>1, <2>2 DEF Deletes, SoundAfter
  <2>3. CASE d # e
    <3>1. v \in exec[d].names /\ Deletes(d) /\ v \in Vms
      BY <1>1, <2>1, <2>3 DEF Deletes, TypeOK, ExecType
    <3> QED
      BY <1>5, <3>1 DEF ChosenAreLeftovers
  <2> QED
    BY <2>2, <2>3
<1> QED
  BY <1>2, <1>3, <1>6, <1>7, <1>8

\* The choice of terminate: an instance that the hosts do not name is no member
\* when it is old enough, or it was late.
LEMMA PickKeeps ==
    ASSUME IndInv, NEW e \in Execs, NEW listed \in SUBSET Unneeded(e),
           Pick(e, listed)
    PROVE  IndInv'
<1> USE DEF IndInv
<1> DEFINE to == [exec[e] EXCEPT !.at = "picked", !.hosts = {}, !.remove = {},
                                 !.names = FirstOf(listed)]
<1>1. exec[e] \in ExecType /\ exec[e].at = "checked"
  BY DEF Pick, Advance, TypeOK
<1>2. FirstOf(listed) \subseteq Unneeded(e) /\ FirstOf(listed) \subseteq Vms
  BY <1>1 DEF FirstOf, Unneeded, ExecType
<1>3. to \in ExecType
  BY <1>1, <1>2 DEF ExecType
<1>4. ASSUME NEW v \in FirstOf(listed)
      PROVE  v \notin weka \ late /\ HasJoined(v)
  <2>1. /\ v \in Vms
        /\ v \notin exec[e].hosts
        /\ Alive(v)
        /\ age[v] >= Grace
    BY <1>2, <1>4, NothingIsExplicit DEF Unneeded, OldEnough
  <2>2. HasJoined(v)
    BY <2>1 DEF Alive, HasJoined
  <2>3. v \in weka \ late => age[v] + ExecTime < Grace + exec[e].time
    BY <1>1, <2>1 DEF HostsAreRecent, Compares
  <2>4. age[v] \in Nat /\ exec[e].time \in 0 .. ExecTime
    BY <1>1, <2>1 DEF TypeOK, ExecType
  <2> QED
    BY <2>1, <2>2, <2>3, <2>4, TimeAssumption
<1>5. SoundAfter(to)
  BY <1>1, <1>4 DEF SoundAfter, ExecType, Pick, machines, HasJoined
<1>6. /\ exec' = [exec EXCEPT ![e] = to]
      /\ weka' \subseteq weka
      /\ UNCHANGED <<desired, group, machines>>
  BY DEF Pick, Advance, machines
<1> HIDE DEF to, IndInv
<1> QED
  BY <1>3, <1>5, <1>6, RecordStep

\* Steps that change nothing but a record and the cluster's members.
LEMMA RecordSteps ==
    ASSUME IndInv, NEW e \in Execs,
           \/ \E names \in SUBSET Present : Fetch(e, names)
           \/ AnswerEmpty(e)
           \/ RefuseEmpty(e)
           \/ ExecFails(e)
           \/ \E hosts \in SUBSET weka : GiveUp(e, hosts)
           \/ \E names \in SUBSET group : ListGroup(e, names)
    PROVE  IndInv'
<1>1. TypeOK /\ exec[e] \in ExecType
  BY DEF IndInv, TypeOK
<1> SUFFICES \E to \in ExecType : /\ exec' = [exec EXCEPT ![e] = to]
                                  /\ weka' \subseteq weka
                                  /\ UNCHANGED <<desired, group, machines>>
                                  /\ SoundAfter(to)
  BY RecordStep
<1>2. ASSUME NEW names \in SUBSET Present, Fetch(e, names)
      PROVE  \E to \in ExecType : /\ exec' = [exec EXCEPT ![e] = to]
                                  /\ weka' \subseteq weka
                                  /\ UNCHANGED <<desired, group, machines>>
                                  /\ SoundAfter(to)
  <2> DEFINE to == [Off EXCEPT !.at = "fetched", !.desired = desired,
                               !.names = names]
  <2>1. /\ exec' = [exec EXCEPT ![e] = to]
        /\ UNCHANGED <<desired, weka, group, machines>>
    BY <1>2 DEF Fetch, Advance
  <2>2. names \in SUBSET Vms /\ desired \in Nat
    BY <1>1 DEF TypeOK, Present
  <2>3. Off \in ExecType
    BY TimeAssumption DEF Off, ExecType
  <2>4. to \in ExecType /\ to.at = "fetched"
    BY <2>2, <2>3 DEF ExecType
  <2>5. SoundAfter(to)
    BY <2>4 DEF SoundAfter
  <2> QED
    BY <2>1, <2>4, <2>5
<1>3. CASE AnswerEmpty(e)
  <2> DEFINE to == [exec[e] EXCEPT !.at = "scaled", !.desired = 0,
                                   !.hosts = {}, !.names = {}]
  <2>1. to \in ExecType /\ SoundAfter(to)
    BY <1>1 DEF ExecType, SoundAfter
  <2> QED
    BY <1>3, <2>1 DEF AnswerEmpty, Advance, machines
<1>4. CASE RefuseEmpty(e) \/ ExecFails(e)
  <2>1. Off \in ExecType /\ SoundAfter(Off)
    BY TimeAssumption DEF Off, ExecType, SoundAfter
  <2> QED
    BY <1>4, <2>1 DEF RefuseEmpty, ExecFails, Advance, machines
<1>5. ASSUME NEW hosts \in SUBSET weka, GiveUp(e, hosts)
      PROVE  \E to \in ExecType : /\ exec' = [exec EXCEPT ![e] = to]
                                  /\ weka' \subseteq weka
                                  /\ UNCHANGED <<desired, group, machines>>
                                  /\ SoundAfter(to)
  <2> DEFINE to == [exec[e] EXCEPT !.at = "scaled", !.desired = 0,
                                   !.hosts = hosts, !.names = {},
                                   !.remove = {HgInstance(v) : v \in weka \ hosts}]
  <2>1. weka' = hosts /\ hosts \in SUBSET Vms
    BY <1>1, <1>5 DEF GiveUp, TypeOK
  <2>2. {HgInstance(v) : v \in weka \ hosts} \in SUBSET {HgInstance(v) : v \in Vms}
    BY <1>1 DEF TypeOK
  <2>3. to \in ExecType
    BY <1>1, <2>1, <2>2 DEF ExecType
  <2>4. SoundAfter(to)
    BY <1>1, <2>1 DEF ExecType, SoundAfter
  <2> QED
    BY <1>5, <2>1, <2>3, <2>4 DEF GiveUp, Advance, machines
<1>6. ASSUME NEW names \in SUBSET group, ListGroup(e, names)
      PROVE  \E to \in ExecType : /\ exec' = [exec EXCEPT ![e] = to]
                                  /\ weka' \subseteq weka
                                  /\ UNCHANGED <<desired, group, machines>>
                                  /\ SoundAfter(to)
  <2> DEFINE to == [exec[e] EXCEPT !.at = "listed", !.names = names]
  <2>1. to \in ExecType
    BY <1>1 DEF ExecType, TypeOK
  <2>2. \A v \in (weka \ late) \ exec[e].hosts :
           age[v] + ExecTime < Grace + exec[e].time
    BY <1>6 DEF IndInv, HostsAreRecent, Compares, ListGroup, Advance, HostsGiven
  <2>3. SoundAfter(to)
    BY <1>1, <1>6, <2>2 DEF ExecType, SoundAfter, ListGroup, HostsGiven, machines
  <2> QED
    BY <1>6, <2>1, <2>3 DEF ListGroup, Advance, machines
<1> QED
  BY <1>2, <1>3, <1>4, <1>5, <1>6

LEMMA TerminateUnhealthyKeeps ==
    ASSUME IndInv, NEW e \in Execs, TerminateUnhealthy(e)
    PROVE  IndInv'
<1> DEFINE to == [exec[e] EXCEPT !.at = "checked"]
<1>1. PICK deleted \in SUBSET Suspended :
         status' = [v \in Vms |-> IF v \in deleted THEN "stopping" ELSE status[v]]
  BY DEF TerminateUnhealthy
<1>2. /\ deleted \in SUBSET Vms
      /\ \A v \in deleted \cap (weka \ late) : v \in First \ protected
  BY DEF IndInv, TypeOK, MemberIsKept, Suspended
<1>3. to \in ExecType
  BY DEF IndInv, TypeOK, ExecType
<1>4. SoundAfter(to)
  BY DEF IndInv, TypeOK, ExecType, HostsAreRecent, Compares, SoundAfter,
         TerminateUnhealthy, Advance
<1>5. exec' = [exec EXCEPT ![e] = to]
  BY DEF TerminateUnhealthy, Advance
<1> HIDE DEF to
<1> QED
  BY <1>1, <1>2, <1>3, <1>4, <1>5, DeletionStep DEF TerminateUnhealthy

LEMMA UnprotectKeeps ==
    ASSUME IndInv, NEW e \in Execs, NEW failed \in SUBSET exec[e].names,
           Unprotect(e, failed)
    PROVE  IndInv'
<1> DEFINE to == [exec[e] EXCEPT !.at = "unprotected"]
<1>1. \A v \in exec[e].names : v \notin weka \ late /\ HasJoined(v)
  BY DEF IndInv, ChosenAreLeftovers, Deletes, Unprotect, Advance
<1>2. to \in ExecType /\ to.at = "unprotected" /\ to.names = exec[e].names
  BY DEF IndInv, TypeOK, ExecType
<1>3. SoundAfter(to)
  BY <1>1, <1>2 DEF SoundAfter, Unprotect, HasJoined
<1>4. /\ exec' = [exec EXCEPT ![e] = to]
      /\ protected' \subseteq protected
      /\ \A v \in (weka \ late) \cap protected : v \in protected'
  BY <1>1 DEF Unprotect, Advance, Unprotected
<1> DEFINE deleted == {}
<1>5. /\ status' = [v \in Vms |-> IF v \in deleted THEN "stopping" ELSE status[v]]
      /\ deleted \in SUBSET Vms
      /\ \A v \in deleted \cap (weka \ late) : v \in First \ protected
  BY DEF Unprotect, IndInv, TypeOK
<1>6. UNCHANGED <<desired, weka, group, age, late>>
  BY DEF Unprotect
<1> HIDE DEF to, deleted
<1> QED
  BY <1>2, <1>3, <1>4, <1>5, <1>6, DeletionStep

LEMMA DeleteKeeps ==
    ASSUME IndInv, NEW e \in Execs, NEW failed \in SUBSET exec[e].names,
           Delete(e, failed)
    PROVE  IndInv'
<1>1. \A v \in exec[e].names : v \notin weka \ late
  BY DEF IndInv, ChosenAreLeftovers, Deletes, Delete, Advance
<1>2. /\ Deletable(e) \ failed \in SUBSET Vms
      /\ \A v \in Deletable(e) \ failed : v \notin weka \ late
  BY <1>1 DEF Deletable, IndInv, TypeOK, ExecType
<1>3. Off \in ExecType /\ SoundAfter(Off)
  BY TimeAssumption DEF Off, ExecType, SoundAfter
<1> QED
  BY <1>2, <1>3, DeletionStep DEF Delete, Advance

LEMMA NextKeeps == IndInv /\ [Next]_vars => IndInv'
<1> SUFFICES ASSUME IndInv, [Next]_vars PROVE IndInv'
  OBVIOUS
<1>1. ASSUME NEW v \in Vms, VmStep(v) PROVE IndInv'
  BY <1>1, VmStepKeeps
<1>2. ASSUME NEW e \in Execs, ExecStep(e) \/ CompleteStep(e) \/ TruncatedStep(e)
      PROVE  IndInv'
  <2>1. \/ \E names \in SUBSET Present : Fetch(e, names)
        \/ AnswerEmpty(e) \/ RefuseEmpty(e) \/ ExecFails(e)
        \/ \E hosts \in SUBSET weka : GiveUp(e, hosts)
        \/ \E names \in SUBSET group : ListGroup(e, names)
        \/ \E listed \in SUBSET Unneeded(e) : Pick(e, listed)
        \/ TerminateUnhealthy(e)
        \/ \E failed \in SUBSET exec[e].names : Unprotect(e, failed)
        \/ \E failed \in SUBSET exec[e].names : Delete(e, failed)
    BY <1>2 DEF ExecStep, CompleteStep, TruncatedStep
  <2> QED
    BY <2>1, RecordSteps, PickKeeps, TerminateUnhealthyKeeps, UnprotectKeeps,
       DeleteKeeps
<1>3. ASSUME NEW size \in Sizes, Resize(size) PROVE IndInv'
  BY <1>3, SizesAssumption
  DEF IndInv, Resize, machines, TypeOK, MemberIsKept, Alive,
      GroupHasJoined, HasJoined, HostsAreRecent, ChosenAreLeftovers, Compares,
      Deletes
<1>4. CASE Tick
  BY <1>4, TickKeeps
<1>5. CASE UNCHANGED vars
  BY <1>5
  DEF IndInv, vars, machines, TypeOK, MemberIsKept, Alive,
      GroupHasJoined, HasJoined, HostsAreRecent, ChosenAreLeftovers, Compares,
      Deletes
<1> QED
  BY <1>1, <1>2, <1>3, <1>4, <1>5 DEF Next, SteadyNext

------------------------------------------------------------------------------

LEMMA Invariance == Spec => []IndInv
BY InitIndInv, NextKeeps, PTL DEF Spec

\* The variables of the scale_down model keep their types.
THEOREM TypeCorrect == Spec => []TypeOK
BY Invariance, PTL DEF IndInv

\* A member that joined while its age spared it (age + ExecTime < Grace) is never
\* deleted and never unprotected in the group, and a protected founder is never
\* deleted, for any number of overlapping executions, truncated listings and
\* partial failures, whichever of the founders are protected and in the group.
THEOREM MembersAreKept == Spec => []MemberIsKept
BY Invariance, PTL DEF IndInv

\* No step takes the protection from a member that was not late, and none deletes
\* it unless it is an unprotected, suspended founder in the group.
THEOREM MembersGoUnprotected == Spec => OnlyUnprotectedGo
<1> DEFINE Goes(v) ==
             /\ v \in protected => v \in protected'
             /\ Alive(v) /\ ~Alive(v)' => /\ v \in (First \cap group) \ protected
                                         /\ status[v] = "suspended"
           Keeps == \A v \in weka \ late : Goes(v)
<1>1. ASSUME IndInv, [Next]_vars
      PROVE  Keeps
  <2>0. TypeOK /\ MemberIsKept /\ ChosenAreLeftovers
    BY <1>1 DEF IndInv
  <2>1. ASSUME NEW v \in Vms, VmStep(v) PROVE Keeps
    <3>1. CASE Create(v) \/ Join(v) \/ Suspend(v) \/ Vanish(v)
      <4>1. PICK to \in {"joining", "running", "suspended", "gone"} :
               /\ status' = [status EXCEPT ![v] = to]
               /\ Alive(v) => to \in {"running", "suspended"}
        BY <3>1 DEF Create, Join, Suspend, Vanish, SetStatus, Alive
      <4>2. \A u \in weka : Alive(u) => Alive(u)'
        BY <2>0, <4>1 DEF Alive, TypeOK
      <4>3. UNCHANGED protected
        BY <3>1 DEF Create, Join, Suspend, Vanish
      <4> QED
        BY <4>2, <4>3
    <3>2. CASE Protect(v) \/ AddToGroup(v)
      <4>1. UNCHANGED status /\ protected \subseteq protected'
        BY <3>2 DEF Protect, AddToGroup, machines
      <4> QED
        BY <4>1 DEF Alive
    <3> QED
      BY <2>1, <3>1, <3>2 DEF VmStep
  <2>2. ASSUME NEW e \in Execs, TerminateUnhealthy(e) PROVE Keeps
    <3>1. PICK deleted \in SUBSET Suspended :
             status' = [v \in Vms |-> IF v \in deleted THEN "stopping" ELSE status[v]]
      BY <2>2 DEF TerminateUnhealthy
    <3>2. UNCHANGED protected /\ weka \subseteq Vms
      BY <2>0, <2>2 DEF TerminateUnhealthy, TypeOK
    <3>3. ASSUME NEW v \in weka \ late, Alive(v), ~Alive(v)'
          PROVE  v \in (First \cap group) \ protected /\ status[v] = "suspended"
      <4>1. v \in deleted
        BY <3>1, <3>2, <3>3 DEF Alive
      <4>2. v \in group \ protected /\ status[v] = "suspended"
        BY <3>1, <4>1 DEF Suspended
      <4> QED
        BY <2>0, <3>3, <4>2 DEF MemberIsKept
    <3> QED
      BY <3>2, <3>3
  <2>3. ASSUME NEW e \in Execs, NEW failed \in SUBSET exec[e].names,
               Unprotect(e, failed) \/ Delete(e, failed)
        PROVE  Keeps
    <3>1. \A v \in exec[e].names : v \notin weka \ late
      BY <2>0, <2>3 DEF ChosenAreLeftovers, Deletes, Unprotect, Delete, Advance
    <3>2. CASE Unprotect(e, failed)
      BY <3>1, <3>2 DEF Unprotect, Unprotected, Alive
    <3>3. CASE Delete(e, failed)
      <4>1. /\ UNCHANGED protected
            /\ \A v \in Vms : v \notin exec[e].names => status'[v] = status[v]
        BY <3>3 DEF Delete, Deletable
      <4>2. weka \subseteq Vms
        BY <2>0 DEF TypeOK
      <4> QED
        BY <3>1, <4>1, <4>2 DEF Alive
    <3> QED
      BY <2>3, <3>2, <3>3
  <2>4. CASE UNCHANGED <<protected, status>>
    BY <2>4 DEF Alive
  <2>5. ASSUME NEW e \in Execs,
               ExecStep(e) \/ CompleteStep(e) \/ TruncatedStep(e)
        PROVE  \/ UNCHANGED <<protected, status>>
               \/ TerminateUnhealthy(e)
               \/ \E failed \in SUBSET exec[e].names :
                    Unprotect(e, failed) \/ Delete(e, failed)
    BY <2>5 DEF ExecStep, CompleteStep, TruncatedStep, AnswerEmpty, RefuseEmpty,
                ExecFails, GiveUp, Fetch, ListGroup, Pick, machines
  <2>6. (\E size \in Sizes : Resize(size)) \/ Tick \/ UNCHANGED vars
        => UNCHANGED <<protected, status>>
    BY DEF Resize, Tick, vars, machines
  <2> HIDE DEF Keeps
  <2> QED
    BY <1>1, <2>1, <2>2, <2>3, <2>4, <2>5, <2>6 DEF Next, SteadyNext
<1>2. IndInv /\ [Next]_vars => [Keeps]_vars
  BY <1>1
<1> QED
  BY <1>2, Invariance, PTL DEF Spec, OnlyUnprotectedGo

------------------------------------------------------------------------------
(* The life of each instance                                                *)

\* What the cluster may give up is what fetch has found in the group: it stays
\* there as long as it is a member.
FetchedAreServed ==
    \A e \in Execs :
        exec[e].at = "fetched" =>
            \A v \in exec[e].names :
                HasJoined(v) /\ (v \in weka /\ Alive(v) => v \in group)

\* What every step leaves true of an instance that has joined and of the names
\* an execution has fetched.
StepsKeepServed ==
    /\ \A v \in Vms :
         HasJoined(v) => /\ HasJoined(v)'
                         /\ v \in weka' => v \in weka
                         /\ Alive(v)' => Alive(v)
    /\ \A v \in weka \cap group : v \in weka' /\ Alive(v)' => v \in group'
    /\ \A e \in Execs :
         exec'[e].at = "fetched" =>
            \/ exec[e].at = "fetched" /\ exec'[e].names = exec[e].names
            \/ /\ exec'[e].names \subseteq group
               /\ UNCHANGED <<group, status, weka>>

LEMMA VmKeepsServed ==
    ASSUME IndInv, NEW v \in Vms, VmStep(v)
    PROVE  StepsKeepServed
<1> USE DEF IndInv, StepsKeepServed
<1>1. exec' = exec
  BY DEF VmStep, Create, Join, Protect, AddToGroup, Suspend, Vanish, SetStatus,
         machines
<1>2. CASE Create(v) \/ Join(v) \/ Suspend(v)
  BY <1>1, <1>2 DEF Create, Join, Suspend, SetStatus, TypeOK, HasJoined, Alive
<1>3. CASE Protect(v) \/ AddToGroup(v)
  BY <1>1, <1>3 DEF Protect, AddToGroup, machines, HasJoined, Alive
<1>4. CASE Vanish(v)
  BY <1>1, <1>4 DEF Vanish, SetStatus, TypeOK, HasJoined, Alive
<1> QED
  BY <1>2, <1>3, <1>4 DEF VmStep

LEMMA ExecKeepsServed ==
    ASSUME IndInv, NEW e \in Execs,
           ExecStep(e) \/ CompleteStep(e) \/ TruncatedStep(e)
    PROVE  StepsKeepServed
<1> USE DEF IndInv, StepsKeepServed
<1>1. ASSUME NEW names \in SUBSET Present, Fetch(e, names)
      PROVE  StepsKeepServed
  BY <1>1 DEF Fetch, Present, Advance, machines, TypeOK, HasJoined, Alive
<1>2. ASSUME NEW to \in ExecType, exec' = [exec EXCEPT ![e] = to],
             to.at # "fetched",
             UNCHANGED group, weka' \subseteq weka,
             \A v \in Vms : HasJoined(v) => HasJoined(v)' /\ (Alive(v)' => Alive(v))
      PROVE  StepsKeepServed
  <2>1. \A d \in Execs : exec'[d] = IF d = e THEN to ELSE exec[d]
    BY <1>2 DEF TypeOK
  <2> QED
    BY <1>2, <2>1
<1>3. exec[e] \in ExecType /\ Off \in ExecType
  BY TimeAssumption DEF TypeOK, ExecType, Off
<1>4. CASE RefuseEmpty(e) \/ ExecFails(e)
  BY <1>2, <1>3, <1>4
  DEF RefuseEmpty, ExecFails, Advance, Off, machines, HasJoined, Alive
<1>5. CASE AnswerEmpty(e)
  <2> DEFINE to == [exec[e] EXCEPT !.at = "scaled", !.desired = 0,
                                   !.hosts = {}, !.names = {}]
  <2>1. to \in ExecType /\ to.at # "fetched"
    BY <1>3 DEF ExecType
  <2> QED
    BY <1>2, <1>5, <2>1 DEF AnswerEmpty, Advance, machines, HasJoined, Alive
<1>6. ASSUME NEW hosts \in SUBSET weka, GiveUp(e, hosts)
      PROVE  StepsKeepServed
  <2> DEFINE given == {HgInstance(v) : v \in weka \ hosts}
             to == [exec[e] EXCEPT !.at = "scaled", !.desired = 0,
                                   !.hosts = hosts, !.names = {},
                                   !.remove = given]
  <2>1. /\ exec' = [exec EXCEPT ![e] = to]
        /\ weka' = hosts
        /\ UNCHANGED <<group, status>>
    BY <1>6 DEF GiveUp, Advance, machines
  <2>2. hosts \in SUBSET Vms /\ given \in SUBSET {HgInstance(v) : v \in Vms}
    BY DEF TypeOK
  <2> HIDE DEF given
  <2>3. to \in ExecType /\ to.at # "fetched"
    BY <1>3, <2>2 DEF ExecType
  <2>4. \A v \in Vms : HasJoined(v) => HasJoined(v)' /\ (Alive(v)' => Alive(v))
    BY <2>1 DEF HasJoined, Alive
  <2> HIDE DEF to
  <2> QED
    BY <1>2, <2>1, <2>3, <2>4
<1>7. ASSUME NEW names \in SUBSET group, ListGroup(e, names)
      PROVE  StepsKeepServed
  <2> DEFINE to == [exec[e] EXCEPT !.at = "listed", !.names = names]
  <2>1. to \in ExecType /\ to.at # "fetched"
    BY <1>3 DEF ExecType, TypeOK
  <2> QED
    BY <1>2, <1>7, <2>1 DEF ListGroup, Advance, machines, HasJoined, Alive
<1>8. ASSUME NEW listed \in SUBSET Unneeded(e), Pick(e, listed)
      PROVE  StepsKeepServed
  <2> DEFINE to == [exec[e] EXCEPT !.at = "picked", !.hosts = {}, !.remove = {},
                                   !.names = FirstOf(listed)]
  <2>1. FirstOf(listed) \subseteq Vms
    BY <1>3 DEF FirstOf, Unneeded, ExecType
  <2>2. to \in ExecType /\ to.at # "fetched"
    BY <1>3, <2>1 DEF ExecType
  <2> QED
    BY <1>2, <1>8, <2>2 DEF Pick, Advance, machines, HasJoined, Alive
<1>9. CASE TerminateUnhealthy(e)
  <2> DEFINE to == [exec[e] EXCEPT !.at = "checked"]
  <2>1. to \in ExecType /\ to.at # "fetched"
    BY <1>3 DEF ExecType
  <2>2. \A v \in Vms : HasJoined(v) => HasJoined(v)' /\ (Alive(v)' => Alive(v))
    BY <1>9 DEF TerminateUnhealthy, HasJoined, Alive
  <2> QED
    BY <1>2, <1>9, <2>1, <2>2 DEF TerminateUnhealthy, Advance
<1>10. ASSUME NEW failed \in SUBSET exec[e].names,
              Unprotect(e, failed) \/ Delete(e, failed)
       PROVE  StepsKeepServed
  <2> DEFINE to == [exec[e] EXCEPT !.at = "unprotected"]
  <2>1. to \in ExecType /\ to.at # "fetched" /\ Off.at # "fetched"
    BY <1>3 DEF ExecType, Off
  <2>2. \A v \in Vms : HasJoined(v) => HasJoined(v)' /\ (Alive(v)' => Alive(v))
    BY <1>10 DEF Unprotect, Delete, HasJoined, Alive
  <2> QED
    BY <1>2, <1>3, <1>10, <2>1, <2>2 DEF Unprotect, Delete, Advance
<1> QED
  BY <1>1, <1>4, <1>5, <1>6, <1>7, <1>8, <1>9, <1>10
  DEF ExecStep, CompleteStep, TruncatedStep

LEMMA TickKeepsServed ==
    ASSUME IndInv, Tick
    PROVE  StepsKeepServed
<1>1. \A e \in Execs : /\ exec'[e].at = exec[e].at
                       /\ exec[e].at = "fetched" => exec'[e].names = exec[e].names
  BY DEF Tick, IndInv, TypeOK, ExecType, Off
<1> QED
  BY <1>1 DEF Tick, StepsKeepServed, HasJoined, Alive

LEMMA NextServed ==
    ASSUME IndInv, FetchedAreServed, [Next]_vars
    PROVE  FetchedAreServed'
<1>1. StepsKeepServed
  <2>1. CASE \E size \in Sizes : Resize(size)
    BY <2>1 DEF Resize, machines, StepsKeepServed, HasJoined, Alive
  <2>2. CASE UNCHANGED vars
    BY <2>2 DEF vars, machines, StepsKeepServed, HasJoined, Alive
  <2> QED
    BY <2>1, <2>2, VmKeepsServed, ExecKeepsServed, TickKeepsServed
    DEF Next, SteadyNext
<1>2. SUFFICES ASSUME NEW e \in Execs, exec'[e].at = "fetched",
                      NEW v \in exec'[e].names
               PROVE  HasJoined(v)' /\ (v \in weka' /\ Alive(v)' => v \in group')
  BY DEF FetchedAreServed
<1>3. CASE exec[e].at = "fetched" /\ exec'[e].names = exec[e].names
  <2>1. v \in Vms /\ HasJoined(v) /\ (v \in weka /\ Alive(v) => v \in group)
    BY <1>2, <1>3 DEF FetchedAreServed, IndInv, TypeOK, ExecType
  <2> QED
    <3>1. HasJoined(v)' /\ (v \in weka' => v \in weka) /\ (Alive(v)' => Alive(v))
      BY <1>1, <2>1 DEF StepsKeepServed
    <3>2. v \in weka \cap group /\ v \in weka' /\ Alive(v)' => v \in group'
      BY <1>1 DEF StepsKeepServed
    <3> QED
      BY <2>1, <3>1, <3>2
<1>4. CASE exec'[e].names \subseteq group /\ UNCHANGED <<group, status, weka>>
  BY <1>2, <1>4 DEF IndInv, GroupHasJoined, HasJoined
<1> QED
  BY <1>1, <1>2, <1>3, <1>4 DEF StepsKeepServed

Joining == {v \in Vms : status[v] = "joining"}
Members == {v \in weka : Alive(v)}
Guarded == {v \in weka \ late : v \in First => v \in protected}
Leftovers == {v \in Vms \ weka : Alive(v)}
Deleted == {v \in Vms : status[v] \in {"stopping", "gone"}}

LEMMA GuardedAreMembers ==
    ASSUME IndInv
    PROVE  Guarded \subseteq Members
BY DEF IndInv, MemberIsKept, Guarded, Members

\* Nothing that the life is about changes.
LEMMA LifeStays ==
    ASSUME UNCHANGED <<status, weka, group, late>>, Guarded' = Guarded
    PROVE  UNCHANGED Life!vars
BY DEF Life!vars, Guarded, Alive

LEMMA LifeVmStep ==
    ASSUME IndInv, NEW v \in Vms, VmStep(v)
    PROVE  [Life!Next]_(Life!vars)
<1>0. TypeOK /\ MemberIsKept /\ Guarded \subseteq Members
  BY GuardedAreMembers DEF IndInv
<1>1. CASE Create(v)
  <2>1. /\ status[v] = "absent" /\ UNCHANGED <<weka, group, protected, late>>
        /\ \A u \in Vms : status'[u] = IF u = v THEN "joining" ELSE status[u]
        /\ weka \subseteq Vms
    BY <1>0, <1>1 DEF Create, SetStatus, TypeOK
  <2>2. v \notin Joining \cup Members \cup Leftovers \cup Deleted
    BY <2>1 DEF Joining, Members, Leftovers, Deleted, Alive
  <2>3. /\ Joining' = Joining \cup {v} /\ Members' = Members
        /\ Leftovers' = Leftovers /\ Deleted' = Deleted
    BY <2>1 DEF Joining, Members, Leftovers, Deleted, Alive
  <2>4. Guarded' = Guarded
    BY <2>1 DEF Guarded
  <2>5. Life!Create(v)
    BY <2>1, <2>2, <2>3, <2>4
    DEF Life!Create, Joining, Members, Guarded, Leftovers, Deleted
  <2> QED
    BY <2>5 DEF Life!Next
<1>2. CASE Join(v)
  <2>1. /\ status[v] = "joining" /\ weka' = weka \cup {v}
        /\ UNCHANGED <<group, protected>>
        /\ late' = late \/ late' = late \cup {v}
        /\ \A u \in Vms : status'[u] = IF u = v THEN "running" ELSE status[u]
        /\ weka \subseteq Vms
    BY <1>0, <1>2 DEF Join, SetStatus, TypeOK
  <2>2. v \in Joining /\ Joining' = Joining \ {v} /\ Members' = Members \cup {v}
        /\ Leftovers' = Leftovers /\ Deleted' = Deleted
    BY <2>1 DEF Joining, Members, Leftovers, Deleted, Alive
  <2>3. Guarded' \in {Guarded, Guarded \cup {v}}
    <3>1. v \notin Guarded
      BY <1>0, <2>1 DEF Members, Alive
    <3>2. \A u : u # v => (u \in Guarded' <=> u \in Guarded)
      BY <2>1 DEF Guarded
    <3> QED
      BY <3>1, <3>2
  <2>4. Life!Join(v)
    BY <2>1, <2>2, <2>3 DEF Life!Join, Joining, Members, Guarded, Leftovers, Deleted
  <2> QED
    BY <2>4 DEF Life!Next
<1>3. CASE Protect(v)
  <2>1. UNCHANGED <<status, weka, group, late>> /\ Guarded' = Guarded
    BY <1>3 DEF Protect, Guarded
  <2> QED
    BY <2>1, LifeStays
<1>4. CASE AddToGroup(v)
  <2>1. /\ v \in weka /\ Alive(v) /\ group' = group \cup {v}
        /\ UNCHANGED <<weka, status, protected, late>>
    BY <1>4 DEF AddToGroup, machines
  <2>2. /\ Joining' = Joining /\ Members' = Members /\ Guarded' = Guarded
        /\ Leftovers' = Leftovers /\ Deleted' = Deleted
    BY <2>1 DEF Joining, Members, Guarded, Leftovers, Deleted, Alive
  <2>3. Life!Serve(v)
    BY <2>1, <2>2 DEF Life!Serve, Joining, Members, Guarded, Leftovers, Deleted
  <2> QED
    BY <2>3 DEF Life!Next
<1>5. CASE Suspend(v)
  <2>1. /\ status[v] = "running" /\ UNCHANGED <<weka, group, protected, late>>
        /\ \A u \in Vms : status'[u] = IF u = v THEN "suspended" ELSE status[u]
        /\ weka \subseteq Vms
    BY <1>0, <1>5 DEF Suspend, SetStatus, TypeOK
  <2>2. /\ Joining' = Joining /\ Members' = Members /\ Guarded' = Guarded
        /\ Leftovers' = Leftovers /\ Deleted' = Deleted
    BY <2>1 DEF Joining, Members, Guarded, Leftovers, Deleted, Alive
  <2> QED
    BY <2>1, <2>2 DEF Life!vars, Joining, Members, Guarded, Leftovers, Deleted
<1>6. CASE Vanish(v)
  <2>1. /\ status[v] = "stopping" /\ UNCHANGED <<weka, protected, late>>
        /\ group' = group \ {v}
        /\ \A u \in Vms : status'[u] = IF u = v THEN "gone" ELSE status[u]
        /\ weka \subseteq Vms
    BY <1>0, <1>6 DEF Vanish, SetStatus, TypeOK
  <2>2. /\ Joining' = Joining /\ Members' = Members /\ Guarded' = Guarded
        /\ Leftovers' = Leftovers /\ Deleted' = Deleted
        /\ v \in Deleted
    BY <2>1 DEF Joining, Members, Guarded, Leftovers, Deleted, Alive
  <2>3. Life!Leave(v)
    BY <2>1, <2>2 DEF Life!Leave, Joining, Members, Guarded, Leftovers, Deleted
  <2> QED
    BY <2>3 DEF Life!Next
<1> QED
  BY <1>1, <1>2, <1>3, <1>4, <1>5, <1>6 DEF VmStep

\* The living hosts that the cluster gives up have been fetched from the group.
LEMMA LifeGiveUp ==
    ASSUME IndInv, FetchedAreServed, NEW e \in Execs, NEW hosts \in SUBSET weka,
           GiveUp(e, hosts)
    PROVE  Life!Next
<1>1. PICK S \in SUBSET weka : S = {v \in weka \ hosts : Alive(v)}
  OBVIOUS
<1>2. /\ exec[e].at = "fetched" /\ weka' = hosts
      /\ \A v \in S : v \in exec[e].names
      /\ UNCHANGED <<status, group, protected, late>>
  BY <1>1 DEF GiveUp, Advance, machines
<1>3. weka \subseteq Vms /\ Guarded \subseteq Members
  BY GuardedAreMembers DEF IndInv, TypeOK
<1>4. S \subseteq Members \cap group
  BY <1>1, <1>2 DEF FetchedAreServed, Members
<1>5. Members' = Members \ S
  BY <1>1, <1>2 DEF Members, Alive
<1>6. Guarded' = Guarded \ S
  BY <1>1, <1>2, <1>3 DEF Guarded, Members
<1>7. Joining' = Joining /\ Deleted' = Deleted
  BY <1>2 DEF Joining, Deleted
<1>8. Leftovers' = Leftovers \cup S
  BY <1>1, <1>2, <1>3 DEF Leftovers, Alive
<1>9. Life!GiveUp(S)
  BY <1>2, <1>4, <1>5, <1>6, <1>7, <1>8
  DEF Life!GiveUp, Joining, Members, Guarded, Leftovers, Deleted
<1>10. S \in SUBSET Vms
  BY <1>3
<1> QED
  BY <1>9, <1>10 DEF Life!Next

\* What is asked to be deleted has been given up, is not guarded, or is being
\* deleted already.
LEMMA LifeDelete ==
    ASSUME NEW D \in SUBSET Vms,
           status' = [v \in Vms |-> IF v \in D THEN "stopping" ELSE status[v]],
           UNCHANGED <<weka, group, protected, late>>,
           weka \subseteq Vms,
           \A v \in D : v \notin Guarded /\ (Alive(v) \/ status[v] = "stopping")
    PROVE  Life!Next
<1>1. PICK S \in SUBSET Vms : S = {v \in D : Alive(v)}
  OBVIOUS
<1>2. \A v \in D : Alive(v) <=> status[v] # "stopping"
  BY DEF Alive
<1>3. S \cap (Joining \cup Guarded) = {} /\ S \subseteq Members \cup Leftovers
  BY <1>1 DEF Joining, Members, Leftovers, Alive
<1>4. Joining' = Joining /\ Guarded' = Guarded
  BY DEF Joining, Guarded, Alive
<1>5. Members' = Members \ S /\ Leftovers' = Leftovers \ S
  BY <1>1, <1>2 DEF Members, Leftovers, Alive
<1>6. Deleted' = Deleted \cup S
  BY <1>1, <1>2 DEF Deleted, Alive
<1>7. Life!Delete(S)
  BY <1>3, <1>4, <1>5, <1>6
  DEF Life!Delete, Joining, Members, Guarded, Leftovers, Deleted
<1> QED
  BY <1>7 DEF Life!Next

LEMMA LifeExecStep ==
    ASSUME IndInv, FetchedAreServed, NEW e \in Execs,
           ExecStep(e) \/ CompleteStep(e) \/ TruncatedStep(e)
    PROVE  [Life!Next]_(Life!vars)
<1>0. weka \subseteq Vms
  BY DEF IndInv, TypeOK
<1>1. CASE TerminateUnhealthy(e)
  <2>1. PICK D \in SUBSET Suspended :
           status' = [v \in Vms |-> IF v \in D THEN "stopping" ELSE status[v]]
    BY <1>1 DEF TerminateUnhealthy
  <2>2. D \in SUBSET Vms /\ \A v \in D : v \notin Guarded /\ Alive(v)
    BY DEF IndInv, TypeOK, MemberIsKept, Suspended, Guarded, Alive
  <2> QED
    BY <1>0, <1>1, <2>1, <2>2, LifeDelete DEF TerminateUnhealthy
<1>2. ASSUME NEW failed \in SUBSET exec[e].names, Delete(e, failed)
      PROVE  Life!Next
  <2> DEFINE D == Deletable(e) \ failed
  <2>1. \A v \in exec[e].names : v \notin weka \ late /\ HasJoined(v) /\ v \in Vms
    BY <1>2 DEF IndInv, TypeOK, ExecType, ChosenAreLeftovers, Deletes, Delete,
                Advance
  <2>2. D \in SUBSET Vms
        /\ \A v \in D : v \notin Guarded /\ (Alive(v) \/ status[v] = "stopping")
    BY <2>1 DEF Deletable, Exists, HasJoined, Alive, Guarded, IndInv, TypeOK,
                Statuses
  <2>3. /\ status' = [v \in Vms |-> IF v \in D THEN "stopping" ELSE status[v]]
        /\ UNCHANGED <<weka, group, protected, late>>
    BY <1>2 DEF Delete
  <2> HIDE DEF D
  <2> QED
    BY <1>0, <2>2, <2>3, LifeDelete
<1>3. ASSUME NEW hosts \in SUBSET weka, GiveUp(e, hosts)
      PROVE  Life!Next
  BY <1>3, LifeGiveUp
<1>4. CASE \/ \E names \in SUBSET Present : Fetch(e, names)
           \/ AnswerEmpty(e) \/ RefuseEmpty(e) \/ ExecFails(e)
           \/ \E names \in SUBSET group : ListGroup(e, names)
           \/ \E listed \in SUBSET Unneeded(e) : Pick(e, listed)
  <2>1. UNCHANGED <<status, weka, group, protected, late>>
    BY <1>4 DEF Fetch, AnswerEmpty, RefuseEmpty, ExecFails, ListGroup, Pick,
                machines
  <2> QED
    BY <2>1, LifeStays DEF Guarded
<1>5. ASSUME NEW failed \in SUBSET exec[e].names, Unprotect(e, failed)
      PROVE  UNCHANGED Life!vars
  <2>1. \A v \in exec[e].names : v \notin weka \ late
    BY <1>5 DEF IndInv, ChosenAreLeftovers, Deletes, Unprotect, Advance
  <2>2. Guarded' = Guarded
    BY <1>5, <2>1 DEF Unprotect, Unprotected, Guarded
  <2> QED
    BY <1>5, <2>2, LifeStays DEF Unprotect
<1> QED
  BY <1>1, <1>2, <1>3, <1>4, <1>5 DEF ExecStep, CompleteStep, TruncatedStep

LEMMA LifeStep ==
    ASSUME IndInv, FetchedAreServed, [Next]_vars
    PROVE  [Life!Next]_(Life!vars)
<1>1. CASE \/ \E size \in Sizes : Resize(size)
           \/ Tick
           \/ UNCHANGED vars
  <2>1. UNCHANGED <<status, weka, group, protected, late>>
    BY <1>1 DEF Resize, Tick, vars, machines
  <2> QED
    BY <2>1, LifeStays DEF Guarded
<1> QED
  BY <1>1, LifeVmStep, LifeExecStep DEF Next, SteadyNext

\* Whatever overlaps, fails or is out of date, an instance joins before it is a
\* member, and a member that joined in time, or a protected founder, is deleted only
\* when the cluster has given it up: ScaleDown implements MemberLife.
THEOREM Refinement == Spec => ImplementsLife
<1>1. Init => FetchedAreServed
  BY DEF Init, Off, FetchedAreServed
<1>2. Init => Life!Init
  BY VmsAssumption DEF Init, Life!Init, Alive
<1>3. IndInv /\ FetchedAreServed /\ [Next]_vars => FetchedAreServed'
  BY NextServed
<1>4. IndInv /\ FetchedAreServed /\ [Next]_vars => [Life!Next]_(Life!vars)
  BY LifeStep
<1> QED
  BY Invariance, <1>1, <1>2, <1>3, <1>4, PTL DEF Spec, ImplementsLife, Life!Spec
==============================================================================
