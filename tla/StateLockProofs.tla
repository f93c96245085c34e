--------------------------- MODULE StateLockProofs ---------------------------
(***************************************************************************)
(* What StateLock promises for every number of invocations and every       *)
(* Timeout <= Stale.                                                       *)
(***************************************************************************)
EXTENDS StateLock, TLAPS

\* An invocation remembers a generation exactly where the code has the variable
\* that holds it: "id" between LockBucket and UnlockBucket, the attributes of
\* the inspected lock before its deletion.
Memory ==
    \A i \in Invocations :
        /\ gen[i] # None <=> Holds(i)
        /\ seen[i] # None <=> pc[i] = "delete"

\* A lock is not older than the invocation that created it and still runs.
LockYoungerThanHolder ==
    \A i \in Invocations :
        Holds(i) /\ LockGen = gen[i] => lock.age <= elapsed[i]

IndInv ==
    /\ TypeOK
    /\ Memory
    /\ LockYoungerThanHolder
    /\ NoVerdictOnLiveHolder

------------------------------------------------------------------------------

\* A new generation is one that nothing refers to.
LEMMA FreshGeneration ==
    ASSUME Fresh # {}
    PROVE  LET g == CHOOSE x \in Fresh : TRUE
           IN  /\ g \in Generations
               /\ g # LockGen
               /\ \A i \in Invocations : g # gen[i] /\ g # seen[i]
BY DEF Fresh, Remembered

\* The generation of the lock object, in the two cases of its type.
LEMMA LockGenType ==
    ASSUME TypeOK
    PROVE  /\ lock = None <=> LockGen = None
           /\ lock # None => /\ LockGen = lock.gen
                             /\ lock.gen \in Generations
                             /\ lock.age \in 0 .. Stale + 1
BY NoneAssumption DEF TypeOK, LockObject, LockGen

LEMMA InitIndInv == Init => IndInv
<1>1. SUFFICES ASSUME Init PROVE IndInv
  OBVIOUS
<1>2. TypeOK
  BY <1>1, TimeoutAssumption DEF Init, TypeOK, Points
<1>3. Memory
  BY <1>1 DEF Init, Memory, Holds
<1>4. LockYoungerThanHolder /\ NoVerdictOnLiveHolder
  BY <1>1 DEF Init, LockYoungerThanHolder, NoVerdictOnLiveHolder, Holds
<1> QED
  BY <1>2, <1>3, <1>4 DEF IndInv

------------------------------------------------------------------------------
(* Steps that leave the lock and what is remembered of it alone             *)

LEMMA QuietStep ==
    ASSUME IndInv, NEW i \in Invocations,
           \/ Start(i)
           \/ CreateRefused(i)
           \/ InspectAndRetry(i)
           \/ Read(i)
           \/ ReadAndReturn(i)
           \/ ReadErrorIgnored(i)
           \/ Write(i)
           \/ WriteFails(i)
    PROVE  IndInv'
<1> USE DEF IndInv, Start, CreateRefused, InspectAndRetry, Read, ReadAndReturn,
            ReadErrorIgnored, Write, WriteFails, Goto
<1>1. /\ UNCHANGED <<lock, gen, seen, elapsed>>
      /\ \A j \in Invocations : Holds(j)' <=> Holds(j)
      /\ \A j \in Invocations : pc'[j] = "delete" <=> pc[j] = "delete"
  BY DEF TypeOK, Holds
<1>2. TypeOK'
  BY DEF TypeOK, Points, Flip
<1>3. LockGen' = LockGen
  BY <1>1 DEF LockGen
<1>4. Memory'
  BY <1>1 DEF Memory
<1>5. LockYoungerThanHolder'
  BY <1>1, <1>3 DEF LockYoungerThanHolder
<1>6. NoVerdictOnLiveHolder'
  BY <1>1 DEF NoVerdictOnLiveHolder
<1> QED
  BY <1>2, <1>4, <1>5, <1>6

\* An invocation that ends forgets its generation and can drop the lock.
LEMMA EndStep ==
    ASSUME IndInv, NEW i \in Invocations, Forget(i), UNCHANGED object,
           lock' \in {lock, None}
    PROVE  IndInv'
<1> USE DEF IndInv, Forget, Goto
<1>1. TypeOK'
  BY TimeoutAssumption DEF TypeOK, Points
<1>2. /\ ~Holds(i)'
      /\ pc'[i] # "delete"
      /\ gen'[i] = None
      /\ seen'[i] = None
  BY DEF TypeOK, Holds
<1>3. \A j \in Invocations \ {i} :
          /\ pc'[j] = pc[j] /\ gen'[j] = gen[j] /\ seen'[j] = seen[j]
          /\ elapsed'[j] = elapsed[j]
          /\ Holds(j)' <=> Holds(j)
  BY DEF TypeOK, Holds
<1>4. Memory'
  BY <1>2, <1>3 DEF Memory
<1>5. LockYoungerThanHolder'
  <2>1. CASE lock' = lock
    BY <2>1, <1>2, <1>3 DEF LockYoungerThanHolder, LockGen
  <2>2. CASE lock' = None
    BY <2>2, <1>4 DEF LockYoungerThanHolder, LockGen, Memory
  <2> QED
    BY <2>1, <2>2
<1>6. NoVerdictOnLiveHolder'
  BY <1>2, <1>3 DEF NoVerdictOnLiveHolder
<1> QED
  BY <1>1, <1>4, <1>5, <1>6

------------------------------------------------------------------------------
(* Steps on the lock object                                                 *)

LEMMA CreateStep ==
    ASSUME IndInv, NEW i \in Invocations, Create(i)
    PROVE  IndInv'
<1> DEFINE g == CHOOSE x \in Fresh : TRUE
<1>1. /\ g \in Generations
      /\ g # LockGen
      /\ \A j \in Invocations : g # gen[j] /\ g # seen[j]
  BY FreshGeneration DEF Create
<1> HIDE DEF g
<1>2. /\ pc[i] = "create"
      /\ lock' = [gen |-> g, age |-> 0]
      /\ gen' = [gen EXCEPT ![i] = g]
      /\ pc' = [pc EXCEPT ![i] = "read"]
      /\ UNCHANGED <<object, seen, snapshot, elapsed>>
  BY DEF Create, Goto, g
<1> USE DEF IndInv
<1>3. TypeOK'
  BY <1>1, <1>2, TimeoutAssumption DEF TypeOK, Points, LockObject
<1>4. /\ Holds(i)' /\ gen'[i] = g /\ pc'[i] = "read"
      /\ \A j \in Invocations \ {i} :
            /\ gen'[j] = gen[j] /\ pc'[j] = pc[j]
            /\ Holds(j)' <=> Holds(j)
  BY <1>2 DEF TypeOK, Holds
<1>5. Memory'
  BY <1>1, <1>2, <1>4, NoneAssumption DEF Memory
<1>6. LockGen' = g
  <2>1. [gen |-> g, age |-> 0] \in LockObject
    BY <1>1, TimeoutAssumption DEF LockObject
  <2> QED
    BY <1>2, <2>1, NoneAssumption DEF LockGen
<1>7. LockYoungerThanHolder'
  BY <1>1, <1>2, <1>4, <1>6 DEF LockYoungerThanHolder, TypeOK
<1>8. NoVerdictOnLiveHolder'
  BY <1>1, <1>2, <1>4 DEF NoVerdictOnLiveHolder
<1> QED
  BY <1>3, <1>5, <1>7, <1>8

LEMMA CreateUnacknowledgedStep ==
    ASSUME IndInv, NEW i \in Invocations, CreateUnacknowledged(i)
    PROVE  IndInv'
<1> DEFINE g == CHOOSE x \in Fresh : TRUE
<1>1. /\ g \in Generations
      /\ \A j \in Invocations : g # gen[j]
  BY FreshGeneration DEF CreateUnacknowledged
<1> HIDE DEF g
<1>2. /\ pc[i] = "create"
      /\ lock' = [gen |-> g, age |-> 0]
      /\ pc' = [pc EXCEPT ![i] = "inspect"]
      /\ UNCHANGED <<object, gen, seen, snapshot, elapsed>>
  BY DEF CreateUnacknowledged, Goto, g
<1> USE DEF IndInv
<1>3. TypeOK'
  BY <1>1, <1>2, TimeoutAssumption DEF TypeOK, Points, LockObject
<1>4. \A j \in Invocations : /\ Holds(j)' <=> Holds(j)
                             /\ pc'[j] = "delete" <=> pc[j] = "delete"
  BY <1>2 DEF TypeOK, Holds
<1>5. Memory' /\ NoVerdictOnLiveHolder'
  BY <1>2, <1>4 DEF Memory, NoVerdictOnLiveHolder
<1>6. LockGen' = g
  <2>1. [gen |-> g, age |-> 0] \in LockObject
    BY <1>1, TimeoutAssumption DEF LockObject
  <2> QED
    BY <1>2, <2>1, NoneAssumption DEF LockGen
<1>7. LockYoungerThanHolder'
  BY <1>1, <1>2, <1>6 DEF LockYoungerThanHolder
<1> QED
  BY <1>3, <1>5, <1>7

\* The heart of the argument: a lock that is found stale is older than any
\* invocation that still runs can be, so it has no running holder.
LEMMA InspectStaleStep ==
    ASSUME IndInv, NEW i \in Invocations, InspectStale(i)
    PROVE  IndInv'
<1> USE DEF IndInv
<1>1. /\ lock # None /\ lock.age > Stale
      /\ seen' = [seen EXCEPT ![i] = lock.gen]
      /\ pc' = [pc EXCEPT ![i] = "delete"]
      /\ pc[i] = "inspect"
      /\ UNCHANGED <<lock, object, gen, snapshot, elapsed>>
  BY DEF InspectStale, IsStale, Goto
<1>2. LockGen = lock.gen /\ lock.gen \in Generations /\ lock.age \in 0 .. Stale + 1
  BY <1>1, LockGenType
<1>3. TypeOK'
  BY <1>1, <1>2 DEF TypeOK, Points
<1>4. /\ \A j \in Invocations : Holds(j)' <=> Holds(j)
      /\ \A j \in Invocations \ {i} :
            /\ seen'[j] = seen[j]
            /\ pc'[j] = "delete" <=> pc[j] = "delete"
      /\ seen'[i] = lock.gen /\ pc'[i] = "delete"
  BY <1>1 DEF TypeOK, Holds
<1>5. Memory'
  BY <1>1, <1>2, <1>4, NoneAssumption DEF Memory
<1>6. LockYoungerThanHolder'
  BY <1>1, <1>4 DEF LockYoungerThanHolder, LockGen
<1>7. \A j \in Invocations : Holds(j) => gen[j] # lock.gen
  <2> SUFFICES ASSUME NEW j \in Invocations, Holds(j), gen[j] = lock.gen
               PROVE  FALSE
    OBVIOUS
  <2>1. lock.age <= elapsed[j]
    BY <1>2 DEF LockYoungerThanHolder
  <2>2. elapsed[j] \in 0 .. Timeout
    BY DEF TypeOK
  <2> QED
    BY <1>1, <1>2, <2>1, <2>2, TimeoutAssumption
<1>8. NoVerdictOnLiveHolder'
  BY <1>1, <1>4, <1>7 DEF NoVerdictOnLiveHolder
<1> QED
  BY <1>3, <1>5, <1>6, <1>8

\* The deletion after the verdict, with or without effect on the lock.
LEMMA DeleteStep ==
    ASSUME IndInv, NEW i \in Invocations, DeleteLock(i) \/ DeleteFails(i)
    PROVE  IndInv'
<1> USE DEF IndInv
<1>1. /\ lock' \in {lock, None}
      /\ seen' = [seen EXCEPT ![i] = None]
      /\ pc' = [pc EXCEPT ![i] = "create"]
      /\ pc[i] = "delete"
      /\ UNCHANGED <<object, gen, snapshot, elapsed>>
  BY DEF DeleteLock, DeleteFails, Goto
<1>2. TypeOK'
  BY <1>1 DEF TypeOK, Points
<1>3. /\ \A j \in Invocations : Holds(j)' <=> Holds(j)
      /\ \A j \in Invocations \ {i} :
            /\ seen'[j] = seen[j]
            /\ pc'[j] = "delete" <=> pc[j] = "delete"
      /\ seen'[i] = None /\ pc'[i] = "create"
  BY <1>1 DEF TypeOK, Holds
<1>4. Memory'
  BY <1>1, <1>3 DEF Memory
<1>5. LockYoungerThanHolder'
  <2>1. CASE lock' = lock
    BY <2>1, <1>1, <1>3 DEF LockYoungerThanHolder, LockGen
  <2>2. CASE lock' = None
    BY <2>2, <1>4 DEF LockYoungerThanHolder, LockGen, Memory
  <2> QED
    BY <1>1, <2>1, <2>2
<1>6. NoVerdictOnLiveHolder'
  BY <1>1, <1>3 DEF NoVerdictOnLiveHolder
<1> QED
  BY <1>2, <1>4, <1>5, <1>6

\* Time passes for the lock and for its holder alike.
LEMMA TickStep ==
    ASSUME IndInv, Tick
    PROVE  IndInv'
<1> USE DEF IndInv
<1>1. /\ UNCHANGED <<object, pc, gen, seen, snapshot>>
      /\ \A j \in Invocations : Running(j) => elapsed[j] # Timeout
      /\ elapsed' = [j \in Invocations |->
                       IF Running(j) THEN elapsed[j] + 1 ELSE elapsed[j]]
  BY DEF Tick, OutOfTime
<1>2. /\ lock = None => lock' = None
      /\ lock # None => /\ lock' \in LockObject
                        /\ lock'.gen = lock.gen
                        /\ lock'.age <= lock.age + 1
  BY TimeoutAssumption DEF Tick, TypeOK, LockObject
<1>3. TypeOK'
  <2>1. elapsed' \in [Invocations -> 0 .. Timeout]
    BY <1>1, TimeoutAssumption DEF TypeOK
  <2>2. lock' \in LockObject \cup {None}
    BY <1>2 DEF TypeOK
  <2> QED
    BY <1>1, <2>1, <2>2 DEF TypeOK
<1>4. LockGen' = LockGen
  BY <1>2, NoneAssumption DEF LockGen
<1>5. Memory' /\ NoVerdictOnLiveHolder'
  BY <1>1 DEF Memory, NoVerdictOnLiveHolder, Holds
<1>6. LockYoungerThanHolder'
  <2> SUFFICES ASSUME NEW j \in Invocations, Holds(j)', LockGen' = gen'[j]
               PROVE  lock'.age <= elapsed'[j]
    BY DEF LockYoungerThanHolder
  <2>1. Holds(j) /\ Running(j) /\ LockGen = gen[j]
    BY <1>1, <1>4 DEF Holds, Running
  <2>2. lock # None
    BY <2>1, LockGenType DEF Memory
  <2>3. lock.age <= elapsed[j]
    BY <2>1 DEF LockYoungerThanHolder
  <2>4. elapsed'[j] = elapsed[j] + 1
    BY <1>1, <2>1
  <2>5. lock.age \in Nat /\ lock'.age \in Nat /\ elapsed[j] \in Nat
    BY <1>2, <2>2, LockGenType, TimeoutAssumption DEF TypeOK, LockObject
  <2> QED
    BY <1>2, <2>2, <2>3, <2>4, <2>5
<1> QED
  BY <1>3, <1>5, <1>6

LEMMA NextIndInv == IndInv /\ [Next]_vars => IndInv'
<1> SUFFICES ASSUME IndInv, [Next]_vars PROVE IndInv'
  OBVIOUS
<1>1. CASE UNCHANGED vars
  BY <1>1 DEF vars, IndInv, TypeOK, Memory, LockYoungerThanHolder,
              NoVerdictOnLiveHolder, Holds, LockGen
<1>2. CASE Tick
  BY <1>2, TickStep
<1>3. ASSUME NEW i \in Invocations,
             CalmStep(i) \/ DeleteSuccessor(i) \/ ReadErrorIgnored(i)
      PROVE  IndInv'
  <2>1. CASE \/ Start(i) \/ CreateRefused(i) \/ InspectAndRetry(i)
             \/ Read(i) \/ ReadAndReturn(i) \/ ReadErrorIgnored(i)
             \/ Write(i) \/ WriteFails(i)
    BY <2>1, QuietStep
  <2>2. CASE Unlock(i) \/ UnlockFails(i) \/ Crash(i) \/ Expire(i)
    BY <2>2, EndStep DEF Unlock, UnlockFails, Crash, Expire
  <2>3. CASE Create(i)
    BY <2>3, CreateStep
  <2>4. CASE CreateUnacknowledged(i)
    BY <2>4, CreateUnacknowledgedStep
  <2>5. CASE InspectStale(i)
    BY <2>5, InspectStaleStep
  <2>6. CASE DeleteInspected(i) \/ DeleteSuccessor(i) \/ DeleteFails(i)
    BY <2>6, DeleteStep DEF DeleteInspected, DeleteSuccessor
  <2> QED
    BY <1>3, <2>1, <2>2, <2>3, <2>4, <2>5, <2>6 DEF CalmStep
<1> QED
  BY <1>1, <1>2, <1>3 DEF Next, CalmNext

LEMMA Invariance == Spec => []IndInv
BY InitIndInv, NextIndInv, PTL DEF Spec

------------------------------------------------------------------------------

\* The variables of every handler, of the lock and of the state object keep
\* their types, whatever fails.
THEOREM TypeCorrect == Spec => []TypeOK
BY Invariance, PTL DEF IndInv

\* With any number of invocations, no caller ever decides to delete the lock of
\* an invocation that still runs (the timeout is at most the stale age).
THEOREM NoVerdict == Spec => []NoVerdictOnLiveHolder
BY Invariance, PTL DEF IndInv

------------------------------------------------------------------------------
(* Who holds the lock, and what it knows                                    *)

\* Whoever believes that it holds the lock has its generation on the object.
HoldersOwnTheLock ==
    \A i \in Invocations : Holds(i) => LockGen = gen[i]

\* Between its read and its write a handler knows the current state.
SnapshotIsCurrent ==
    \A i \in Invocations : pc[i] = "write" => snapshot[i] = object

HoldersInv == IndInv /\ HoldersOwnTheLock /\ MutualExclusion

CalmInv == HoldersInv /\ SnapshotIsCurrent

LEMMA CalmIsSpec == CalmNext => Next
BY DEF Next

\* Who holds the lock after a calm step: the same invocations, some of them, or
\* the one that created the lock object when there was none.
LEMMA CalmHolders ==
    ASSUME HoldersInv, NEW i \in Invocations, CalmStep(i)
    PROVE  /\ HoldersOwnTheLock'
           /\ MutualExclusion'
<1> USE DEF HoldersInv, IndInv
<1>1. \A j \in Invocations : Holds(j) => gen[j] # None
  BY DEF Memory
<1>2. CASE Create(i)
  <2> DEFINE g == CHOOSE x \in Fresh : TRUE
  <2>1. \A j \in Invocations : ~Holds(j)
    BY <1>1, <1>2 DEF Create, Vacant, LockGen, HoldersOwnTheLock
  <2>2. g \in Generations
    BY <1>2, FreshGeneration DEF Create
  <2> HIDE DEF g
  <2>3. /\ lock' = [gen |-> g, age |-> 0]
        /\ gen'[i] = g
        /\ \A j \in Invocations \ {i} : pc'[j] = pc[j]
    BY <1>2 DEF Create, Goto, g, TypeOK
  <2>4. lock' # None
    BY <2>2, <2>3, NoneAssumption, TimeoutAssumption DEF LockObject
  <2> QED
    BY <2>1, <2>3, <2>4 DEF HoldersOwnTheLock, MutualExclusion, Holds, LockGen
<1>3. CASE CreateUnacknowledged(i)
  <2>1. \A j \in Invocations : ~Holds(j)
    BY <1>1, <1>3 DEF CreateUnacknowledged, Vacant, LockGen, HoldersOwnTheLock
  <2> QED
    BY <1>3, <2>1 DEF CreateUnacknowledged, Goto, HoldersOwnTheLock,
                      MutualExclusion, Holds, TypeOK
<1>4. CASE DeleteInspected(i)
  <2>1. \A j \in Invocations : ~Holds(j) \/ LockGen = None
    BY <1>4 DEF DeleteInspected, DeleteLock, HoldersOwnTheLock,
                NoVerdictOnLiveHolder
  <2>2. \A j \in Invocations : ~Holds(j)
    BY <1>1, <2>1 DEF HoldersOwnTheLock
  <2> QED
    BY <1>4, <2>2 DEF DeleteInspected, DeleteLock, Goto, HoldersOwnTheLock,
                      MutualExclusion, Holds, TypeOK
<1>5. CASE Unlock(i)
  <2>1. \A j \in Invocations \ {i} : ~Holds(j)
    BY <1>5 DEF Unlock, Holds, MutualExclusion
  <2> QED
    BY <1>5, <2>1 DEF Unlock, Forget, Goto, HoldersOwnTheLock, MutualExclusion,
                      Holds, TypeOK
<1>6. CASE \/ Start(i) \/ CreateRefused(i) \/ InspectAndRetry(i)
           \/ InspectStale(i) \/ DeleteFails(i)
           \/ Read(i) \/ ReadAndReturn(i) \/ Write(i) \/ WriteFails(i)
  <2>1. /\ lock' = lock /\ gen' = gen
        /\ \A j \in Invocations : Holds(j)' => Holds(j)
    BY <1>6 DEF Start, CreateRefused, InspectAndRetry, InspectStale,
         DeleteFails, Read, ReadAndReturn, Write, WriteFails, Goto, Holds,
         TypeOK
  <2> QED
    BY <2>1 DEF HoldersOwnTheLock, MutualExclusion, LockGen
<1>7. CASE UnlockFails(i) \/ Crash(i) \/ Expire(i)
  <2>1. /\ lock' = lock
        /\ \A j \in Invocations : Holds(j)' => Holds(j) /\ gen'[j] = gen[j]
    BY <1>7 DEF UnlockFails, Crash, Expire, Forget, Goto, Holds, TypeOK
  <2> QED
    BY <2>1 DEF HoldersOwnTheLock, MutualExclusion, LockGen
<1> QED
  BY <1>2, <1>3, <1>4, <1>5, <1>6, <1>7 DEF CalmStep

LEMMA CalmSnapshots ==
    ASSUME CalmInv, NEW i \in Invocations, CalmStep(i)
    PROVE  SnapshotIsCurrent'
<1> USE DEF CalmInv, HoldersInv, IndInv
<1>1. CASE Write(i)
  <2>1. \A j \in Invocations : pc'[j] # "write"
    BY <1>1 DEF Write, Goto, MutualExclusion, Holds, TypeOK
  <2> QED
    BY <2>1 DEF SnapshotIsCurrent
<1>2. CASE Read(i)
  BY <1>2 DEF Read, Goto, SnapshotIsCurrent, TypeOK
<1>3. CASE ~Write(i) /\ ~Read(i)
  <2>1. /\ object' = object
        /\ \A j \in Invocations :
              pc'[j] = "write" => pc[j] = "write" /\ snapshot'[j] = snapshot[j]
    BY <1>3 DEF CalmStep, Start, Create, CreateUnacknowledged, CreateRefused,
         InspectAndRetry, InspectStale, DeleteInspected, DeleteLock,
         DeleteFails, ReadAndReturn, WriteFails, Unlock, UnlockFails, Crash,
         Expire, Forget, Goto, TypeOK
  <2> QED
    BY <2>1 DEF SnapshotIsCurrent
<1> QED
  BY <1>1, <1>2, <1>3

LEMMA InitHolders == Init => HoldersInv
BY InitIndInv DEF Init, HoldersInv, HoldersOwnTheLock, MutualExclusion, Holds

LEMMA TickHolders ==
    ASSUME HoldersInv, Tick
    PROVE  HoldersOwnTheLock' /\ MutualExclusion'
<1>1. LockGen' = LockGen /\ UNCHANGED <<object, pc, gen, snapshot>>
  BY NoneAssumption, TimeoutAssumption, LockGenType
     DEF Tick, LockGen, HoldersInv, IndInv, TypeOK, LockObject
<1> QED
  BY <1>1 DEF HoldersInv, HoldersOwnTheLock, MutualExclusion, Holds

LEMMA StutterHolders ==
    ASSUME HoldersInv, UNCHANGED vars
    PROVE  HoldersOwnTheLock' /\ MutualExclusion'
BY DEF vars, HoldersInv, HoldersOwnTheLock, MutualExclusion, Holds, LockGen

\* Who is told that the state is empty still holds the lock as before.
LEMMA ReadErrorHolders ==
    ASSUME HoldersInv, NEW i \in Invocations, ReadErrorIgnored(i)
    PROVE  HoldersOwnTheLock' /\ MutualExclusion'
<1>1. /\ lock' = lock /\ gen' = gen
      /\ \A j \in Invocations : Holds(j)' => Holds(j)
  BY DEF ReadErrorIgnored, Goto, Holds, HoldersInv, IndInv, TypeOK
<1> QED
  BY <1>1 DEF HoldersInv, HoldersOwnTheLock, MutualExclusion, LockGen

LEMMA CalmInvariance == CalmSpec => []CalmInv
<1>1. Init => CalmInv
  BY InitHolders DEF Init, CalmInv, SnapshotIsCurrent
<1>2. CalmInv /\ [CalmNext]_vars => CalmInv'
  <2> SUFFICES ASSUME CalmInv, [CalmNext]_vars PROVE CalmInv'
    OBVIOUS
  <2>1. IndInv'
    BY NextIndInv, CalmIsSpec DEF CalmInv, HoldersInv
  <2>2. CASE UNCHANGED vars
    BY <2>1, <2>2, StutterHolders DEF vars, CalmInv, HoldersInv, SnapshotIsCurrent
  <2>3. CASE Tick
    BY <2>1, <2>3, TickHolders DEF Tick, CalmInv, HoldersInv, SnapshotIsCurrent
  <2>4. ASSUME NEW i \in Invocations, CalmStep(i)
        PROVE  CalmInv'
    BY <2>1, <2>4, CalmHolders, CalmSnapshots DEF CalmInv, HoldersInv
  <2> QED
    BY <2>2, <2>3, <2>4 DEF CalmNext
<1> QED
  BY <1>1, <1>2, PTL DEF CalmSpec

------------------------------------------------------------------------------
(* What a condition on the deletion in Lock would achieve                   *)

\* A caller that deletes a lock deletes the one it has inspected, as Unlock
\* deletes its own only.
DeletesInspected ==
    [][\A i \in Invocations :
         pc[i] = "delete" /\ pc'[i] # "delete" /\ lock # None /\ lock' = None
            => lock.gen = seen[i]]_vars

LEMMA ConditionStep ==
    ASSUME HoldersInv, [Next]_vars,
           \A i \in Invocations :
              pc[i] = "delete" /\ pc'[i] # "delete" /\ lock # None /\ lock' = None
                => lock.gen = seen[i]
    PROVE  HoldersInv'
<1>1. IndInv'
  BY NextIndInv DEF HoldersInv
<1>2. ASSUME NEW i \in Invocations, DeleteSuccessor(i)
      PROVE  FALSE
  <2>1. lock # None /\ LockGen = lock.gen /\ lock.gen # seen[i]
    BY <1>2 DEF DeleteSuccessor, LockGen
  <2>2. pc[i] = "delete" /\ pc'[i] = "create" /\ lock' = None
    BY <1>2 DEF DeleteSuccessor, DeleteLock, Goto, HoldersInv, IndInv, TypeOK
  <2> QED
    BY <2>1, <2>2
<1>3. HoldersOwnTheLock' /\ MutualExclusion'
  BY <1>2, CalmHolders, TickHolders, StutterHolders, ReadErrorHolders
  DEF Next, CalmNext
<1> QED
  BY <1>1, <1>3 DEF HoldersInv

\* With that condition at most one invocation is in its critical section,
\* whatever crashes, expires, is not acknowledged or cannot be read: the missing
\* condition is all that breaks the exclusion.
THEOREM ConditionExcludes == Spec /\ DeletesInspected => []MutualExclusion
<1> DEFINE Inspected ==
             \A i \in Invocations :
                pc[i] = "delete" /\ pc'[i] # "delete" /\ lock # None /\ lock' = None
                  => lock.gen = seen[i]
<1>1. HoldersInv /\ [Next]_vars /\ [Inspected]_vars => HoldersInv'
  <2>1. SUFFICES ASSUME HoldersInv, [Next]_vars, [Inspected]_vars
                 PROVE  HoldersInv'
    OBVIOUS
  <2>2. CASE UNCHANGED vars
    BY <2>1, <2>2, StutterHolders, NextIndInv DEF HoldersInv
  <2>3. CASE Inspected
    BY <2>1, <2>3, ConditionStep
  <2> QED
    BY <2>1, <2>2, <2>3
<1>2. HoldersInv => MutualExclusion
  BY DEF HoldersInv
<1> QED
  BY InitHolders, <1>1, <1>2, PTL DEF Spec, DeletesInspected

\* With that condition no caller deletes the lock of an invocation that is in its
\* critical section: what Lock logs when it deletes a lock is true.
THEOREM ConditionSpares == Spec /\ DeletesInspected => DeletesOnlyLeftovers
<1> DEFINE Inspected ==
             \A i \in Invocations :
                pc[i] = "delete" /\ pc'[i] # "delete" /\ lock # None /\ lock' = None
                  => lock.gen = seen[i]
           Spares ==
             \A i, j \in Invocations :
                pc[i] = "delete" /\ pc'[i] # "delete" /\ lock # None /\ lock' = None
                /\ Holds(j) => lock.gen # gen[j]
<1>1. IndInv /\ [Inspected]_vars => [Spares]_vars
  BY DEF IndInv, NoVerdictOnLiveHolder
<1> QED
  BY Invariance, <1>1, PTL DEF DeletesInspected, DeletesOnlyLeftovers

------------------------------------------------------------------------------
(* Executions in which no deletion hits a successor of the inspected lock   *)
(* and no read error is ignored                                             *)

\* Without a late deletion, at most one invocation is in its critical section,
\* whatever crashes, expires or is not acknowledged.
THEOREM Exclusion == CalmSpec => []MutualExclusion
BY CalmInvariance, PTL DEF CalmInv, HoldersInv

\* Without a late deletion and an ignored read error, the state object changes
\* by whole updates: StateLock implements AtomicUpdates.
THEOREM Refinement == CalmSpec => UpdatesAreAtomic
<1>1. Init => Atomic!Init
  BY DEF Init, Atomic!Init
<1>2. CalmInv /\ [CalmNext]_vars => [Atomic!Next]_object
  <2> SUFFICES ASSUME CalmInv, [CalmNext]_vars PROVE [Atomic!Next]_object
    OBVIOUS
  <2>1. CASE UNCHANGED vars
    BY <2>1 DEF vars
  <2>2. CASE Tick
    BY <2>2 DEF Tick
  <2>3. ASSUME NEW i \in Invocations, CalmStep(i)
        PROVE  [Atomic!Next]_object
    <3>1. CASE Write(i)
      BY <3>1 DEF Write, Flip, CalmInv, SnapshotIsCurrent,
                  Atomic!Next, Atomic!Apply, Atomic!Flip
    <3>2. CASE ~Write(i)
      BY <2>3, <3>2 DEF CalmStep, Start, Create, CreateUnacknowledged,
           CreateRefused, InspectAndRetry, InspectStale, DeleteInspected,
           DeleteLock, DeleteFails, Read, ReadAndReturn, WriteFails, Unlock,
           UnlockFails, Crash, Expire
    <3> QED
      BY <3>1, <3>2
  <2> QED
    BY <2>1, <2>2, <2>3 DEF CalmNext
<1> QED
  BY <1>1, <1>2, CalmInvariance, PTL DEF CalmSpec, UpdatesAreAtomic, Atomic!Spec
==============================================================================
