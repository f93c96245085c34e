------------------------------ MODULE StateLock ------------------------------
(***************************************************************************)
(* The lock that guards a cluster's state object (cloud-functions/common). *)
(*                                                                         *)
(* Every operation on the JSON object "state" or "nfs_state" runs in an    *)
(* invocation of the cloud function and is bracketed by LockBucket and     *)
(* UnlockBucket.  The lock is another object of the same bucket: it is     *)
(* taken by creating it on the condition that it does not exist, released  *)
(* by deleting it on the condition that its generation is the one that was *)
(* created, and taken away from a caller that never released it: whoever   *)
(* finds it older than ten minutes deletes it, on no condition.            *)
(*                                                                         *)
(* One action is one request to the storage service.  Between two requests *)
(* of an invocation any request of another one can be served, time can     *)
(* pass, and the invocation can end (a panic, a dropped connection, which  *)
(* cancels the request's context, or the platform's timeout).              *)
(***************************************************************************)
EXTENDS Naturals, FiniteSets

CONSTANTS
    Invocations,   \* slots for concurrent invocations; a slot is used again
    Generations,   \* object generations the storage service hands out
    Timeout,       \* timeout_seconds of the function, in ticks
    Stale,         \* the age above which a lock is taken for a leftover
    None           \* no object, no generation

\* cloud_functions.tf gives an invocation 540 s, Lock calls a lock stale after
\* 600 s.  Nothing below needs more than this order.
ASSUME TimeoutAssumption ==
    /\ Timeout \in Nat
    /\ Stale \in Nat
    /\ Timeout <= Stale

VARIABLES
    lock,       \* the lock object: None or its generation and its age
    object,     \* the state object (see AtomicUpdates for its content)
    pc,         \* the next storage request of each invocation
    gen,        \* "id" returned by Lock: the generation the invocation holds
    seen,       \* generation whose age made the invocation delete the lock
    snapshot,   \* "state", as ReadState returned it
    elapsed     \* ticks since the invocation was started

vars == <<lock, object, pc, gen, seen, snapshot, elapsed>>

Points == {"idle", "create", "inspect", "delete", "read", "write", "unlock"}

\* Ages above Stale + 1 are not told apart.
LockObject == [gen : Generations, age : 0 .. Stale + 1]

ASSUME NoneAssumption == None \notin Generations /\ None \notin LockObject

TypeOK ==
    /\ lock \in LockObject \cup {None}
    /\ object \in SUBSET Invocations
    /\ pc \in [Invocations -> Points]
    /\ gen \in [Invocations -> Generations \cup {None}]
    /\ seen \in [Invocations -> Generations \cup {None}]
    /\ snapshot \in [Invocations -> SUBSET Invocations]
    /\ elapsed \in [Invocations -> 0 .. Timeout]

Init ==
    /\ lock = None
    /\ object = {}
    /\ pc = [i \in Invocations |-> "idle"]
    /\ gen = [i \in Invocations |-> None]
    /\ seen = [i \in Invocations |-> None]
    /\ snapshot = [i \in Invocations |-> {}]
    /\ elapsed = [i \in Invocations |-> 0]

------------------------------------------------------------------------------
(* Helpers                                                                  *)

Running(i) == pc[i] # "idle"

\* i believes that it holds the lock
Holds(i) == pc[i] \in {"read", "write", "unlock"}

\* A generation is never handed out twice.  One that is neither the lock's nor
\* remembered by an invocation is as good as one that was never used.
LockGen == IF lock = None THEN None ELSE lock.gen
Remembered == {LockGen} \cup UNION {{gen[i], seen[i]} : i \in Invocations}
Fresh == Generations \ Remembered

\* Variants that the runs reject: a creation without its condition, other ages,
\* a function without a timeout.
Unconditional == TRUE
StaleAtOnce(l) == l.age > 0
NeverStale(l) == FALSE
NoTimeout(i) == FALSE

\* The condition DoesNotExist of the creation.
Vacant == lock = None

\* time.Since(attrs.Created) > time.Minute*10
IsStale(l) == l.age > Stale

\* The condition GenerationMatch of the deletion in Unlock.
Releases(i) == LockGen = gen[i]

\* timeout_seconds have passed since the invocation was started.
OutOfTime(i) == Running(i) /\ elapsed[i] = Timeout

Goto(i, point) == pc' = [pc EXCEPT ![i] = point]

\* The return of the handler, or its end by any other cause: everything the
\* invocation knew is gone, nothing it did is undone.
Forget(i) ==
    /\ Goto(i, "idle")
    /\ gen' = [gen EXCEPT ![i] = None]
    /\ seen' = [seen EXCEPT ![i] = None]
    /\ snapshot' = [snapshot EXCEPT ![i] = {}]
    /\ elapsed' = [elapsed EXCEPT ![i] = 0]

Flip(value, i) == (value \ {i}) \cup ({i} \ value)

------------------------------------------------------------------------------
(* LockBucket: Lock is called until it succeeds                             *)

\* A handler that reads or changes the state object is called.
Start(i) ==
    /\ pc[i] = "idle"
    /\ Goto(i, "create")
    /\ UNCHANGED <<lock, object, gen, seen, snapshot, elapsed>>

\* w.Close() succeeds: the object did not exist and its generation is the id.
Create(i) ==
    /\ pc[i] = "create"
    /\ Vacant
    /\ Fresh # {}
    /\ LET g == CHOOSE g \in Fresh : TRUE
       IN  /\ lock' = [gen |-> g, age |-> 0]
           /\ gen' = [gen EXCEPT ![i] = g]
    /\ Goto(i, "read")
    /\ UNCHANGED <<object, seen, snapshot, elapsed>>

\* The object is created and the answer is lost: the caller is told that it
\* failed (a retry of the conditional request finds the object there).
CreateUnacknowledged(i) ==
    /\ pc[i] = "create"
    /\ Vacant
    /\ Fresh # {}
    /\ lock' = [gen |-> CHOOSE g \in Fresh : TRUE, age |-> 0]
    /\ Goto(i, "inspect")
    /\ UNCHANGED <<object, gen, seen, snapshot, elapsed>>

\* The precondition fails, or the request does.
CreateRefused(i) ==
    /\ pc[i] = "create"
    /\ Goto(i, "inspect")
    /\ UNCHANGED <<lock, object, gen, seen, snapshot, elapsed>>

\* Attrs fails (the object is gone, or the request is lost), or the lock is
\* young: Lock returns its error and LockBucket calls it again.
InspectAndRetry(i) ==
    /\ pc[i] = "inspect"
    /\ Goto(i, "create")
    /\ UNCHANGED <<lock, object, gen, seen, snapshot, elapsed>>

\* Attrs returns a lock that is too old.  The deletion is another request.
InspectStale(i) ==
    /\ pc[i] = "inspect"
    /\ lock # None
    /\ IsStale(lock)
    /\ seen' = [seen EXCEPT ![i] = lock.gen]
    /\ Goto(i, "delete")
    /\ UNCHANGED <<lock, object, gen, snapshot, elapsed>>

\* lockHandler.Delete(ctx), without a condition on the generation.  Whether it
\* succeeds or not, Lock returns the error of the creation and is called again.
DeleteLock(i) ==
    /\ pc[i] = "delete"
    /\ lock' = None
    /\ seen' = [seen EXCEPT ![i] = None]
    /\ Goto(i, "create")
    /\ UNCHANGED <<object, gen, snapshot, elapsed>>

\* The lock that was inspected is still there, or none is.
DeleteInspected(i) ==
    /\ LockGen \in {None, seen[i]}
    /\ DeleteLock(i)

\* Another caller deleted the stale lock in the meantime and somebody created
\* a new one: that one is deleted.
DeleteSuccessor(i) ==
    /\ LockGen \notin {None, seen[i]}
    /\ DeleteLock(i)

DeleteFails(i) ==
    /\ pc[i] = "delete"
    /\ seen' = [seen EXCEPT ![i] = None]
    /\ Goto(i, "create")
    /\ UNCHANGED <<lock, object, gen, snapshot, elapsed>>

------------------------------------------------------------------------------
(* The critical section: ReadState, the update, RetryWriteState             *)

Read(i) ==
    /\ pc[i] = "read"
    /\ snapshot' = [snapshot EXCEPT ![i] = object]
    /\ Goto(i, "write")
    /\ UNCHANGED <<lock, object, gen, seen, elapsed>>

\* ReadState fails and the operation returns its error; GetClusterState, and an
\* operation that refuses what it read, return here as well.
ReadAndReturn(i) ==
    /\ pc[i] = "read"
    /\ Goto(i, "unlock")
    /\ UNCHANGED <<lock, object, gen, seen, snapshot, elapsed>>

\* UpdateStateReporting drops the error of ReadState and goes on with the zero
\* value of the state.
ReadErrorIgnored(i) ==
    /\ pc[i] = "read"
    /\ snapshot' = [snapshot EXCEPT ![i] = {}]
    /\ Goto(i, "write")
    /\ UNCHANGED <<lock, object, gen, seen, elapsed>>

Write(i) ==
    /\ pc[i] = "write"
    /\ object' = Flip(snapshot[i], i)
    /\ Goto(i, "unlock")
    /\ UNCHANGED <<lock, gen, seen, snapshot, elapsed>>

\* The rate limit of object mutations, or an error before the write.
WriteFails(i) ==
    /\ pc[i] = "write"
    /\ Goto(i, "unlock")
    /\ UNCHANGED <<lock, object, gen, seen, snapshot, elapsed>>

------------------------------------------------------------------------------
(* UnlockBucket                                                             *)

\* If(GenerationMatch: gen).Delete: only the caller's own lock is deleted.
\* UnlockBucket logs a failure and the handler returns.
Unlock(i) ==
    /\ pc[i] = "unlock"
    /\ lock' = IF Releases(i) THEN None ELSE lock
    /\ Forget(i)
    /\ UNCHANGED object

UnlockFails(i) ==
    /\ pc[i] = "unlock"
    /\ Forget(i)
    /\ UNCHANGED <<lock, object>>

------------------------------------------------------------------------------
(* The platform                                                             *)

\* Panic, eviction, or the caller hangs up.
Crash(i) ==
    /\ Running(i)
    /\ Forget(i)
    /\ UNCHANGED <<lock, object>>

\* The request's context is cancelled at its timeout: no later request of the
\* invocation reaches the storage service.
Expire(i) ==
    /\ OutOfTime(i)
    /\ Forget(i)
    /\ UNCHANGED <<lock, object>>

Tick ==
    /\ \A i \in Invocations : ~OutOfTime(i)
    /\ elapsed' = [i \in Invocations |->
                     IF Running(i) THEN elapsed[i] + 1 ELSE elapsed[i]]
    /\ lock' = IF lock # None /\ lock.age <= Stale
                 THEN [lock EXCEPT !.age = @ + 1] ELSE lock
    /\ UNCHANGED <<object, pc, gen, seen, snapshot>>

------------------------------------------------------------------------------

\* The steps that keep whole operations atomic ...
CalmStep(i) ==
    \/ Start(i)
    \/ Create(i)
    \/ CreateUnacknowledged(i)
    \/ CreateRefused(i)
    \/ InspectAndRetry(i)
    \/ InspectStale(i)
    \/ DeleteInspected(i)
    \/ DeleteFails(i)
    \/ Read(i)
    \/ ReadAndReturn(i)
    \/ Write(i)
    \/ WriteFails(i)
    \/ Unlock(i)
    \/ UnlockFails(i)
    \/ Crash(i)
    \/ Expire(i)

CalmNext == Tick \/ \E i \in Invocations : CalmStep(i)

\* ... and the two that do not.
Next ==
    \/ CalmNext
    \/ \E i \in Invocations : DeleteSuccessor(i) \/ ReadErrorIgnored(i)

Spec == Init /\ [][Next]_vars

\* Executions without those two.
CalmSpec == Init /\ [][CalmNext]_vars

\* A handler is called again and again (Cloud Scheduler starts two workflows
\* every minute, instances report), time passes, an invocation that is out of
\* time ends, and a request that can be sent again and again is served some
\* time: not every invocation is ended just before it.
Fairness ==
    /\ WF_vars(Tick)
    /\ \A i \in Invocations :
         /\ WF_vars(Start(i))
         /\ WF_vars(Expire(i))
         /\ SF_vars(~Vacant /\ CreateRefused(i))
         /\ SF_vars(InspectStale(i))
         /\ SF_vars(DeleteLock(i))

FairSpec == Spec /\ Fairness

------------------------------------------------------------------------------
(* Properties                                                               *)

\* Under CalmSpec: at most one invocation is between LockBucket and
\* UnlockBucket.
MutualExclusion ==
    \A i, j \in Invocations : Holds(i) /\ Holds(j) => i = j

\* Under CalmSpec: each handler changes the state object as one step, applied
\* to what the last one wrote (no update is lost, none is applied twice).
Atomic == INSTANCE AtomicUpdates
UpdatesAreAtomic == Atomic!Spec

\* No caller ever decides to delete the lock of an invocation that still runs:
\* the function's timeout is below the age at which Lock calls a lock stale.
NoVerdictOnLiveHolder ==
    \A i, j \in Invocations :
        pc[i] = "delete" /\ Holds(j) => seen[i] # gen[j]

\* A lock that nobody releases, because its creator ended, its unlock failed or
\* its creation was not acknowledged, does not stay for ever.
LockEventuallyFree == []<>(lock = None)

\* What Lock logs when it deletes the lock: "we have indication that unlock
\* failed at some point".  The lock that is deleted would be a leftover, not
\* the lock of an invocation that is in its critical section.
DeletesOnlyLeftovers ==
    [][\A i, j \in Invocations :
         pc[i] = "delete" /\ pc'[i] # "delete" /\ lock # None /\ lock' = None
         /\ Holds(j) => lock.gen # gen[j]]_vars
==============================================================================
