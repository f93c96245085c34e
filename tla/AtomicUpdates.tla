---------------------------- MODULE AtomicUpdates ----------------------------
(***************************************************************************)
(* What the callers of LockBucket / ReadState / RetryWriteState /          *)
(* UnlockBucket are promised: the JSON state object of a cluster is        *)
(* changed by whole read-modify-write operations, one at a time, each one  *)
(* applied to the value the previous one left.                             *)
(*                                                                         *)
(* An update is a function of the state that was read.  Here the update of *)
(* invocation i flips i's membership, so an update that is applied to an   *)
(* outdated value, or to an empty one, is visible as a step that changes   *)
(* something else than i.                                                  *)
(***************************************************************************)
CONSTANT Invocations

VARIABLE object   \* invocations that applied an odd number of updates

Flip(value, i) == (value \ {i}) \cup ({i} \ value)

Init == object = {}

Apply(i) == object' = Flip(object, i)

Next == \E i \in Invocations : Apply(i)

Spec == Init /\ [][Next]_object
==============================================================================
