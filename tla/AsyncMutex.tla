----------------------------- MODULE AsyncMutex -----------------------------
(***************************************************************************)
(* The promise-chain mutex of packages/runtime-llama-rn/src/mutex.ts.      *)
(* runExclusive() chains every caller behind the previous tail, so a mutex *)
(* is the sequence of its callers in call order: the head is running its   *)
(* work, the rest are waiting, and unlock() runs whether the work resolved *)
(* or threw.  The model-store queues of this repository are built the same *)
(* way (a tail promise per root).                                          *)
(***************************************************************************)
EXTENDS Sequences

\* runExclusive(work): the caller becomes the new tail.
Enter(queue, caller) == Append(queue, caller)

\* The caller whose work is running.
Holds(queue, caller) == queue # << >> /\ Head(queue) = caller

\* finally { unlock() }: the next caller's `await previous` resolves.
Leave(queue) == Tail(queue)
=============================================================================
