---------------------------- MODULE LlamaRuntime ----------------------------
(***************************************************************************)
(* packages/runtime-llama-rn/src/runtime.ts: the ContextPool, the Sessions *)
(* that share its native contexts, the streams they run and the shutdown   *)
(* of the whole LlamaRnRuntime, as one event loop interleaves them.        *)
(*                                                                         *)
(* Granularity.  JavaScript runs to completion, so a step is everything    *)
(* between two native answers: the synchronous code plus the microtasks it *)
(* settles.  A native call that is awaited is a state of its own ("at" for *)
(* the pool, "stage" for a stream) and ends by a step that succeeds or,    *)
(* while the bound MaxFaults allows, fails.                                *)
(*                                                                         *)
(* Identity.  A Session of the model is one createSession() call.  The     *)
(* ContextEntry (or PendingContextCleanup) object made by a call is named  *)
(* by that call: entry e is the object the acquire() of call e created.    *)
(***************************************************************************)
EXTENDS AsyncMutex, Naturals, FiniteSets

CONSTANTS Session,            \* createSession() calls
          Key,                \* context keys: model uri, lease id, profile
          Leased,             \* the keys whose model comes with a lease
          Request,            \* stream() calls
          Id,                 \* request ids callers may repeat
          MaxLoadedContexts,  \* LlamaRnRuntimeOptions.maxLoadedContexts
          MaxFaults,          \* bound: native release/load failures of a behaviour
          None                \* no key, no entry, no session

ASSUME RuntimeAssumption ==
    /\ IsFiniteSet(Session)
    /\ Leased \subseteq Key
    /\ MaxLoadedContexts \in Nat \ {0}
    /\ MaxFaults \in Nat
    /\ None \notin Session \cup Key \cup Id

VARIABLES
    \* ContextPool
    lifecycle,        \* lifecycleMutex: the tasks in call order
    at,               \* the native answer the running task waits for, or "idle"
    target,           \* the entry that answer is about
    todo,             \* releaseAll: resources not visited yet
    failed,           \* releaseAll: some cleanup failed
    entries,          \* the ContextEntry objects in the entries map
    pendingCleanup,   \* the objects in the pendingCleanup map
    references,       \* ContextEntry.references
    contextReleased,  \* .contextReleased of either object
    leaseReleased,    \* .leaseReleased of either object
    \* what really happened behind the bridge
    context,          \* "none" | "live" | "gone", per creating call
    lease,            \* "held" | "returned", per key
    faults,           \* native failures so far
    \* Session
    phase,            \* "unused" .. "released" or "failed"
    keyOf,            \* options of the call
    entryOf,          \* Session.entry
    attempt,          \* Session.releaseAttempt
    late,             \* sessions built while the runtime was closing (history)
    \* LlamaRnRuntime
    runtime,          \* "open" | "closing" | "released"
    shutdown,         \* where performRelease() is, or "none"
    awaited,          \* session release attempts it waits for
    retryFailed,      \* one of the second round was rejected
    \* streams
    sessionOf,        \* the session a stream was admitted to
    idOf,             \* its response id
    stage,            \* "none" .. "done"
    aborted,          \* its AbortController
    interrupted,      \* stopCompletion() hit its native completion
    outcome,          \* the terminal event
    lane              \* operationMutex of each entry

poolVars    == <<lifecycle, at, target, todo, failed>>
entryVars   == <<entries, pendingCleanup, references, contextReleased, leaseReleased>>
nativeVars  == <<context, lease, faults>>
sessionVars == <<phase, keyOf, entryOf, attempt, late>>
runtimeVars == <<runtime, shutdown, awaited, retryFailed>>
streamVars  == <<sessionOf, idOf, stage, aborted, interrupted, outcome, lane>>

vars == <<poolVars, entryVars, nativeVars, sessionVars, runtimeVars, streamVars>>

-----------------------------------------------------------------------------
Task == [op : {"acquire", "release"}, by : Session] \cup [op : {"releaseAll"}, by : {None}]

Acquire(s)  == [op |-> "acquire", by |-> s]
Release(s)  == [op |-> "release", by |-> s]
ReleaseAll  == [op |-> "releaseAll", by |-> None]

Init ==
    /\ lifecycle = << >> /\ at = "idle" /\ target = None /\ todo = {} /\ failed = FALSE
    /\ entries = {} /\ pendingCleanup = {}
    /\ references = [e \in Session |-> 0]
    /\ contextReleased = [e \in Session |-> FALSE]
    /\ leaseReleased = [e \in Session |-> FALSE]
    /\ context = [e \in Session |-> "none"]
    /\ lease = [k \in Key |-> "held"]
    /\ faults = 0
    /\ phase = [s \in Session |-> "unused"]
    /\ keyOf = [s \in Session |-> None]
    /\ entryOf = [s \in Session |-> None]
    /\ attempt = [s \in Session |-> "none"]
    /\ late = {}
    /\ runtime = "open" /\ shutdown = "none" /\ awaited = {} /\ retryFailed = FALSE
    /\ sessionOf = [r \in Request |-> None]
    /\ idOf = [r \in Request |-> None]
    /\ stage = [r \in Request |-> "none"]
    /\ aborted = [r \in Request |-> FALSE]
    /\ interrupted = [r \in Request |-> FALSE]
    /\ outcome = [r \in Request |-> "none"]
    /\ lane = [e \in Session |-> << >>]

-----------------------------------------------------------------------------
(* Helpers.                                                                *)

EntryAt(k)   == {e \in entries : keyOf[e] = k}            \* entries.get(key)
PendingAt(k) == {e \in pendingCleanup : keyOf[e] = k}     \* pendingCleanup.has(key)

\* The runtime's `sessions` set: added when built, deleted by onRelease.
Live == {s \in Session : phase[s] \in {"open", "closing"}}

\* `jobs` of a session: streams admitted and not settled.
Jobs(s) == {r \in Request : sessionOf[r] = s /\ stage[r] # "done"}

InLane(r) == stage[r] \in {"preparing", "completing"}

\* A native call may fail while the bound allows it.
Fault == /\ faults < MaxFaults
         /\ faults' = faults + 1

\* context.stopCompletion() reaches whatever completion the context is running.
HitBy(e) == {r \in Request : stage[r] = "completing" /\ entryOf[sessionOf[r]] = e}
Interrupt(es) ==
    interrupted' = [r \in Request |-> interrupted[r] \/ \E e \in es : r \in HitBy(e)]

\* Mutant of AbortAll: the stopNative listener is attached before the lane is ours.
AbortAllStopsQueued(R) ==
    /\ aborted' = [r \in Request |-> aborted[r] \/ r \in R]
    /\ Interrupt({entryOf[sessionOf[r]] : r \in R})

\* abort() of the controllers of R.  Only a request that owns the lane has the
\* stopNative listener, so only its context is asked to stop.
AbortAll(R) ==
    /\ aborted' = [r \in Request |-> aborted[r] \/ r \in R]
    /\ Interrupt({entryOf[sessionOf[r]] : r \in {q \in R : InLane(q) /\ ~aborted[q]}})

-----------------------------------------------------------------------------
(* ContextPool.acquire, run under lifecycleMutex.                          *)

\* createSession(): refused unless the runtime is open; acquire() queues up.
\* The caller holds the lease it passes.
CreateSession(s, k) ==
    /\ runtime = "open"
    /\ phase[s] = "unused"
    /\ lease[k] = "held"
    /\ phase' = [phase EXCEPT ![s] = "acquiring"]
    /\ keyOf' = [keyOf EXCEPT ![s] = k]
    /\ lifecycle' = Enter(lifecycle, Acquire(s))
    /\ UNCHANGED <<at, target, todo, failed, entryVars, nativeVars, entryOf,
                   attempt, late, runtimeVars, streamVars>>

Starting(task) == Holds(lifecycle, task) /\ at = "idle"

Waiting(task, where) == Holds(lifecycle, task) /\ at = where

Shareable(e) == references[e] > 0 /\ ~contextReleased[e]

Full == Cardinality(entries) + Cardinality(pendingCleanup) >= MaxLoadedContexts

\* new Session(...), this.sessions.add(session): same turn as the acquire().
BuildSession(s, e) ==
    /\ phase' = [phase EXCEPT ![s] = "open"]
    /\ entryOf' = [entryOf EXCEPT ![s] = e]
    /\ late' = IF runtime = "open" THEN late ELSE late \cup {s}
    /\ UNCHANGED <<keyOf, attempt>>

\* acquire() throws: the mutex is unlocked and createSession() rejects.
RejectSession(s) ==
    /\ phase' = [phase EXCEPT ![s] = "failed"]
    /\ UNCHANGED <<keyOf, entryOf, attempt, late>>

\* The pool's task is over; what it was doing is forgotten.
EndTask ==
    /\ lifecycle' = Leave(lifecycle)
    /\ at' = "idle"
    /\ target' = None
    /\ UNCHANGED <<todo, failed>>

\* Pending cleanup of the key, an entry awaiting cleanup, or no room.
AcquireRefused(s) ==
    /\ Starting(Acquire(s))
    /\ \/ PendingAt(keyOf[s]) # {}
       \/ \E e \in EntryAt(keyOf[s]) : ~Shareable(e)
       \/ EntryAt(keyOf[s]) = {} /\ Full
    /\ RejectSession(s)
    /\ EndTask
    /\ UNCHANGED <<entryVars, nativeVars, runtimeVars, streamVars>>

\* Mutant of AcquireShared: the new holder is not counted.
AcquireSharedUncounted(s) ==
    /\ Starting(Acquire(s))
    /\ PendingAt(keyOf[s]) = {}
    /\ \E e \in EntryAt(keyOf[s]) : Shareable(e) /\ BuildSession(s, e)
    /\ EndTask
    /\ UNCHANGED <<entryVars, nativeVars, runtimeVars, streamVars>>

\* An active entry of the same key is shared.
AcquireShared(s) ==
    /\ Starting(Acquire(s))
    /\ PendingAt(keyOf[s]) = {}
    /\ \E e \in EntryAt(keyOf[s]) :
         /\ Shareable(e)
         /\ references' = [references EXCEPT ![e] = @ + 1]
         /\ BuildSession(s, e)
    /\ EndTask
    /\ UNCHANGED <<entries, pendingCleanup, contextReleased, leaseReleased,
                   nativeVars, runtimeVars, streamVars>>

\* A new context: module, parameters, file check, descriptor, initLlama.
StartLoad(s) ==
    /\ Starting(Acquire(s))
    /\ PendingAt(keyOf[s]) = {} /\ EntryAt(keyOf[s]) = {} /\ ~Full
    /\ at' = "load"
    /\ target' = s
    /\ UNCHANGED <<lifecycle, todo, failed, entryVars, nativeVars, sessionVars,
                   runtimeVars, streamVars>>

\* The entry is registered with one reference.  A lease that was returned
\* while the call queued fails its inspection (store.ts leases inspect).
LoadSucceeds(s) ==
    /\ Waiting(Acquire(s), "load")
    /\ lease[keyOf[s]] = "held"
    /\ context' = [context EXCEPT ![s] = "live"]
    /\ entries' = entries \cup {s}
    /\ references' = [references EXCEPT ![s] = 1]
    /\ contextReleased' = [contextReleased EXCEPT ![s] = FALSE]
    /\ leaseReleased' = [leaseReleased EXCEPT ![s] = keyOf[s] \notin Leased]
    /\ BuildSession(s, s)
    /\ EndTask
    /\ UNCHANGED <<pendingCleanup, lease, faults, runtimeVars, streamVars>>

\* Failure before a context exists: only the lease has to be given back.
LoadFails(s) ==
    /\ Waiting(Acquire(s), "load")
    /\ IF lease[keyOf[s]] = "held" THEN Fault ELSE UNCHANGED faults
    /\ contextReleased' = [contextReleased EXCEPT ![s] = TRUE]
    /\ leaseReleased' = [leaseReleased EXCEPT ![s] = keyOf[s] \notin Leased]
    /\ IF keyOf[s] \in Leased
       THEN at' = "undoLease" /\ UNCHANGED <<lifecycle, target, todo, failed, sessionVars>>
       ELSE EndTask /\ RejectSession(s)
    /\ UNCHANGED <<entries, pendingCleanup, references, context, lease,
                   runtimeVars, streamVars>>

\* initLlama() answered but reportCapabilities() threw: destroy the context.
CapabilityReportFails(s) ==
    /\ Waiting(Acquire(s), "load")
    /\ lease[keyOf[s]] = "held"
    /\ Fault
    /\ context' = [context EXCEPT ![s] = "live"]
    /\ contextReleased' = [contextReleased EXCEPT ![s] = FALSE]
    /\ leaseReleased' = [leaseReleased EXCEPT ![s] = keyOf[s] \notin Leased]
    /\ at' = "undoContext"
    /\ UNCHANGED <<lifecycle, target, todo, failed, entries, pendingCleanup,
                   references, lease, sessionVars, runtimeVars, streamVars>>

\* Mutant of UndoContext: a context that failed to release is not kept for retry.
UndoContextForgets(s) ==
    /\ Waiting(Acquire(s), "undoContext")
    /\ Fault
    /\ EndTask /\ RejectSession(s)
    /\ UNCHANGED <<entryVars, context, lease, runtimeVars, streamVars>>

\* The best-effort context.release() of a failed acquire(); the lease is only
\* tried after it succeeded.
UndoContext(s) ==
    /\ Waiting(Acquire(s), "undoContext")
    /\ \/ /\ context' = [context EXCEPT ![s] = "gone"]
          /\ contextReleased' = [contextReleased EXCEPT ![s] = TRUE]
          /\ IF keyOf[s] \in Leased
             THEN at' = "undoLease" /\ UNCHANGED <<lifecycle, target, todo, failed, sessionVars>>
             ELSE EndTask /\ RejectSession(s)
          /\ UNCHANGED <<pendingCleanup, faults>>
       \/ /\ Fault
          /\ pendingCleanup' = pendingCleanup \cup {s}
          /\ EndTask /\ RejectSession(s)
          /\ UNCHANGED <<context, contextReleased>>
    /\ UNCHANGED <<entries, references, leaseReleased, lease, runtimeVars, streamVars>>

\* The lease.release() of a failed acquire(); what is left stays registered.
UndoLease(s) ==
    /\ Waiting(Acquire(s), "undoLease")
    /\ \/ /\ lease' = [lease EXCEPT ![keyOf[s]] = "returned"]
          /\ leaseReleased' = [leaseReleased EXCEPT ![s] = TRUE]
          /\ UNCHANGED <<pendingCleanup, faults>>
       \/ /\ lease[keyOf[s]] = "held"
          /\ Fault
          /\ pendingCleanup' = pendingCleanup \cup {s}
          /\ UNCHANGED <<lease, leaseReleased>>
    /\ EndTask /\ RejectSession(s)
    /\ UNCHANGED <<entries, references, contextReleased, context, runtimeVars, streamVars>>

-----------------------------------------------------------------------------
(* Session.release.                                                        *)

\* A releaseAttempt of session s settles; the runtime may be waiting for it.
Settle(s, ok) ==
    /\ attempt' = [attempt EXCEPT ![s] = "none"]
    /\ phase' = [phase EXCEPT ![s] = IF ok THEN "released" ELSE "closing"]
    /\ awaited' = awaited \ {s}
    /\ retryFailed' = (retryFailed \/ (shutdown = "retry" /\ s \in awaited /\ ~ok))
    /\ UNCHANGED <<keyOf, entryOf, late, runtime, shutdown>>

\* release() of every session of S that has no attempt yet: it closes, its
\* streams are cancelled, and it waits for its jobs.
CloseSessions(S) ==
    LET new == {s \in S : attempt[s] = "none"} IN
    /\ phase' = [s \in Session |-> IF s \in new THEN "closing" ELSE phase[s]]
    /\ attempt' = [s \in Session |-> IF s \in new THEN "draining" ELSE attempt[s]]
    /\ AbortAll({r \in Request : \E s \in new : r \in Jobs(s)})
    /\ UNCHANGED <<keyOf, entryOf, late>>

ReleaseSession(s) ==
    /\ s \in Live
    /\ attempt[s] = "none"
    /\ CloseSessions({s})
    /\ UNCHANGED <<poolVars, entryVars, nativeVars, runtimeVars,
                   sessionOf, idOf, stage, outcome, lane>>

\* Mutant of SessionDrained: the jobs are not awaited.
SessionDrainedEarly(s) ==
    /\ attempt[s] = "draining"
    /\ attempt' = [attempt EXCEPT ![s] = "queued"]
    /\ lifecycle' = Enter(lifecycle, Release(s))
    /\ UNCHANGED <<at, target, todo, failed, entryVars, nativeVars, phase, keyOf,
                   entryOf, late, runtimeVars, streamVars>>

\* Promise.allSettled(jobs) resolved: pool.release() queues up.
SessionDrained(s) ==
    /\ attempt[s] = "draining"
    /\ Jobs(s) = {}
    /\ attempt' = [attempt EXCEPT ![s] = "queued"]
    /\ lifecycle' = Enter(lifecycle, Release(s))
    /\ UNCHANGED <<at, target, todo, failed, entryVars, nativeVars, phase, keyOf,
                   entryOf, late, runtimeVars, streamVars>>

\* Mutant of CleanupFrom: the lease goes first.
CleanupFromLease(e) == IF leaseReleased[e] THEN "context" ELSE "lease"

\* cleanupResource starts with the first of context and lease not released.
CleanupFrom(e) == IF contextReleased[e] THEN "lease" ELSE "context"

\* pool.release() finds the entry by KEY; nothing there means nothing to do.
ReleaseFindsNothing(s) ==
    /\ Starting(Release(s))
    /\ EntryAt(keyOf[entryOf[s]]) = {}
    /\ Settle(s, TRUE)
    /\ EndTask
    /\ UNCHANGED <<entryVars, nativeVars, streamVars>>

\* Another session still references the entry.
ReleaseShared(s) ==
    /\ Starting(Release(s))
    /\ \E e \in EntryAt(keyOf[entryOf[s]]) :
         /\ references[e] > 1
         /\ references' = [references EXCEPT ![e] = @ - 1]
    /\ Settle(s, TRUE)
    /\ EndTask
    /\ UNCHANGED <<entries, pendingCleanup, contextReleased, leaseReleased,
                   nativeVars, streamVars>>

\* The last reference (or a retry at zero): clean the resource up.
ReleaseLast(s) ==
    /\ Starting(Release(s))
    /\ \E e \in EntryAt(keyOf[entryOf[s]]) :
         /\ references[e] <= 1
         /\ references' = [references EXCEPT ![e] = 0]
         /\ at' = CleanupFrom(e)
         /\ target' = e
    /\ UNCHANGED <<lifecycle, todo, failed, entries, pendingCleanup, contextReleased,
                   leaseReleased, nativeVars, sessionVars, runtimeVars, streamVars>>

-----------------------------------------------------------------------------
(* ContextPool.releaseAll and cleanupResource.                             *)

\* Mutant of StartReleaseAll: failed initialisations are not visited.
StartReleaseAllEntriesOnly ==
    /\ Starting(ReleaseAll)
    /\ at' = "next"
    /\ todo' = entries
    /\ failed' = FALSE
    /\ UNCHANGED <<lifecycle, target, entryVars, nativeVars, sessionVars,
                   runtimeVars, streamVars>>

\* The entries first, then the pending ones, as the two loops do.
StartReleaseAll ==
    /\ Starting(ReleaseAll)
    /\ at' = "next"
    /\ todo' = entries \cup pendingCleanup
    /\ failed' = FALSE
    /\ UNCHANGED <<lifecycle, target, entryVars, nativeVars, sessionVars,
                   runtimeVars, streamVars>>

\* One iteration: drop the references, stop a completion, then clean up.
VisitNext(e) ==
    /\ Waiting(ReleaseAll, "next")
    /\ e \in todo
    /\ todo \cap entries # {} => e \in entries
    /\ todo' = todo \ {e}
    /\ references' = [references EXCEPT ![e] = 0]
    /\ target' = e
    /\ IF contextReleased[e]
       THEN at' = "lease" /\ UNCHANGED interrupted
       ELSE at' = "stop" /\ Interrupt({e})
    /\ UNCHANGED <<lifecycle, failed, entries, pendingCleanup, contextReleased,
                   leaseReleased, nativeVars, sessionVars, runtimeVars,
                   sessionOf, idOf, stage, aborted, outcome, lane>>

\* stopCompletion() answered (its failure is swallowed): context.release().
Stopped ==
    /\ Waiting(ReleaseAll, "stop")
    /\ at' = "context"
    /\ UNCHANGED <<lifecycle, target, todo, failed, entryVars, nativeVars,
                   sessionVars, runtimeVars, streamVars>>

\* What follows a finished (ok) or thrown cleanupResource(target).
AfterCleanup(ok) ==
    \/ /\ Head(lifecycle) = ReleaseAll
       /\ at' = "next"
       /\ target' = None
       /\ failed' = (failed \/ ~ok)
       /\ UNCHANGED <<lifecycle, todo, sessionVars, runtimeVars>>
    \/ \E s \in Session :
         /\ Head(lifecycle) = Release(s)
         /\ Settle(s, ok)
         /\ EndTask

Unregister(e) == /\ entries' = entries \ {e}
                 /\ pendingCleanup' = pendingCleanup \ {e}

Cleaning(where) == lifecycle # << >> /\ at = where

\* context.release() resolves: go on with the lease, if there is one.
ContextCleaned ==
    /\ Cleaning("context")
    /\ context' = [context EXCEPT ![target] = "gone"]
    /\ contextReleased' = [contextReleased EXCEPT ![target] = TRUE]
    /\ IF leaseReleased[target]
       THEN /\ Unregister(target)
            /\ AfterCleanup(TRUE)
       ELSE /\ at' = "lease"
            /\ UNCHANGED <<lifecycle, target, todo, failed, entries, pendingCleanup,
                           sessionVars, runtimeVars>>
    /\ UNCHANGED <<references, leaseReleased, lease, faults, streamVars>>

\* context.release() rejects: the resource stays registered for a retry.
ContextCleanupFails ==
    /\ Cleaning("context")
    /\ Fault
    /\ AfterCleanup(FALSE)
    /\ UNCHANGED <<entryVars, context, lease, streamVars>>

LeaseCleaned ==
    /\ Cleaning("lease")
    /\ lease' = [lease EXCEPT ![keyOf[target]] = "returned"]
    /\ leaseReleased' = [leaseReleased EXCEPT ![target] = TRUE]
    /\ Unregister(target)
    /\ AfterCleanup(TRUE)
    /\ UNCHANGED <<references, contextReleased, context, faults, streamVars>>

LeaseCleanupFails ==
    /\ Cleaning("lease")
    /\ Fault
    /\ AfterCleanup(FALSE)
    /\ UNCHANGED <<entryVars, context, lease, streamVars>>

-----------------------------------------------------------------------------
(* LlamaRnRuntime.release and performRelease.                              *)

\* Mutant of ReleaseRuntime: a failed shutdown cannot be repeated.
ReleaseRuntimeOnce ==
    /\ runtime = "open"
    /\ shutdown = "none"
    /\ runtime' = "closing"
    /\ shutdown' = "sessions"
    /\ awaited' = Live
    /\ retryFailed' = FALSE
    /\ CloseSessions(Live)
    /\ UNCHANGED <<poolVars, entryVars, nativeVars, sessionOf, idOf, stage, outcome, lane>>

\* First round: release every session the runtime knows of now.
ReleaseRuntime ==
    /\ runtime # "released"
    /\ shutdown = "none"
    /\ runtime' = "closing"
    /\ shutdown' = "sessions"
    /\ awaited' = Live
    /\ retryFailed' = FALSE
    /\ CloseSessions(Live)
    /\ UNCHANGED <<poolVars, entryVars, nativeVars, sessionOf, idOf, stage, outcome, lane>>

\* Promise.allSettled of the first round: releaseAll() queues up.
SessionsSettled ==
    /\ shutdown = "sessions"
    /\ awaited = {}
    /\ shutdown' = "pool"
    /\ lifecycle' = Enter(lifecycle, ReleaseAll)
    /\ UNCHANGED <<at, target, todo, failed, entryVars, nativeVars, sessionVars,
                   runtime, awaited, retryFailed, streamVars>>

\* releaseAll() over.  Failures reject the attempt and leave the runtime
\* closing; otherwise the sessions still registered are released once more.
FinishReleaseAll ==
    /\ Waiting(ReleaseAll, "next")
    /\ todo = {}
    /\ EndTask
    /\ IF failed
       THEN /\ shutdown' = "none"
            /\ UNCHANGED <<awaited, sessionVars, streamVars>>
       ELSE /\ shutdown' = "retry"
            /\ awaited' = Live
            /\ CloseSessions(Live)
            /\ UNCHANGED <<sessionOf, idOf, stage, outcome, lane>>
    /\ UNCHANGED <<runtime, retryFailed, entryVars, nativeVars>>

\* Second round settled: the runtime is released unless one was rejected.
RetriesSettled ==
    /\ shutdown = "retry"
    /\ awaited = {}
    /\ shutdown' = "none"
    /\ runtime' = IF retryFailed THEN "closing" ELSE "released"
    /\ UNCHANGED <<awaited, retryFailed, poolVars, entryVars, nativeVars,
                   sessionVars, streamVars>>

-----------------------------------------------------------------------------
(* Session.stream, run, cancel.                                            *)

\* An admitted stream: its id is free and its session is open.  The caller's
\* signal may be aborted already.
Stream(s, r, i) ==
    /\ stage[r] = "none"
    /\ phase[s] = "open"
    /\ \A q \in Jobs(s) : idOf[q] # i
    /\ sessionOf' = [sessionOf EXCEPT ![r] = s]
    /\ idOf' = [idOf EXCEPT ![r] = i]
    /\ stage' = [stage EXCEPT ![r] = "waiting"]
    /\ \E b \in BOOLEAN : aborted' = [aborted EXCEPT ![r] = b]
    /\ lane' = [lane EXCEPT ![entryOf[s]] = Enter(@, r)]
    /\ UNCHANGED <<poolVars, entryVars, nativeVars, sessionVars, runtimeVars,
                   interrupted, outcome>>

\* A closing or released session, an id in use, an invalid request: started
\* and failed at once, without entering the lane.
StreamRefused(s, r) ==
    /\ stage[r] = "none"
    /\ phase[s] \in {"open", "closing", "released"}
    /\ sessionOf' = [sessionOf EXCEPT ![r] = s]
    /\ stage' = [stage EXCEPT ![r] = "done"]
    /\ outcome' = [outcome EXCEPT ![r] = "failed"]
    /\ UNCHANGED <<poolVars, entryVars, nativeVars, sessionVars, runtimeVars,
                   idOf, aborted, interrupted, lane>>

\* Mutant of EndStream: the lane is not unlocked.
EndStreamKeepsLane(r, result) ==
    /\ stage' = [stage EXCEPT ![r] = "done"]
    /\ outcome' = [outcome EXCEPT ![r] = result]
    /\ UNCHANGED <<sessionOf, idOf, aborted, interrupted, lane>>

\* The job settles with its terminal event and unlocks the lane.
EndStream(r, result) ==
    /\ stage' = [stage EXCEPT ![r] = "done"]
    /\ outcome' = [outcome EXCEPT ![r] = result]
    /\ lane' = [lane EXCEPT ![entryOf[sessionOf[r]]] = Leave(@)]
    /\ UNCHANGED <<sessionOf, idOf, aborted, interrupted>>

Advance(r, to) ==
    /\ stage' = [stage EXCEPT ![r] = to]
    /\ UNCHANGED <<sessionOf, idOf, aborted, interrupted, outcome, lane>>

\* The lane is ours: a cancelled request fails, another tokenises its prompt
\* and clears the cache.
EnterLane(r) ==
    /\ stage[r] = "waiting"
    /\ Holds(lane[entryOf[sessionOf[r]]], r)
    /\ IF aborted[r] THEN EndStream(r, "failed") ELSE Advance(r, "preparing")
    /\ UNCHANGED <<poolVars, entryVars, nativeVars, sessionVars, runtimeVars>>

\* clearCache() answered: last abort check before the native completion.
Prepared(r) ==
    /\ stage[r] = "preparing"
    /\ IF aborted[r] THEN EndStream(r, "failed") ELSE Advance(r, "completing")
    /\ UNCHANGED <<poolVars, entryVars, nativeVars, sessionVars, runtimeVars>>

\* The native completion resolved: the result of an aborted one is dropped.
Completed(r) ==
    /\ stage[r] = "completing"
    /\ EndStream(r, IF aborted[r] THEN "failed" ELSE "completed")
    /\ UNCHANGED <<poolVars, entryVars, nativeVars, sessionVars, runtimeVars>>

\* Context budget exceeded or a native call rejected.
StreamFails(r) ==
    /\ InLane(r)
    /\ EndStream(r, "failed")
    /\ UNCHANGED <<poolVars, entryVars, nativeVars, sessionVars, runtimeVars>>

\* cancel(id), the caller's signal, or the consumer leaving the iterator.
AbortStream(r) ==
    /\ stage[r] \notin {"none", "done"}
    /\ ~aborted[r]
    /\ AbortAll({r})
    /\ UNCHANGED <<poolVars, entryVars, nativeVars, sessionVars, runtimeVars,
                   sessionOf, idOf, stage, outcome, lane>>

\* cancel() without an id.
CancelAll(s) ==
    /\ s \in Live
    /\ \E r \in Jobs(s) : ~aborted[r]
    /\ AbortAll(Jobs(s))
    /\ UNCHANGED <<poolVars, entryVars, nativeVars, sessionVars, runtimeVars,
                   sessionOf, idOf, stage, outcome, lane>>

-----------------------------------------------------------------------------
PoolStep ==
    \/ \E s \in Session :
         \/ AcquireRefused(s) \/ AcquireShared(s) \/ StartLoad(s)
         \/ LoadSucceeds(s) \/ LoadFails(s) \/ CapabilityReportFails(s)
         \/ UndoContext(s) \/ UndoLease(s)
         \/ ReleaseFindsNothing(s) \/ ReleaseShared(s) \/ ReleaseLast(s)
         \/ VisitNext(s)
    \/ StartReleaseAll \/ Stopped \/ FinishReleaseAll
    \/ ContextCleaned \/ ContextCleanupFails \/ LeaseCleaned \/ LeaseCleanupFails

RuntimeStep == SessionsSettled \/ RetriesSettled

StreamStep(r) == EnterLane(r) \/ Prepared(r) \/ Completed(r) \/ StreamFails(r)

UserStep ==
    \/ \E s \in Session, k \in Key : CreateSession(s, k)
    \/ \E s \in Session : ReleaseSession(s) \/ CancelAll(s)
    \/ \E s \in Session, r \in Request, i \in Id : Stream(s, r, i)
    \/ \E s \in Session, r \in Request : StreamRefused(s, r)
    \/ \E r \in Request : AbortStream(r)
    \/ ReleaseRuntime

Next == \/ PoolStep
        \/ RuntimeStep
        \/ \E s \in Session : SessionDrained(s)
        \/ \E r \in Request : StreamStep(r)
        \/ UserStep

Spec == Init /\ [][Next]_vars

\* Every native call is answered eventually and the event loop runs what its
\* answers settle; callers owe nothing, except where a run says so.
Fairness == /\ WF_vars(PoolStep)
            /\ WF_vars(RuntimeStep)
            /\ \A s \in Session : WF_vars(SessionDrained(s))
            /\ \A r \in Request : WF_vars(StreamStep(r))

FairSpec == Spec /\ Fairness

-----------------------------------------------------------------------------
(* Properties.                                                             *)

PoolTypes ==
    /\ lifecycle \in Seq(Task)
    /\ at \in {"idle", "load", "undoContext", "undoLease", "next", "stop", "context", "lease"}
    /\ target \in Session \cup {None}
    /\ todo \in SUBSET Session
    /\ failed \in BOOLEAN
EntryTypes ==
    /\ entries \in SUBSET Session
    /\ pendingCleanup \in SUBSET Session
    /\ references \in [Session -> Nat]
    /\ contextReleased \in [Session -> BOOLEAN]
    /\ leaseReleased \in [Session -> BOOLEAN]
NativeTypes ==
    /\ context \in [Session -> {"none", "live", "gone"}]
    /\ lease \in [Key -> {"held", "returned"}]
    /\ faults \in 0..MaxFaults
SessionTypes ==
    /\ phase \in [Session -> {"unused", "acquiring", "open", "closing", "released", "failed"}]
    /\ keyOf \in [Session -> Key \cup {None}]
    /\ entryOf \in [Session -> Session \cup {None}]
    /\ attempt \in [Session -> {"none", "draining", "queued"}]
    /\ late \in SUBSET Session
RuntimeTypes ==
    /\ runtime \in {"open", "closing", "released"}
    /\ shutdown \in {"none", "sessions", "pool", "retry"}
    /\ awaited \in SUBSET Session
    /\ retryFailed \in BOOLEAN
StreamTypes ==
    /\ sessionOf \in [Request -> Session \cup {None}]
    /\ idOf \in [Request -> Id \cup {None}]
    /\ stage \in [Request -> {"none", "waiting", "preparing", "completing", "done"}]
    /\ aborted \in [Request -> BOOLEAN]
    /\ interrupted \in [Request -> BOOLEAN]
    /\ outcome \in [Request -> {"none", "completed", "failed"}]
    /\ lane \in [Session -> Seq(Request)]

\* Every variable of the runtime, its pool, sessions and streams has its type;
\* in particular a reference count never becomes negative.
TypeOK == /\ PoolTypes /\ EntryTypes /\ NativeTypes
          /\ SessionTypes /\ RuntimeTypes /\ StreamTypes

\* The runtime keeps the promise of NativeResources: contexts live once and
\* within the limit, leases go back only after their contexts are destroyed.
Native == INSTANCE NativeResources WITH Context <- Session, modelOf <- keyOf
ResourcesRespected == Native!Spec

\* Release looks the entry up by key.  It can never hit an entry other than
\* the session's own, and no key is in the two maps or twice in one.
Registered == entries \cup pendingCleanup
KeyedLookupIsExact ==
    /\ \A e, f \in Registered : keyOf[e] = keyOf[f] => e = f
    /\ entries \cap pendingCleanup = {}
    /\ \A s \in Live : EntryAt(keyOf[entryOf[s]]) \subseteq {entryOf[s]}

\* While anybody may still share an entry, its reference count is exactly the
\* number of sessions that have not given it back.
Holders(e) == {s \in Live : entryOf[s] = e}
ReferencesCountHolders ==
    \A e \in entries : references[e] > 0 => references[e] = Cardinality(Holders(e))

\* An open session that existed when the shutdown began has a live context no
\* other session's release can take away.  (A session whose acquire() was still
\* under way when the runtime began to close is the exception: see README.)
OpenSessionKeepsContext ==
    \A s \in Session \ late : phase[s] = "open" =>
        /\ entryOf[s] \in entries
        /\ references[entryOf[s]] > 0
        /\ context[entryOf[s]] = "live"

\* From here on no acquire() is queued or running, nor ever will be.
NoMoreSessions == runtime # "open" /\ \A s \in Session : phase[s] # "acquiring"

\* Why: every acquire() waits in the mutex before the shutdown's releaseAll(),
OrderInv ==
    /\ runtime = "open" => shutdown = "none"
    /\ \A s \in Session : phase[s] = "acquiring" => \E i \in 1..Len(lifecycle) : lifecycle[i] = Acquire(s)
    /\ \A i, j \in 1..Len(lifecycle) : lifecycle[i] = ReleaseAll /\ lifecycle[j].op = "acquire" => j < i

\* a session's entry goes, or its references do, only with its last holder or when
\* nobody can load the key again, and what is cleaned up has no references,
EntryInv ==
    /\ \A s \in Live :
         /\ entryOf[s] \in Session \ pendingCleanup
         /\ phase[entryOf[s]] \notin {"unused", "acquiring"}
         /\ entryOf[s] \notin entries => NoMoreSessions /\ EntryAt(keyOf[entryOf[s]]) = {}
    /\ \A e \in entries :
         IF references[e] = 0
         THEN NoMoreSessions \/ \A s, t \in Holders(e) : s = t /\ phase[s] = "closing"
         ELSE ~contextReleased[e]
    /\ at \in {"stop", "context", "lease"} =>
         /\ references[target] = 0
         /\ \A s \in Session : Holds(lifecycle, Release(s)) => target = entryOf[s]

\* and a session that may still stream keeps the shutdown waiting.
UserInv ==
    \A s \in Session :
        /\ Jobs(s) # {} => phase[s] = "open" \/ attempt[s] = "draining"
        /\ s \notin late /\ phase[s] = "open" => runtime = "open"
        /\ s \notin late /\ Jobs(s) # {} => runtime = "open" \/ (shutdown = "sessions" /\ s \in awaited)
        /\ s \notin late /\ (phase[s] = "open" \/ Jobs(s) # {}) =>
              entryOf[s] \in entries /\ references[entryOf[s]] > 0

\* Sharing a context is safe: lookups by key find the session's own entry, the
\* count of its holders is exact, and nobody's release takes it from another.
SharingIsExact ==
    /\ KeyedLookupIsExact /\ ReferencesCountHolders /\ OpenSessionKeepsContext
    /\ OrderInv /\ EntryInv /\ UserInv

\* No native call of a stream runs on a context that is destroyed or being
\* destroyed, sessions built during the shutdown excepted.
NoCallOnDyingContext ==
    \A r \in Request : InLane(r) /\ sessionOf[r] \notin late =>
        LET e == entryOf[sessionOf[r]] IN
        /\ context[e] = "live"
        /\ ~(target = e /\ at \in {"stop", "context", "lease"})

\* "Aborting a queued request never stops a different session's active
\* completion": a completion is stopped only on behalf of its own request, and
\* one that was stopped half-way is never reported as an answer.
StopHitsOnlyItsOwner ==
    \A r \in Request :
        /\ interrupted[r] /\ sessionOf[r] \notin late => aborted[r] /\ outcome[r] # "completed"
        /\ interrupted[r] => stage[r] \in {"completing", "done"}
        /\ outcome[r] # "none" => stage[r] = "done"

\* "Keep failed cleanup registered for a safe retry": whatever fails, a live
\* context or a lease the pool has taken stays in one of the maps (or in the
\* hands of the acquire() undoing it) until it is gone.
Owed(e) == \/ context[e] = "live"
           \/ contextReleased[e] /\ keyOf[e] \in Leased /\ lease[keyOf[e]] = "held"
NothingIsForgotten ==
    \A e \in Session : Owed(e) =>
        e \in Registered \/ (target = e /\ at \in {"undoContext", "undoLease"})

\* A released runtime owns nothing and nobody is waiting in it.
ReleasedMeansClean ==
    runtime = "released" =>
        /\ Registered = {} /\ lifecycle = << >>
        /\ \A e \in Session : ~Owed(e)
        /\ \A s \in Session : phase[s] \in {"unused", "failed", "released"}
        /\ \A r \in Request : stage[r] \in {"none", "done"}

\* "With pool cleanup now complete, retry it so its public lifecycle can
\* finish": the second round of session releases never fails.
SecondRoundCannotFail == ~retryFailed

\* Why: a releaseAll() that has not failed has visited whatever it has not to
\* visit any more, and the second round finds no session but those it waits for.
ShutdownInv ==
    /\ Holds(lifecycle, ReleaseAll) /\ at # "idle" /\ ~failed =>
          Registered \subseteq todo \cup (IF at = "next" THEN {} ELSE {target})
    /\ shutdown = "retry" => NoMoreSessions /\ Registered = {} /\ Live \subseteq awaited
    /\ runtime = "released" => shutdown = "none"

\* release() of the runtime resolves only over nothing, and its last round of
\* session releases finds nothing that could still fail.
ShutdownIsClean == ReleasedMeansClean /\ SecondRoundCannotFail /\ ShutdownInv

\* What makes the promises inductive.  First the mutex: no task is queued twice,
\* each is queued only while its caller waits for it, and only a session that is
\* closing has a release attempt.
Justified(task) ==
    /\ task.op = "acquire" => phase[task.by] = "acquiring"
    /\ task.op = "release" => attempt[task.by] = "queued"
    /\ task.op = "releaseAll" => shutdown = "pool"
QueueInv ==
    /\ \A i \in 1..Len(lifecycle) :
         /\ Justified(lifecycle[i])
         /\ \A j \in 1..Len(lifecycle) : lifecycle[j] = lifecycle[i] => j = i
    /\ \A s \in Session : attempt[s] # "none" => phase[s] = "closing"

\* The lanes: who runs native calls is at the head of the lane of its entry, and
\* only sessions that were built have streams.
LaneInv ==
    \A r \in Request :
        /\ stage[r] # "none" =>
              /\ sessionOf[r] \in Session
              /\ phase[sessionOf[r]] \in {"open", "closing", "released"}
        /\ InLane(r) => Holds(lane[entryOf[sessionOf[r]]], r)

\* Where the running task is: what it knows of the maps and of its target.
Undoing == at \in {"undoContext", "undoLease"}
TaskInv ==
    /\ at \in {"load", "undoContext", "undoLease"} =>
          /\ target \in Session
          /\ Holds(lifecycle, Acquire(target))
          /\ EntryAt(keyOf[target]) = {} /\ PendingAt(keyOf[target]) = {} /\ ~Full
    /\ at = "undoContext" => context[target] = "live" /\ ~contextReleased[target]
    /\ at = "undoLease" => context[target] # "live" /\ contextReleased[target]
    /\ at \in {"stop", "context", "lease"} =>
          /\ target \in Registered
          /\ \/ Holds(lifecycle, ReleaseAll) /\ target \notin todo
             \/ \E s \in Session : Holds(lifecycle, Release(s))
    /\ at \in {"stop", "context"} => ~contextReleased[target]
    /\ at = "lease" => contextReleased[target]
    /\ at = "next" => Holds(lifecycle, ReleaseAll)
    /\ at # "idle" /\ Holds(lifecycle, ReleaseAll) => todo \subseteq Registered

\* The resources: who is registered, under which key, and what its flags say of
\* the native side.
ResourceInv ==
    /\ \A s \in Session :
         /\ phase[s] = "unused" => keyOf[s] = None
         /\ phase[s] # "unused" => keyOf[s] \in Key
         /\ phase[s] \in {"unused", "acquiring"} =>
               /\ s \notin Registered
               /\ context[s] # "none" \/ contextReleased[s] => Undoing /\ target = s
         /\ context[s] = "live" => s \in Registered \/ (at = "undoContext" /\ target = s)
    /\ \A e \in Registered : contextReleased[e] <=> context[e] # "live"
    /\ \A e, f \in Registered : keyOf[e] = keyOf[f] => e = f
    /\ entries \cap pendingCleanup = {}
    /\ \A e \in Session : e \in Registered \/ (Undoing /\ target = e) =>
         (leaseReleased[e] => keyOf[e] \notin Leased \/ lease[keyOf[e]] = "returned")

\* The inductive invariant of the theorems about resources.
ResourcesInductive == TypeOK /\ QueueInv /\ LaneInv /\ TaskInv /\ ResourceInv /\ NothingIsForgotten

\* Every admitted stream reaches its terminal event.
StreamsSettle == \A r \in Request : stage[r] # "none" ~> stage[r] = "done"

\* Every release attempt of a session or of the runtime settles: no attempt
\* waits for another in a circle through mutex, lanes and jobs.
AttemptsSettle ==
    /\ \A s \in Session : attempt[s] # "none" ~> attempt[s] = "none"
    /\ shutdown # "none" ~> shutdown = "none"

\* Nobody waits for ever: no stream, no release, no shutdown.
EverythingSettles == StreamsSettle /\ AttemptsSettle

\* Failed cleanups are safe to retry: a caller that keeps calling release()
\* ends with a released runtime once native failures stop.
PersistentSpec == FairSpec /\ WF_vars(runtime = "closing" /\ ReleaseRuntime)
RetryReleases == runtime = "closing" ~> runtime = "released"
=============================================================================
