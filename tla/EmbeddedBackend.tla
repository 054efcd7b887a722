-------------------------- MODULE EmbeddedBackend --------------------------
(***************************************************************************)
(* createEmbeddedLocalAI of packages/embedded/src/index.ts, used by the    *)
(* text provider backend of packages/client/src/provider-backend.ts: every *)
(* provider request opens a session, uses it and releases it, while the    *)
(* application may release the whole backend at any moment.  One resource  *)
(* lease is handed from the model store to the runtime and back.  The      *)
(* runtime is seen through its calls only: it may refuse any of them, and  *)
(* what its release() promises is what LlamaRuntime proves.                *)
(***************************************************************************)
EXTENDS Naturals, FiniteSets

CONSTANTS
    Request,    \* provider requests, one session each
    None        \* no request

VARIABLES
    pc,         \* where each request is
    lease,      \* who must release the lease of each request
    context,    \* requests whose native context exists
    loading,    \* the request whose createSession job is running
    active,     \* the request whose wrapper is the active session
    attempt,    \* releaseAttempt of the active wrapper
    closed,     \* release() was called
    poisoned,   \* some cleanup failed or an engine may be damaged
    unresolved, \* unresolvedStoreCleanup
    closer      \* how far the close attempt is

vars == <<pc, lease, context, loading, active, attempt, closed, poisoned, unresolved, closer>>
flags == <<closed, poisoned, unresolved>>

JobPlaces == {"preparing", "checking", "announced", "initializing", "loaded",
              "undoing host", "undoing runtime"}
Places == JobPlaces \cup {"new", "open", "releasing", "done"}
Owners == {"none", "host", "orphan", "runtime", "lost"}
CloseSteps == {"open", "loading", "active", "runtime", "orphan", "resolved", "rejected"}

Goto(r, place) == pc' = [pc EXCEPT ![r] = place]
Give(r, owner) == lease' = [lease EXCEPT ![r] = owner]

Init ==
    /\ pc = [r \in Request |-> "new"]
    /\ lease = [r \in Request |-> "none"]
    /\ context = {}
    /\ loading = None /\ active = None /\ attempt = FALSE
    /\ closed = FALSE /\ poisoned = FALSE /\ unresolved = FALSE
    /\ closer = "open"

-----------------------------------------------------------------------------
(* createSession *)

\* A mutant: only a session that is active refuses another one.
AdmitsWhenPoisoned == ~closed /\ active = None /\ loading = None

Admits == ~closed /\ ~poisoned /\ active = None /\ loading = None

Begin(r) ==
    /\ pc[r] = "new"
    /\ IF Admits THEN loading' = r /\ Goto(r, "preparing")
                 ELSE UNCHANGED loading /\ Goto(r, "done")
    /\ UNCHANGED <<lease, context, active, attempt, flags, closer>>

\* A mutant: a job that failed stays the one in progress.
JobFailsUnnoticed(r) == UNCHANGED loading /\ Goto(r, "done")

\* The job ends without a session: the caller's await throws, loading is reset.
JobFails(r) == loading' = None /\ Goto(r, "done")

\* Policy, availability or device refused, or the store's acquire() threw: the
\* store may report that its own cleanup failed.
NotAcquired(r, cleanupFailed) ==
    /\ pc[r] = "preparing"
    /\ JobFails(r)
    /\ poisoned' = (poisoned \/ cleanupFailed)
    /\ unresolved' = (unresolved \/ cleanupFailed)
    /\ IF cleanupFailed THEN Give(r, "lost") ELSE UNCHANGED lease
    /\ UNCHANGED <<context, active, attempt, closed, closer>>

Acquired(r) ==
    /\ pc[r] = "preparing"
    /\ Give(r, "host") /\ Goto(r, "checking")
    /\ UNCHANGED <<context, loading, active, attempt, flags, closer>>

\* Revision and runtime profile are accepted, onLoad is being told, or not.
Checked(r, accepted) ==
    /\ pc[r] = "checking"
    /\ IF accepted THEN Goto(r, "announced") /\ UNCHANGED lease
                   ELSE Goto(r, "undoing host") /\ Give(r, "orphan")
    /\ UNCHANGED <<context, loading, active, attempt, flags, closer>>

\* onLoad has answered; a backend closed meanwhile stops here.
HandOver(r) ==
    /\ pc[r] = "announced"
    /\ IF closed THEN Goto(r, "undoing host") /\ Give(r, "orphan")
                 ELSE Goto(r, "initializing") /\ Give(r, "runtime")
    /\ UNCHANGED <<context, loading, active, attempt, flags, closer>>

\* engine().createSession(): a context, or a failure after which the runtime has
\* released the lease or keeps it for its release().
Initialized(r) ==
    /\ pc[r] = "initializing"
    /\ context' = context \cup {r} /\ Goto(r, "loaded")
    /\ UNCHANGED <<lease, loading, active, attempt, flags, closer>>

InitializationFails(r) ==
    /\ pc[r] = "initializing"
    /\ Goto(r, "undoing runtime")
    /\ UNCHANGED lease \/ Give(r, "none")
    /\ UNCHANGED <<context, loading, active, attempt, flags, closer>>

\* The second onLoad answers and the wrapper becomes active, or it throws.
Opened(r) ==
    /\ pc[r] = "loaded"
    /\ active' = r /\ attempt' = FALSE /\ loading' = None /\ Goto(r, "open")
    /\ UNCHANGED <<lease, context, flags, closer>>

AnnouncementFails(r) ==
    /\ pc[r] = "loaded"
    /\ Goto(r, "undoing runtime")
    /\ UNCHANGED <<lease, context, loading, active, attempt, flags, closer>>

\* catch, before the hand-over: the host releases the lease itself.
HostUndone(r, ok) ==
    /\ pc[r] = "undoing host"
    /\ JobFails(r)
    /\ IF ok THEN Give(r, "none") ELSE UNCHANGED lease
    /\ poisoned' = (poisoned \/ ~ok)
    /\ UNCHANGED <<context, active, attempt, closed, unresolved, closer>>

\* What release() of the whole runtime leaves when it succeeds.
RuntimeCleared ==
    /\ context' = {}
    /\ lease' = [r \in Request |-> IF lease[r] = "runtime" THEN "none" ELSE lease[r]]

\* catch, after the hand-over: the engine is drained and never trusted again.
RuntimeUndone(r, ok) ==
    /\ pc[r] = "undoing runtime"
    /\ JobFails(r)
    /\ IF ok THEN RuntimeCleared ELSE UNCHANGED <<context, lease>>
    /\ poisoned' = TRUE
    /\ UNCHANGED <<active, attempt, closed, unresolved, closer>>

-----------------------------------------------------------------------------
(* The wrapper's release(), by the provider request and by the close *)

\* complete() or stream() settled, or the client rejected the session's identity:
\* the request releases its session.
Finish(r) ==
    /\ pc[r] = "open"
    /\ IF active = r THEN attempt' = TRUE /\ Goto(r, "releasing")
                     ELSE UNCHANGED attempt /\ Goto(r, "done")
    /\ UNCHANGED <<lease, context, loading, active, flags, closer>>

\* The runtime session's release() settles for everyone who waits on it.
SessionReleased(ok) ==
    /\ attempt /\ attempt' = FALSE
    /\ IF ok
       THEN /\ context' = context \ {active}
            /\ Give(active, "none")
            /\ active' = None /\ UNCHANGED poisoned
       ELSE /\ context' \in {context, context \ {active}}
            /\ poisoned' = TRUE /\ UNCHANGED <<lease, active>>
    /\ pc' = [r \in Request |-> IF pc[r] = "releasing" THEN "done" ELSE pc[r]]
    /\ closer' = IF closer # "active" THEN closer ELSE IF ok THEN "runtime" ELSE "rejected"
    /\ UNCHANGED <<loading, closed, unresolved>>

-----------------------------------------------------------------------------
(* release() of the backend: one attempt, never repeated *)

Close ==
    /\ closer = "open"
    /\ closed' = TRUE /\ closer' = "loading"
    /\ UNCHANGED <<pc, lease, context, loading, active, attempt, poisoned, unresolved>>

\* The job in progress ended either way; the active wrapper is released.
CloseSession ==
    /\ closer = "loading" /\ loading = None
    /\ IF active = None THEN closer' = "runtime" /\ UNCHANGED attempt
                        ELSE closer' = "active" /\ attempt' = TRUE
    /\ UNCHANGED <<pc, lease, context, loading, active, flags>>

CloseFails == closer' = "rejected" /\ poisoned' = TRUE

CloseRuntime(ok) ==
    /\ closer = "runtime"
    /\ IF ok THEN RuntimeCleared /\ closer' = "orphan" /\ UNCHANGED poisoned
             ELSE CloseFails /\ UNCHANGED <<context, lease>>
    /\ UNCHANGED <<pc, loading, active, attempt, closed, unresolved>>

CloseOrphan(ok) ==
    /\ closer = "orphan"
    /\ IF ok THEN lease' = [r \in Request |-> IF lease[r] = "orphan" THEN "none" ELSE lease[r]]
             ELSE UNCHANGED lease
    /\ IF ok /\ ~unresolved THEN closer' = "resolved" /\ UNCHANGED poisoned
                            ELSE CloseFails
    /\ UNCHANGED <<pc, context, loading, active, attempt, closed, unresolved>>

-----------------------------------------------------------------------------
Job(r) ==
    \/ \E failed \in BOOLEAN : NotAcquired(r, failed) \/ Checked(r, failed)
    \/ Acquired(r) \/ HandOver(r) \/ Initialized(r) \/ InitializationFails(r)
    \/ Opened(r) \/ AnnouncementFails(r)
    \/ \E ok \in BOOLEAN : HostUndone(r, ok) \/ RuntimeUndone(r, ok)

Closing == CloseSession \/ \E ok \in BOOLEAN : CloseRuntime(ok) \/ CloseOrphan(ok)

Next ==
    \/ \E r \in Request : Begin(r) \/ Job(r) \/ Finish(r)
    \/ \E ok \in BOOLEAN : SessionReleased(ok)
    \/ Close \/ Closing

Spec == Init /\ [][Next]_vars

\* Every call of the store, the runtime and onLoad settles, and requests end.
Fairness ==
    /\ \A r \in Request : WF_vars(Job(r)) /\ WF_vars(Finish(r))
    /\ WF_vars(\E ok \in BOOLEAN : SessionReleased(ok))
    /\ WF_vars(Closing)

FairSpec == Spec /\ Fairness

-----------------------------------------------------------------------------
(* Properties *)

\* Every variable has its type.
TypeOK ==
    /\ pc \in [Request -> Places]
    /\ lease \in [Request -> Owners]
    /\ context \subseteq Request
    /\ loading \in Request \cup {None} /\ active \in Request \cup {None}
    /\ \A r \in Request : loading = r <=> pc[r] \in JobPlaces
    /\ active # None => pc[active] \in Places \ (JobPlaces \cup {"new"})
    /\ attempt \in BOOLEAN
    /\ closed \in BOOLEAN /\ poisoned \in BOOLEAN /\ unresolved \in BOOLEAN
    /\ closer \in CloseSteps

Leased == {r \in Request : lease[r] # "none"}

\* However releases fail, the process never holds two model leases: a lease that
\* could not be returned shuts the backend.
OneLeaseAtATime == \A r, s \in Leased \cup context : r = s

\* A native context never outlives the lease on the file it maps, and that lease
\* is the runtime's: the host does not release it under the context.
ContextKeepsItsLease == \A r \in context : lease[r] = "runtime"

\* release() resolves only when nothing is left: no lease, no context, no
\* session, and none being created.
CloseMeansClean ==
    closer = "resolved" => Leased = {} /\ context = {} /\ active = None /\ loading = None

\* No model is initialized once the close has begun to release the runtime: a
\* load that the close overtakes is stopped or waited for.
NoLoadUnderClose ==
    closer \in {"active", "runtime", "orphan", "resolved"}
        => \A r \in Request : pc[r] \notin {"initializing", "loaded"}

\* Why: where a request is says who has its lease, and only a request that loads
\* or is served has one, unless the backend is poisoned.
LeaseInv ==
    \A r \in Request :
        /\ pc[r] \in {"new", "preparing"} => lease[r] = "none"
        /\ pc[r] \in {"checking", "announced"} <=> lease[r] = "host"
        /\ pc[r] = "undoing host" => lease[r] = "orphan"
        /\ pc[r] = "undoing runtime" => lease[r] \in {"runtime", "none"}
        /\ pc[r] \in {"initializing", "loaded"} \/ active = r => lease[r] = "runtime"
        /\ pc[r] = "initializing" => r \notin context
        /\ lease[r] = "lost" => unresolved
        /\ lease[r] # "none" =>
              /\ loading \in {None, r} /\ active \in {None, r}
              /\ loading = r \/ active = r \/ poisoned

\* Why: the close waits for the load, then for the session, then for the runtime.
CloseInv ==
    /\ closed <=> closer # "open"
    /\ closer \notin {"open", "loading"} => loading = None
    /\ closer \in {"runtime", "orphan", "resolved"} => active = None
    /\ closer = "orphan" => \A r \in Request : lease[r] # "runtime"
    /\ attempt => active # None
    /\ active # None => loading = None

\* The lease goes from store to runtime and back without ever being forgotten,
\* doubled or outlived by the context: inductive.
LeaseIsTracked ==
    /\ TypeOK /\ LeaseInv /\ CloseInv
    /\ OneLeaseAtATime /\ ContextKeepsItsLease /\ CloseMeansClean /\ NoLoadUnderClose

\* Every request and the close end, whatever fails.
RequestsEnd == \A r \in Request : pc[r] = "preparing" ~> pc[r] = "done"
CloseSettles == closed ~> closer \in {"resolved", "rejected"}

\* Nobody waits for ever: no request and no caller of release().
EverybodyEnds == RequestsEnd /\ CloseSettles
=============================================================================
