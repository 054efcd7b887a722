----------------------------- MODULE BinderHub -----------------------------
(***************************************************************************)
(* The Android Hub and its clients, end to end: ModelCommonsService.kt and *)
(* InferenceCoordinator in the Hub process, AndroidHubClient.kt in each    *)
(* client process, BinderSession of androidTransport.ts in its JavaScript. *)
(* Calls from a client are synchronous; events travel back one way, one at *)
(* a time: the Hub's worker waits for an acknowledgement before it emits   *)
(* the next.  The Hub or a client may die, a caller may be revoked, a      *)
(* client may disconnect, and every wait has a deadline.                   *)
(***************************************************************************)
EXTENDS Integers, Sequences, FiniteSets

CONSTANTS
    Client,     \* the client processes followed here, one session each
    Others,     \* all the other clients of the Hub
    MaxStreams, \* bound: streams the clients start
    MaxDeltas,  \* bound: text events of one stream
    Fault,      \* what may go wrong: a subset of Faults
    MaxFaults,  \* bound: how often it does
    None

Faults == {"hub dies", "client dies", "revoked", "disconnect", "timeout", "idle"}
ASSUME FaultAssumption == Fault \subseteq Faults
ASSUME NamesAssumption == Others \notin Client /\ None \notin Client /\ Others # None
ASSUME BoundsAssumption == MaxStreams \in Nat /\ MaxDeltas \in Nat /\ MaxFaults \in Nat

VARIABLES
    \* the Hub process
    alive,      \* the process runs
    gate,       \* InferenceCoordinator.owner, as the client whose operation it is
    elsewhere,  \* an operation of another client runs
    session,    \* "absent", "open", "closed" (closed, but an operation still runs)
    op,         \* the operation of each session
    delivery,   \* the event submitted to the callback thread
    authorized, \* the caller's approval
    \* between the processes
    wire,       \* one-way events on their way to each client
    present,    \* the client process runs
    \* AndroidHubClient
    linked,     \* the connection the client considers current
    native,     \* the entry in operations, if live
    credit,     \* pendingDelivery: the sequence the script has not acknowledged
    main,       \* events posted to the main thread
    \* BinderSession
    js,         \* where stream() or release() is
    pending, failure, \* its variables of the same names
    completed,  \* the terminal event was response.completed
    view,       \* the events stream() has yielded
    broken,     \* stream() threw before a terminal event
    streams,    \* streams started
    accused,    \* an INTEGRITY_FAILED was raised against the Hub
    faults      \* faults so far

hub == <<gate, session, op, delivery>>
world == <<alive, elsewhere, authorized, present>>
nativeVars == <<linked, native, credit, main>>
reader == <<pending, failure, completed, view, broken, streams>>
script == <<js, reader>>
monitor == <<accused, faults>>
vars == <<hub, world, wire, nativeVars, script, monitor>>

Fails(kind) == kind \in Fault /\ faults < MaxFaults /\ faults' = faults + 1
Maybe(condition, kind) == (condition /\ UNCHANGED faults) \/ (~condition /\ Fails(kind))

NoOp == [at |-> "none", kind |-> "started", req |-> 0, cancelled |-> FALSE,
         next |-> 0, acked |-> FALSE, terminal |-> FALSE, deltas |-> 0]
Gone == [live |-> FALSE, req |-> 0, started |-> FALSE, next |-> 0]

Terminals == {"completed", "failed"}
Streaming == {"calling", "accepted", "refused", "waiting", "yielded"}

Init ==
    /\ alive = TRUE /\ gate = None /\ elsewhere = FALSE /\ delivery = None
    /\ session = [c \in Client |-> "absent"]
    /\ op = [c \in Client |-> NoOp]
    /\ authorized = [c \in Client |-> TRUE] /\ present = [c \in Client |-> TRUE]
    /\ wire = [c \in Client |-> << >>] /\ main = [c \in Client |-> << >>]
    /\ linked = [c \in Client |-> TRUE]
    /\ native = [c \in Client |-> Gone]
    /\ credit = [c \in Client |-> None]
    /\ js = [c \in Client |-> "none"]
    /\ pending = [c \in Client |-> None] /\ failure = [c \in Client |-> FALSE]
    /\ completed = [c \in Client |-> FALSE]
    /\ view = [c \in Client |-> << >>] /\ broken = [c \in Client |-> FALSE]
    /\ streams = 0 /\ accused = [c \in Client |-> FALSE] /\ faults = 0

-----------------------------------------------------------------------------
(* The Hub's side of a call *)

Connected(c) == linked[c] /\ alive
Owned(c) == alive /\ authorized[c] /\ session[c] # "absent"
Busy(c) == op[c].at # "none"

Stopped(c) == [op EXCEPT ![c].cancelled = Busy(c)]

\* close(): the operation is told to stop; the entry goes with its last user.
Close(c) ==
    /\ session' = [session EXCEPT ![c] = IF Busy(c) THEN "closed" ELSE "absent"]
    /\ op' = Stopped(c)

\* cancel()
HubCancels(c) ==
    IF Connected(c) /\ Owned(c) THEN op' = Stopped(c) ELSE UNCHANGED op

-----------------------------------------------------------------------------
(* AndroidHubClient *)

Event(c, kind, sequence) == [kind |-> kind, req |-> native[c].req, seq |-> sequence, local |-> FALSE]
Local(c, kind) == [Event(c, kind, 0) EXCEPT !.local = TRUE]

\* A mutant: a failure before the stream has started comes alone.
FailsAlone(c) ==
    IF native[c].live
    THEN /\ native' = [native EXCEPT ![c].live = FALSE]
         /\ credit' = [credit EXCEPT ![c] = None]
         /\ main' = [main EXCEPT ![c] = Append(@, Local(c, "failed"))]
    ELSE UNCHANGED <<native, credit, main>>

\* failOperationLocked: the script gets a terminal event made here, after a
\* response.started made here if none was let through.
FailLocally(c) ==
    IF native[c].live
    THEN /\ native' = [native EXCEPT ![c].live = FALSE]
         /\ credit' = [credit EXCEPT ![c] = None]
         /\ main' = [main EXCEPT ![c] = @ \o
              (IF native[c].started THEN << >> ELSE <<Local(c, "started")>>) \o <<Local(c, "failed")>>]
    ELSE UNCHANGED <<native, credit, main>>

\* The request was never started: it is forgotten without an event.
Forget(c) ==
    /\ native' = [native EXCEPT ![c].live = FALSE]
    /\ UNCHANGED <<credit, main>>

\* putIfAbsent and validateStreamEvent
InOrder(c, e) ==
    /\ credit[c] = None
    /\ e.seq = native[c].next /\ (e.kind = "started" <=> ~native[c].started)

\* onEvent
EventArrives(c) ==
    /\ wire[c] # << >>
    /\ wire' = [wire EXCEPT ![c] = Tail(@)]
    /\ LET e == Head(wire[c]) IN
       IF ~native[c].live \/ e.req # native[c].req
       THEN UNCHANGED <<native, credit, main, accused>>
       ELSE IF InOrder(c, e)
       THEN /\ credit' = [credit EXCEPT ![c] = e.seq]
            /\ native' = [native EXCEPT ![c].live = e.kind \notin Terminals,
                                        ![c].started = TRUE, ![c].next = e.seq + 1]
            /\ main' = [main EXCEPT ![c] = Append(@, e)]
            /\ UNCHANGED accused
       ELSE FailLocally(c) /\ accused' = [accused EXCEPT ![c] = TRUE]
    /\ UNCHANGED <<hub, world, linked, script, faults>>

\* handleTransportDeath, on the main thread.
TransportDies(c) ==
    /\ linked[c] /\ ~alive
    /\ linked' = [linked EXCEPT ![c] = FALSE]
    /\ FailLocally(c)
    /\ UNCHANGED <<hub, world, wire, script, monitor>>

\* close(): the application disconnects; every known session is released.
Disconnect(c) ==
    /\ Fails("disconnect") /\ linked[c] /\ present[c]
    /\ linked' = [linked EXCEPT ![c] = FALSE]
    /\ IF Owned(c) /\ js[c] # "creating" THEN Close(c) ELSE UNCHANGED <<session, op>>
    /\ IF native[c].live THEN FailLocally(c)
       ELSE credit' = [credit EXCEPT ![c] = None] /\ UNCHANGED <<native, main>>
    /\ UNCHANGED <<world, gate, delivery, wire, script, accused>>

-----------------------------------------------------------------------------
(* BinderSession *)

Goto(c, place) == js' = [js EXCEPT ![c] = place]

\* createSession: the Hub has created the session.
HubCreates(c) ==
    /\ js[c] = "none" /\ Connected(c) /\ authorized[c] /\ present[c]
    /\ session' = [session EXCEPT ![c] = "open"]
    /\ Goto(c, "creating")
    /\ UNCHANGED <<world, gate, op, delivery, wire, nativeVars, reader, monitor>>

\* A mutant: a session that arrives too late is only forgotten.
CreateReturnsLate(c) ==
    /\ js[c] = "creating"
    /\ Goto(c, IF Connected(c) THEN "idle" ELSE "gone")
    /\ UNCHANGED <<hub, world, wire, nativeVars, reader, monitor>>

\* ... and the answer is looked at: a session of a connection that is not current
\* any more is given back.
CreateReturns(c) ==
    /\ js[c] = "creating"
    /\ IF Connected(c) THEN Goto(c, "idle") /\ UNCHANGED <<session, op>>
       ELSE /\ Goto(c, "gone")
            /\ IF Owned(c) THEN Close(c) ELSE UNCHANGED <<session, op>>
    /\ UNCHANGED <<world, gate, delivery, wire, nativeVars, reader, monitor>>

\* stream() and generate() up to the remote call.
Stream(c) ==
    /\ js[c] \in {"idle", "stale"} /\ Connected(c) /\ streams < MaxStreams
    /\ credit[c] = None /\ ~native[c].live
    /\ streams' = streams + 1
    /\ native' = [native EXCEPT ![c] = [live |-> TRUE, req |-> streams + 1, started |-> FALSE, next |-> 0]]
    /\ pending' = [pending EXCEPT ![c] = None] /\ failure' = [failure EXCEPT ![c] = FALSE]
    /\ completed' = [completed EXCEPT ![c] = FALSE]
    /\ view' = [view EXCEPT ![c] = << >>] /\ broken' = [broken EXCEPT ![c] = FALSE]
    /\ Goto(c, "calling")
    /\ UNCHANGED <<hub, world, wire, linked, credit, main, monitor>>

\* A mutant: each Service instance admits an operation of its own.
AdmitsBeside(c) == Owned(c) /\ session[c] = "open" /\ ~Busy(c)

Admits(c) == Owned(c) /\ session[c] = "open" /\ ~Busy(c) /\ gate = None

\* generate() of the Hub: the gate is taken, the worker has a task.
HubGenerates(c) ==
    /\ js[c] = "calling" /\ alive
    /\ IF Admits(c)
       THEN /\ gate' = c /\ op' = [op EXCEPT ![c] = [NoOp EXCEPT !.at = "queued", !.req = native[c].req]]
            /\ Goto(c, "accepted")
       ELSE UNCHANGED <<gate, op>> /\ Goto(c, "refused")
    /\ UNCHANGED <<world, session, delivery, wire, nativeVars, reader, monitor>>

\* generate() returns: a request that was refused or whose connection changed ends
\* here, the script then throws.
GenerateReturns(c) ==
    /\ js[c] \in {"accepted", "refused"} \/ (js[c] = "calling" /\ ~alive)
    /\ IF js[c] = "accepted" /\ Connected(c)
       THEN Goto(c, "waiting") /\ UNCHANGED <<native, credit, main, broken>>
       ELSE /\ Goto(c, "cleanup") /\ broken' = [broken EXCEPT ![c] = TRUE]
            /\ IF js[c] = "accepted" THEN FailLocally(c) ELSE Forget(c)
    /\ UNCHANGED <<hub, world, wire, linked, pending, failure, completed, view, streams, monitor>>

\* The listener of stream().  A task of the event loop: a generator that was
\* woken runs first.
ListenerGets(c) ==
    /\ main[c] # << >>
    /\ ~(js[c] = "waiting" /\ (pending[c] # None \/ failure[c]))
    /\ main' = [main EXCEPT ![c] = Tail(@)]
    /\ LET e == Head(main[c]) IN
       IF js[c] \notin Streaming \/ e.req # native[c].req
       THEN UNCHANGED <<pending, failure, op, accused>>
       ELSE IF pending[c] # None /\ ~e.local
       THEN /\ failure' = [failure EXCEPT ![c] = TRUE]
            /\ accused' = [accused EXCEPT ![c] = TRUE]
            /\ HubCancels(c) /\ UNCHANGED pending
       ELSE pending' = [pending EXCEPT ![c] = e] /\ UNCHANGED <<failure, op, accused>>
    /\ UNCHANGED <<world, gate, session, delivery, wire, linked, native, credit,
                   js, completed, view, broken, streams, faults>>

Throws(c) == Goto(c, "cleanup") /\ broken' = [broken EXCEPT ![c] = TRUE] /\ UNCHANGED <<view, completed>>

Yields(c, e) ==
    /\ view' = [view EXCEPT ![c] = Append(@, IF e.kind \in Terminals THEN "terminal" ELSE e.kind)]
    /\ completed' = [completed EXCEPT ![c] = e.kind = "completed"]
    /\ Goto(c, "yielded") /\ UNCHANGED broken

\* acknowledge() of the Hub accepts only the event it waits for.
Acknowledges(c, e) ==
    Owned(c) /\ op[c].req = e.req /\ op[c].at = "await" /\ e.seq = op[c].next - 1 /\ ~op[c].acked

\* The generator takes the pending event, returns the credit and yields.
Take(c) ==
    /\ js[c] = "waiting" /\ pending[c] # None /\ ~failure[c]
    /\ pending' = [pending EXCEPT ![c] = None]
    /\ LET e == pending[c] IN
       IF e.local THEN Yields(c, e) /\ UNCHANGED <<credit, op>>
       ELSE IF ~Connected(c) \/ credit[c] # e.seq THEN Throws(c) /\ UNCHANGED <<credit, op>>
       ELSE /\ credit' = [credit EXCEPT ![c] = None]
            /\ IF Acknowledges(c, e)
               THEN op' = [op EXCEPT ![c].acked = TRUE] /\ Yields(c, e)
               ELSE UNCHANGED op /\ Throws(c)
    /\ UNCHANGED <<world, gate, session, delivery, wire, linked, native, main,
                   failure, streams, monitor>>

\* A failure was noted, or nothing came for 130 s.
TakeFailure(c) ==
    /\ js[c] = "waiting"
    /\ \/ failure[c]
       \/ pending[c] = None
    /\ Maybe(failure[c] \/ (~Busy(c) /\ wire[c] = << >> /\ main[c] = << >>), "timeout")
    /\ Throws(c)
    /\ UNCHANGED <<hub, world, wire, nativeVars, pending, failure, streams, accused>>

Ended(c) == view[c] # << >> /\ view[c][Len(view[c])] = "terminal"

\* The consumer asks for the next event, or leaves the loop.
Resume(c) ==
    /\ js[c] = "yielded"
    /\ Goto(c, IF Ended(c) THEN "cleanup" ELSE "waiting")
    /\ UNCHANGED <<hub, world, wire, nativeVars, reader, monitor>>

Abandon(c) ==
    /\ js[c] = "yielded" /\ ~Ended(c) /\ Goto(c, "cleanup")
    /\ UNCHANGED <<hub, world, wire, nativeVars, reader, monitor>>

\* session.cancel() while a stream is active; an aborted signal also makes the
\* stream throw.
Cancel(c) ==
    /\ js[c] \in Streaming \ {"calling"} /\ Busy(c) /\ ~op[c].cancelled /\ Connected(c)
    /\ HubCancels(c)
    /\ failure' \in {failure, [failure EXCEPT ![c] = TRUE]}
    /\ UNCHANGED <<world, gate, session, delivery, wire, nativeVars, js, pending, completed,
                   view, broken, streams, monitor>>

\* finally: cancel, then wait for the native work or release the session.
Cleanup(c) ==
    /\ js[c] = "cleanup"
    /\ IF Ended(c) THEN UNCHANGED op ELSE HubCancels(c)
    /\ Goto(c, IF completed[c] THEN "draining" ELSE "releasing")
    /\ UNCHANGED <<world, gate, session, delivery, wire, nativeVars, reader, monitor>>

\* release() by the application.
Release(c) ==
    /\ js[c] \in {"idle", "stale"} /\ Goto(c, "releasing")
    /\ UNCHANGED <<hub, world, wire, nativeVars, reader, monitor>>

ReleaseCalled(c) ==
    /\ js[c] = "releasing" /\ Goto(c, "closing")
    /\ IF Connected(c) /\ Owned(c)
       THEN /\ Close(c)
            /\ IF native[c].live THEN FailLocally(c)
               ELSE credit' = [credit EXCEPT ![c] = None] /\ UNCHANGED <<native, main>>
       ELSE UNCHANGED <<session, op, native, credit, main>>
    /\ UNCHANGED <<world, gate, delivery, wire, linked, reader, monitor>>

\* A mutant: the answer of isSessionDrained is the answer of releaseSession.
IsDrainedAtOnce(c) == TRUE

\* isSessionDrained
IsDrained(c) == session[c] = "absent" \/ ~Busy(c)

\* waitForDrain: polls until the Hub has destroyed the native context.
Drained(c) ==
    /\ js[c] \in {"draining", "closing"} /\ Connected(c) /\ IsDrained(c)
    /\ Goto(c, IF js[c] = "draining" THEN "idle" ELSE "released")
    /\ UNCHANGED <<hub, world, wire, nativeVars, reader, monitor>>

\* ... or until the connection is lost or 20 s have passed.
DrainFails(c) ==
    /\ js[c] \in {"draining", "closing"} /\ Maybe(~Connected(c), "timeout")
    /\ Goto(c, IF js[c] = "draining" THEN "stale" ELSE "gone")
    /\ UNCHANGED <<hub, world, wire, nativeVars, reader, accused>>
-----------------------------------------------------------------------------
(* The Hub's worker and its callback thread *)

Worker(c, place) == op' = [op EXCEPT ![c].at = place]
AfterFailure(c) == IF op[c].terminal THEN "finish" ELSE "failing"

\* What execute() has to say next.
Says(c, kind) ==
    \/ op[c].at = "queued" /\ kind = "started"
    \/ op[c].at = "failing" /\ kind = "failed"
    \/ op[c].at = "run" /\ ~op[c].cancelled
       /\ (kind = "completed" \/ (kind = "delta" /\ op[c].deltas < MaxDeltas))

\* emit() is refused once the session is closed, the caller revoked, or, after the
\* first event, the operation cancelled; a terminal event passes the last check.
Emits(c, kind) ==
    /\ session[c] = "open" /\ authorized[c]
    /\ kind \in Terminals \/ op[c].next = 0 \/ ~op[c].cancelled

Emit(c, kind) ==
    /\ Says(c, kind)
    /\ IF Emits(c, kind)
       THEN /\ op' = [op EXCEPT ![c].at = "await", ![c].kind = kind, ![c].next = @ + 1, ![c].acked = FALSE,
                                ![c].terminal = kind \in Terminals,
                                ![c].deltas = IF kind = "delta" THEN @ + 1 ELSE @]
            /\ delivery' = [to |-> c, kind |-> kind, seq |-> op[c].next, req |-> op[c].req]
       ELSE Worker(c, IF kind = "failed" THEN "finish" ELSE AfterFailure(c)) /\ UNCHANGED delivery
    /\ UNCHANGED <<world, gate, session, wire, nativeVars, script, monitor>>

\* The runtime throws, or notices that it was cancelled.
RunFails(c) ==
    /\ op[c].at = "run"
    /\ Worker(c, "failing")
    /\ UNCHANGED <<world, gate, session, delivery, wire, nativeVars, script, monitor>>

\* The callback thread sends the event it was given, if it is still wanted.
Deliver ==
    /\ delivery # None /\ delivery' = None
    /\ LET c == delivery.to IN
       wire' = IF session[c] = "open" /\ authorized[c] /\ present[c] /\ op[c].next = delivery.seq + 1
               THEN [wire EXCEPT ![c] = Append(@, [kind |-> delivery.kind, req |-> delivery.req,
                                                   seq |-> delivery.seq, local |-> FALSE])]
               ELSE wire
    /\ UNCHANGED <<world, gate, session, op, nativeVars, script, monitor>>

\* The credit came back.
Credited(c) ==
    /\ op[c].at = "await" /\ op[c].acked
    /\ Worker(c, CASE op[c].kind \in Terminals -> "finish"
                   [] op[c].kind = "started" /\ (op[c].cancelled \/ ~authorized[c]) -> "failing"
                   [] OTHER -> "run")
    /\ UNCHANGED <<world, gate, session, delivery, wire, nativeVars, script, monitor>>

\* The wait of emit() ends without a credit: closed, dead, cancelled ...
GivesUp(c) ==
    \/ session[c] = "closed" \/ ~present[c]
    \/ op[c].kind \notin Terminals /\ op[c].next > 1 /\ op[c].cancelled

\* Deadlines are long: none passes while an answer or an event is on its way.
Silent(c) == delivery = None /\ wire[c] = << >> /\ js[c] \notin {"calling", "accepted"}

\* A mutant: the worker waits for its credit without a deadline.
WaitsForever(c) ==
    /\ op[c].at = "await" /\ ~op[c].acked /\ GivesUp(c)
    /\ op' = [op EXCEPT ![c].at = AfterFailure(c)]
    /\ delivery' = None
    /\ UNCHANGED <<world, gate, session, wire, nativeVars, script, monitor>>

\* ... or after 5 s, which stops the operation.  The undelivered event is dropped.
WaitFails(c) ==
    /\ op[c].at = "await" /\ ~op[c].acked
    /\ GivesUp(c) \/ ("timeout" \in Fault /\ Silent(c))
    /\ op' = [op EXCEPT ![c].at = AfterFailure(c), ![c].cancelled = @ \/ ~GivesUp(c)]
    /\ delivery' = None
    /\ UNCHANGED <<world, gate, session, wire, nativeVars, script, monitor>>

\* finally: the operation is over, the gate free, a closed session forgotten.
Finish(c) ==
    /\ op[c].at = "finish"
    /\ op' = [op EXCEPT ![c] = NoOp] /\ gate' = IF gate = c THEN None ELSE gate
    /\ session' = [session EXCEPT ![c] = IF @ = "closed" THEN "absent" ELSE @]
    /\ UNCHANGED <<world, delivery, wire, nativeVars, script, monitor>>

\* The clock of the service, and the death recipients: a session whose caller is
\* gone or revoked, or that nobody used for 300 s, is closed.
Sweep(c) ==
    /\ session[c] = "open"
    /\ ~authorized[c] \/ ~present[c] \/ ~Busy(c)
    /\ Maybe(~authorized[c] \/ ~present[c], "idle")
    /\ Close(c)
    /\ UNCHANGED <<world, gate, delivery, wire, nativeVars, script, accused>>

\* An operation older than 120 s is stopped.
TooOld(c) ==
    /\ Fails("timeout") /\ Busy(c) /\ ~op[c].cancelled /\ Silent(c)
    /\ op' = Stopped(c)
    /\ UNCHANGED <<world, gate, session, delivery, wire, nativeVars, script, accused>>

\* The operations of all other clients go through the same gate.
OthersRun ==
    /\ alive /\ elsewhere' = ~elsewhere
    /\ IF elsewhere THEN gate' = IF gate = Others THEN None ELSE gate
                    ELSE gate = None /\ gate' = Others
    /\ UNCHANGED <<alive, authorized, present, session, op, delivery, wire, nativeVars, script, monitor>>

-----------------------------------------------------------------------------
(* Faults *)

HubDies ==
    /\ Fails("hub dies") /\ alive /\ alive' = FALSE
    /\ gate' = None /\ elsewhere' = FALSE /\ delivery' = None
    /\ session' = [c \in Client |-> "absent"] /\ op' = [c \in Client |-> NoOp]
    /\ UNCHANGED <<authorized, present, wire, nativeVars, script, accused>>

ClientDies(c) ==
    /\ Fails("client dies") /\ present[c]
    /\ present' = [present EXCEPT ![c] = FALSE]
    /\ wire' = [wire EXCEPT ![c] = << >>] /\ main' = [main EXCEPT ![c] = << >>]
    /\ native' = [native EXCEPT ![c] = Gone]
    /\ linked' = [linked EXCEPT ![c] = FALSE] /\ credit' = [credit EXCEPT ![c] = None]
    /\ Goto(c, "dead") /\ pending' = [pending EXCEPT ![c] = None]
    /\ UNCHANGED <<hub, alive, elsewhere, authorized, failure, completed, view, broken, streams, accused>>

\* setAuthorization(false), and revokeUid.
Revoke(c) ==
    /\ Fails("revoked") /\ authorized[c]
    /\ authorized' = [authorized EXCEPT ![c] = FALSE]
    /\ IF session[c] = "open" THEN Close(c) ELSE UNCHANGED <<session, op>>
    /\ UNCHANGED <<alive, elsewhere, present, gate, delivery, wire, nativeVars, script, accused>>

-----------------------------------------------------------------------------
Works(c) ==
    \/ \E kind \in {"started", "delta"} \cup Terminals : Emit(c, kind)
    \/ RunFails(c) \/ Credited(c) \/ WaitFails(c) \/ Finish(c)

Script(c) ==
    \/ HubCreates(c) \/ CreateReturns(c) \/ Stream(c) \/ HubGenerates(c) \/ GenerateReturns(c)
    \/ ListenerGets(c) \/ Take(c) \/ TakeFailure(c) \/ Resume(c) \/ Abandon(c) \/ Cancel(c)
    \/ Cleanup(c) \/ Release(c) \/ ReleaseCalled(c) \/ Drained(c) \/ DrainFails(c)

Around(c) ==
    \/ Sweep(c) \/ TooOld(c) \/ EventArrives(c)
    \/ TransportDies(c) \/ Disconnect(c) \/ ClientDies(c) \/ Revoke(c)

Next ==
    \/ \E c \in Client : Works(c) \/ Script(c) \/ Around(c)
    \/ Deliver \/ OthersRun \/ HubDies

Spec == Init /\ [][Next]_vars

\* The worker's and the callback thread run, native work ends, Binder delivers,
\* and the waits have deadlines.  Nothing is assumed of the clients' scripts.
FairSpec ==
    /\ Spec /\ WF_vars(Deliver)
    /\ \A c \in Client : WF_vars(Works(c)) /\ WF_vars(EventArrives(c)) /\ WF_vars(GenerateReturns(c))

-----------------------------------------------------------------------------
(* Properties *)

Kinds == {"started", "delta"} \cup Terminals
Places == Streaming \cup {"none", "creating", "idle", "stale", "cleanup", "draining", "releasing",
                          "closing", "released", "gone", "dead"}

Messages == [kind : Kinds, req : Nat, seq : Nat, local : BOOLEAN]
ASSUME NoMessageAssumption == None \notin Messages

Operations == [at : {"none", "queued", "await", "run", "failing", "finish"}, kind : Kinds, req : Nat,
               cancelled : BOOLEAN, next : Nat, acked : BOOLEAN, terminal : BOOLEAN, deltas : Nat]

HubTypes ==
    /\ alive \in BOOLEAN /\ elsewhere \in BOOLEAN
    /\ gate \in Client \cup {Others, None}
    /\ session \in [Client -> {"absent", "open", "closed"}]
    /\ op \in [Client -> Operations]
    /\ authorized \in [Client -> BOOLEAN]
    /\ delivery \in [to : Client, kind : Kinds, seq : Nat, req : Nat] \cup {None}
NativeTypes ==
    /\ present \in [Client -> BOOLEAN]
    /\ wire \in [Client -> Seq(Messages)]
    /\ linked \in [Client -> BOOLEAN]
    /\ native \in [Client -> [live : BOOLEAN, req : Nat, started : BOOLEAN, next : Nat]]
    /\ credit \in [Client -> Nat \cup {None}]
    /\ main \in [Client -> Seq(Messages)]
ScriptTypes ==
    /\ js \in [Client -> Places]
    /\ pending \in [Client -> Messages \cup {None}]
    /\ failure \in [Client -> BOOLEAN] /\ completed \in [Client -> BOOLEAN]
    /\ view \in [Client -> Seq({"started", "delta", "terminal"})] /\ broken \in [Client -> BOOLEAN]
    /\ streams \in Nat /\ faults \in Nat /\ accused \in [Client -> BOOLEAN]

\* Every variable has its type.
TypeOK == HubTypes /\ NativeTypes /\ ScriptTypes

\* One native run in the whole process, whose session is still known: the gate is
\* held exactly as long as some session has an operation, and a closed session
\* stays in the map until its operation is over.
OneNativeRun ==
    /\ elsewhere <=> gate = Others
    /\ \A c \in Client :
        /\ (Busy(c) <=> gate = c)
        /\ (Busy(c) => session[c] # "absent")
        /\ (session[c] = "closed" => Busy(c))

\* Whatever dies, is revoked, cancelled or late, and whether an event comes from
\* the Hub or was made by the client, stream() yields a canonical stream.
Observed == INSTANCE CanonicalStream WITH Consumer <- Client
ConsumersSeeCanonicalStreams == Observed!Spec

\* stream() returns after a complete response, and release() resolves, only when
\* the Hub has destroyed the native work: the next request is not refused because
\* of the one before it.
SettledMeansDrained ==
    \A c \in Client : js[c] \in {"idle", "released"} => ~Busy(c)

\* A client that disconnected leaves no session behind that counts against its
\* limit, not even one whose creation was under way.
NoOrphanSession ==
    \A c \in Client : js[c] = "gone" /\ ~linked[c] /\ authorized[c] => session[c] # "open"

\* Why: what the script knows of the Hub's work, and who closes a session whose
\* client has gone.
ScriptInv ==
    \A c \in Client :
        /\ js[c] \in {"none", "creating", "idle", "released"} => ~Busy(c)
        /\ session[c] # "absent" => alive
        /\ ~linked[c] /\ authorized[c] /\ js[c] \notin {"creating", "dead"} => session[c] # "open"

\* Events of one request in a queue: none, none that starts a response, just the
\* one that does, and one that does before all others.
NoneOf(q, r) == \A i \in 1 .. Len(q) : q[i].req # r
NoStarted(q, r) == \A i \in 1 .. Len(q) : q[i].req = r => q[i].kind # "started"
OnlyStarts(q, r) ==
    \E i \in 1 .. Len(q) :
        /\ q[i].req = r /\ q[i].kind = "started" /\ q[i].seq = 0
        /\ \A j \in 1 .. Len(q) : q[j].req = r => j = i
StartsWith(q, r) ==
    \E i \in 1 .. Len(q) :
        /\ q[i].req = r /\ q[i].kind = "started"
        /\ \A j \in 1 .. Len(q) : q[j].req = r => j = i \/ (j > i /\ q[j].kind # "started")

\* No event of a request comes before the request.
RequestInv ==
    \A c \in Client :
        /\ native[c].req <= streams /\ op[c].req <= streams
        /\ \A i \in 1 .. Len(wire[c]) : wire[c][i].req <= streams
        /\ \A i \in 1 .. Len(main[c]) : main[c][i].req <= streams
        /\ delivery # None => delivery.req <= streams

\* What the place of a stream says of what its consumer has seen.
PlaceInv(c) ==
    /\ js[c] # "dead" => present[c]
    /\ js[c] \in {"calling", "accepted", "refused"} => view[c] = << >> /\ ~broken[c]
    /\ js[c] \in {"waiting", "yielded"} => ~broken[c]
    /\ js[c] = "waiting" => ~Ended(c)
    /\ js[c] = "yielded" => view[c] # << >>

Submitted(c) == delivery # None /\ delivery.to = c /\ delivery.req = native[c].req
Fresh(c) ==
    /\ native[c].live /\ ~native[c].started /\ native[c].next = 0
    /\ credit[c] = None /\ pending[c] = None /\ NoneOf(main[c], native[c].req)

\* Before generate() reaches the Hub nothing is said of the request.
CallingInv(c) ==
    js[c] = "calling" /\ Connected(c) =>
        /\ Fresh(c) /\ ~Submitted(c) /\ NoneOf(wire[c], native[c].req)
        /\ Busy(c) => op[c].req # native[c].req

\* Until it returns the Hub says response.started at most, which nobody returns
\* the credit of, and that event is at one place of the way.
AcceptedInv(c) ==
    js[c] = "accepted" /\ Connected(c) =>
        /\ Busy(c) => /\ op[c].req = native[c].req /\ ~op[c].acked
                      /\ op[c].at \in {"queued", "await", "failing", "finish"}
                      /\ op[c].at = "queued" => op[c].next = 0
                      /\ op[c].next <= 1
                      /\ op[c].at = "failing" => session[c] # "open" \/ ~authorized[c]
        /\ Submitted(c) => delivery.kind = "started" /\ delivery.seq = 0
        /\ NoneOf(wire[c], native[c].req) \/ (OnlyStarts(wire[c], native[c].req) /\ ~Submitted(c))
        /\ op[c].at = "queued" => Fresh(c) /\ ~Submitted(c) /\ NoneOf(wire[c], native[c].req)
        /\ \/ Fresh(c)
           \/ /\ native[c].live /\ native[c].started
              /\ ~Submitted(c) /\ NoneOf(wire[c], native[c].req)
              /\ IF pending[c] = None THEN OnlyStarts(main[c], native[c].req)
                 ELSE pending[c].kind = "started" /\ NoneOf(main[c], native[c].req)

\* From then on the client has let a response.started through, or made one, before
\* anything else, and stream() has it before anything else.
StreamingInv(c) ==
    LET r == native[c].req
        begun == native[c].started \/ ~native[c].live
    IN  js[c] \in {"waiting", "yielded"} /\ ~Ended(c) =>
        IF view[c] # << >>
        THEN begun /\ NoStarted(main[c], r) /\ (pending[c] # None => pending[c].kind # "started")
        ELSE IF pending[c] # None
        THEN begun /\ NoStarted(main[c], r) /\ pending[c].kind = "started"
        ELSE IF begun THEN StartsWith(main[c], r) ELSE NoneOf(main[c], r)

\* Why stream() yields a canonical stream.
EventInv ==
    /\ RequestInv
    /\ \A c \in Client : PlaceInv(c) /\ CallingInv(c) /\ AcceptedInv(c) /\ StreamingInv(c)

\* One native run, sessions known as long as they work, what the three processes
\* know of each other, and where a stream's events are: inductive.
BinderInductive == TypeOK /\ OneNativeRun /\ ScriptInv /\ EventInv

\* No client can keep the Hub: an operation ends although its client is dead,
\* silent or revoked.
GateIsFreed == \A c \in Client : gate = c ~> gate # c

\* Cancelling is an outcome, not an error of the Hub: no client reports that the
\* Hub broke the protocol.
HubIsNotAccused == \A c \in Client : ~accused[c]
=============================================================================
