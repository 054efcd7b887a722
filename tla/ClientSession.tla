--------------------------- MODULE ClientSession ---------------------------
(***************************************************************************)
(* ModelCommonsSession of packages/client/src/client.ts: the session a     *)
(* client hands to an application.  Several asynchronous callers share it. *)
(* It admits one inference at a time, validates the stream a transport     *)
(* emits, holds the terminal event back until the producer is exhausted,   *)
(* and shares one release attempt between concurrent callers.  The         *)
(* transport session behind it is not trusted: it may answer anything.     *)
(***************************************************************************)
EXTENDS Naturals, FiniteSets, Sequences

CONSTANTS
    Caller,     \* asynchronous tasks that use the session
    MaxEvents,  \* bound: events one stream produces
    MaxCalls,   \* bound: calls the application makes
    None

ASSUME BoundsAssumption == MaxEvents \in Nat /\ MaxCalls \in Nat
ASSUME NoneAssumption == None \notin Caller

VARIABLES
    token,      \* #operationToken: the caller whose operation is admitted
    attempt,    \* #releaseAttempt: "none", "published", "calling"
    released,   \* #released
    pc,         \* where each caller is suspended
    seen,       \* the events each caller's consumer received in this stream
    pulled,     \* events the producer of this caller's stream has emitted
    closed,     \* the producer said done and emitted nothing afterwards
    cancelled,  \* session.cancel() reached the transport during this operation
    failed,     \* the catch block of the stream ran: hasPrimaryError
    calls       \* calls made so far

vars == <<token, attempt, released, pc, seen, pulled, closed, cancelled, failed, calls>>
streamVars == <<seen, pulled, closed, failed>>

\* "terminal" is response.completed or response.failed, "delta" any content,
\* "other" an event that is malformed or names another response or model.
Events == {"started", "delta", "terminal", "other"}

Working == {"generating", "pulling", "yielded", "trailing", "delivered", "cancelling", "returning"}
Suspended == Working \cup {"idle", "releasing", "usercancel"}
Busy(c) == pc[c] \in Working \ {"delivered"}

Goto(c, place) == pc' = [pc EXCEPT ![c] = place]

Init ==
    /\ token = None /\ attempt = "none" /\ released = FALSE
    /\ pc = [c \in Caller |-> "idle"]
    /\ seen = [c \in Caller |-> << >>]
    /\ pulled = [c \in Caller |-> 0]
    /\ closed = [c \in Caller |-> FALSE]
    /\ failed = [c \in Caller |-> FALSE]
    /\ cancelled = FALSE /\ calls = 0

\* Mutants of #beginOperation that forget a flag.
AdmittedWhileBusy == ~released /\ attempt = "none"
\* #beginOperation; a refused call throws and changes nothing.
Admitted == ~released /\ attempt = "none" /\ token = None

\* #endOperation
EndOperation(c) == token' = IF token = c THEN None ELSE token

Call(c) == pc[c] = "idle" /\ calls < MaxCalls /\ calls' = calls + 1

-----------------------------------------------------------------------------
(* Inference *)

\* generate() up to its await of the transport.
Generate(c) ==
    /\ Call(c) /\ Admitted
    /\ token' = c /\ cancelled' = FALSE
    /\ Goto(c, "generating")
    /\ UNCHANGED <<attempt, released, streamVars>>

\* The transport answers, assertResponseIdentity passes or throws; either way
\* the finally block ends the operation.
GenerateSettles(c) ==
    /\ pc[c] = "generating"
    /\ EndOperation(c) /\ Goto(c, "idle")
    /\ UNCHANGED <<attempt, released, cancelled, calls, streamVars>>

\* The consumer's first next() of stream().  A request that is refused ends its
\* operation in the same turn.
StartStream(c) ==
    /\ Call(c) /\ Admitted
    /\ token' = c /\ cancelled' = FALSE
    /\ seen' = [seen EXCEPT ![c] = << >>]
    /\ pulled' = [pulled EXCEPT ![c] = 0]
    /\ closed' = [closed EXCEPT ![c] = FALSE]
    /\ failed' = [failed EXCEPT ![c] = FALSE]
    /\ Goto(c, "pulling")
    /\ UNCHANGED <<attempt, released>>

\* A mutant: a second response.started is let through.
ValidRestart(c, event) == event # "other" /\ (seen[c] = << >> => event = "started")

\* validateStreamEvent: the event is acceptable after those already seen.
Valid(c, event) ==
    /\ event # "other"
    /\ event = "started" <=> seen[c] = << >>

\* A throw inside the loop: the finally block first cancels the transport.
Fail(c) ==
    /\ failed' = [failed EXCEPT ![c] = TRUE]
    /\ Goto(c, "cancelling")
    /\ UNCHANGED <<token, attempt, released, seen, cancelled, calls>>

Pull(c) == pulled' = [pulled EXCEPT ![c] = @ + 1]

\* `await iterator.next()` returns an event.
EventArrives(c, event) ==
    /\ pc[c] = "pulling" /\ pulled[c] < MaxEvents
    /\ Pull(c)
    /\ \/ /\ ~Valid(c, event) /\ Fail(c)
       \/ /\ Valid(c, event) /\ event # "terminal"
          /\ seen' = [seen EXCEPT ![c] = Append(@, event)]
          /\ Goto(c, "yielded")
          /\ UNCHANGED <<token, attempt, released, failed, cancelled, calls>>
       \/ /\ Valid(c, event) /\ event = "terminal"
          /\ Goto(c, "trailing")
          /\ UNCHANGED <<token, attempt, released, seen, failed, cancelled, calls>>
    /\ UNCHANGED closed

\* next() or the second next() rejects, or returns something that is no result.
PullFails(c) ==
    /\ pc[c] \in {"pulling", "trailing"}
    /\ Fail(c)
    /\ UNCHANGED <<pulled, closed>>

\* done before a terminal event: exhausted, so the throw needs no cancel.
EndsEarly(c) ==
    /\ pc[c] = "pulling"
    /\ closed' = [closed EXCEPT ![c] = TRUE]
    /\ failed' = [failed EXCEPT ![c] = TRUE]
    /\ EndOperation(c) /\ Goto(c, "idle")
    /\ UNCHANGED <<attempt, released, seen, pulled, cancelled, calls>>

\* An event after the terminal one.
TrailingEvent(c) ==
    /\ pc[c] = "trailing" /\ pulled[c] < MaxEvents
    /\ Pull(c) /\ Fail(c)
    /\ UNCHANGED closed

\* done after the terminal event: the operation ends, then the consumer sees it.
Exhausted(c) ==
    /\ pc[c] = "trailing"
    /\ closed' = [closed EXCEPT ![c] = TRUE]
    /\ EndOperation(c)
    /\ seen' = [seen EXCEPT ![c] = Append(@, "terminal")]
    /\ Goto(c, "delivered")
    /\ UNCHANGED <<attempt, released, pulled, failed, cancelled, calls>>

\* The consumer asks for the next event; after the terminal one it gets done.
Resume(c) ==
    /\ \/ pc[c] = "yielded" /\ Goto(c, "pulling")
       \/ pc[c] = "delivered" /\ Goto(c, "idle")
    /\ UNCHANGED <<token, attempt, released, streamVars, cancelled, calls>>

\* The consumer leaves the loop: return() runs the finally block.
Abandon(c) ==
    /\ \/ pc[c] = "yielded" /\ Goto(c, "cancelling")
       \/ pc[c] = "delivered" /\ Goto(c, "idle")
    /\ UNCHANGED <<token, attempt, released, streamVars, cancelled, calls>>

\* finally: session.cancel(), answered or rejected, then iterator.return().
CleanupCancels(c) ==
    /\ pc[c] = "cancelling"
    /\ cancelled' = TRUE /\ Goto(c, "returning")
    /\ UNCHANGED <<token, attempt, released, streamVars, calls>>

\* A mutant: the cleanup waits for a producer that has nothing left to say.
CleanupAwaitsProducer(c) ==
    /\ pc[c] = "returning" /\ closed[c]
    /\ EndOperation(c) /\ Goto(c, "idle")
    /\ UNCHANGED <<attempt, released, streamVars, cancelled, calls>>

CleanupEnds(c) ==
    /\ pc[c] = "returning"
    /\ EndOperation(c) /\ Goto(c, "idle")
    /\ UNCHANGED <<attempt, released, streamVars, cancelled, calls>>

-----------------------------------------------------------------------------
(* Cancellation and release *)

\* cancel() by any caller, refused while a release is in progress.
Cancel(c) ==
    /\ Call(c) /\ ~released /\ attempt = "none"
    /\ cancelled' = TRUE /\ Goto(c, "usercancel")
    /\ UNCHANGED <<token, attempt, released, streamVars>>

CancelSettles(c) ==
    /\ pc[c] = "usercancel" /\ Goto(c, "idle")
    /\ UNCHANGED <<token, attempt, released, streamVars, cancelled, calls>>

\* release(): joins the attempt in progress, is refused while an operation is
\* admitted, else publishes an attempt before the transport is called.
Release(c) ==
    /\ Call(c) /\ ~released
    /\ \/ attempt # "none" /\ UNCHANGED attempt
       \/ attempt = "none" /\ token = None /\ attempt' = "published"
    /\ Goto(c, "releasing")
    /\ UNCHANGED <<token, released, streamVars, cancelled>>

\* #performRelease after its first await.
CallRelease ==
    /\ attempt = "published" /\ attempt' = "calling"
    /\ UNCHANGED <<token, released, pc, streamVars, cancelled, calls>>

\* The transport released the session, or refused and may be asked again;
\* every caller that shared the attempt is answered.
ReleaseSettles(ok) ==
    /\ attempt = "calling"
    /\ attempt' = "none" /\ released' = ok
    /\ pc' = [c \in Caller |-> IF pc[c] = "releasing" THEN "idle" ELSE pc[c]]
    /\ UNCHANGED <<token, streamVars, cancelled, calls>>

-----------------------------------------------------------------------------
Settle(c) ==
    \/ GenerateSettles(c) \/ CleanupCancels(c) \/ CleanupEnds(c) \/ CancelSettles(c)

\* The producer of a cancelled operation stops.
StopsWhenCancelled(c) ==
    /\ cancelled
    /\ PullFails(c) \/ EndsEarly(c) \/ Exhausted(c)

Step(c) ==
    \/ Generate(c) \/ StartStream(c) \/ Resume(c) \/ Abandon(c)
    \/ Cancel(c) \/ Release(c)
    \/ \E event \in Events : EventArrives(c, event)
    \/ PullFails(c) \/ EndsEarly(c) \/ TrailingEvent(c)
    \/ Exhausted(c)
    \/ Settle(c)

Next ==
    \/ \E c \in Caller : Step(c)
    \/ CallRelease \/ \E ok \in BOOLEAN : ReleaseSettles(ok)

Spec == Init /\ [][Next]_vars

\* Transport calls other than a pull settle, a cancelled producer stops, and a
\* consumer takes the event it was given.  An uncancelled producer may stall.
Fairness ==
    /\ \A c \in Caller :
        /\ WF_vars(Settle(c)) /\ WF_vars(Resume(c)) /\ WF_vars(StopsWhenCancelled(c))
    /\ WF_vars(CallRelease) /\ WF_vars(\E ok \in BOOLEAN : ReleaseSettles(ok))

FairSpec == Spec /\ Fairness

-----------------------------------------------------------------------------
(* Properties *)

\* Every variable has its type.
TypeOK ==
    /\ token \in Caller \cup {None}
    /\ attempt \in {"none", "published", "calling"}
    /\ released \in BOOLEAN /\ cancelled \in BOOLEAN
    /\ pc \in [Caller -> Suspended]
    /\ seen \in [Caller -> Seq(Events \ {"other"})]
    /\ pulled \in [Caller -> 0 .. MaxEvents]
    /\ closed \in [Caller -> BOOLEAN]
    /\ failed \in [Caller -> BOOLEAN]
    /\ calls \in 0 .. MaxCalls

\* The transport session never carries two inferences, and the cleanup of a
\* stream (which cancels the whole session) never runs on another caller's
\* operation: whoever is at work holds the token.
CleanupHitsOnlyItsOwn == \A c \in Caller : Busy(c) => token = c

\* release() reaches the transport only when no inference is in flight, none
\* starts until it has settled, and none ever starts on a released session.
ReleaseExcludesInference ==
    attempt # "none" \/ released => \A c \in Caller : ~Busy(c)

Received(c, event) == \E i \in DOMAIN seen[c] : seen[c][i] = event

\* A consumer that received a terminal event has the whole response: the
\* producer closed, and the operation is over, so the session can be used again
\* from within the loop body.
TerminalIsFinal ==
    \A c \in Caller :
        Received(c, "terminal")
            => closed[c] /\ ~failed[c] /\ (pc[c] = "delivered" => token # c)

\* Where a stream is says what its consumer has: a stream that goes on has shown
\* no terminal event, and one that waits has not failed.
Streaming == {"pulling", "yielded", "trailing", "cancelling", "returning"}
StreamInv ==
    \A c \in Caller :
        /\ pc[c] \in Streaming => ~Received(c, "terminal")
        /\ pc[c] \in {"pulling", "yielded", "trailing"} => ~failed[c]
        /\ pc[c] \in {"yielded", "trailing"} => seen[c] # << >>
        /\ closed[c] => pc[c] \notin Streaming

\* One inference at a time, none beside a release, and no terminal event before
\* its time: with StreamInv an inductive invariant.
SessionInductive ==
    TypeOK /\ StreamInv /\ CleanupHitsOnlyItsOwn /\ ReleaseExcludesInference /\ TerminalIsFinal

\* Whatever the transport emits, each consumer observes a canonical stream.
Observed == INSTANCE CanonicalStream WITH Consumer <- Caller, view <- seen, broken <- failed
ConsumersSeeCanonicalStreams == Observed!Spec

\* The escape hatch of the held-back terminal event: once the session is
\* cancelled, a stream that waits for its producer ends.
CancelEndsTheWait ==
    \A c \in Caller : (pc[c] \in {"pulling", "trailing"} /\ cancelled) ~> ~Busy(c)

\* Every caller of release() is answered, whoever started the attempt.
ReleaseAnswered == \A c \in Caller : pc[c] = "releasing" ~> pc[c] = "idle"

\* Nobody waits for ever: not for a producer, not for a release.
WaitsEnd == CancelEndsTheWait /\ ReleaseAnswered
=============================================================================
