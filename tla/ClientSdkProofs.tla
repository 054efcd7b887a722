-------------------------- MODULE ClientSdkProofs --------------------------
(***************************************************************************)
(* For any number of callers, events and calls: a client session admits    *)
(* one inference at a time and none beside a release, and every consumer   *)
(* of its streams observes a canonical stream.  For any number of          *)
(* requests: the embedded backend below it never holds two model leases,   *)
(* never releases one under a native context, and its release() resolves   *)
(* only when nothing is left (packages/embedded/src/index.ts).             *)
(***************************************************************************)
EXTENDS MCClientSdk, TLAPS

-----------------------------------------------------------------------------
(* The session of the client *)


\* What has been received is what was before, and the event appended.
LEMMA ReceivedAppended ==
    ASSUME NEW s \in Seq(Events), NEW e \in Events, NEW x,
           \E i \in DOMAIN Append(s, e) : Append(s, e)[i] = x, x # e
    PROVE  \E i \in DOMAIN s : s[i] = x
<1>1. PICK i \in DOMAIN Append(s, e) : Append(s, e)[i] = x
  OBVIOUS
<1>2. i \in 1 .. Len(s) + 1 /\ i # Len(s) + 1
  BY <1>1
<1> QED
  BY <1>1, <1>2

\* What a consumer is shown is a sequence of well-formed events.
LEMMA Views ==
    /\ << >> \in Seq(Events \ {"other"})
    /\ \A s \in Seq(Events \ {"other"}), e \in Events \ {"other"} : Append(s, e) \in Seq(Events \ {"other"})
    /\ \A e \in {"started", "delta", "terminal"} : e \in Events \ {"other"}
  BY DEF Events

\* Where a caller may be suspended.
LEMMA Places ==
    /\ "idle" \in Suspended /\ "generating" \in Suspended /\ "pulling" \in Suspended /\ "yielded" \in Suspended
    /\ "trailing" \in Suspended /\ "delivered" \in Suspended /\ "cancelling" \in Suspended
    /\ "returning" \in Suspended /\ "releasing" \in Suspended /\ "usercancel" \in Suspended
  BY DEF Suspended, Working

\* A session nobody has used.
LEMMA InitSession == Init => SessionInductive
<1> SUFFICES ASSUME Init PROVE SessionInductive
  OBVIOUS
<1> USE NoneAssumption, BoundsAssumption DEF Init
<1>1. /\ token \in Caller \cup {None} /\ attempt \in {"none", "published", "calling"}
      /\ released \in BOOLEAN /\ cancelled \in BOOLEAN
  OBVIOUS
<1>2. pc \in [Caller -> Suspended]
  BY Places
<1>3. seen \in [Caller -> Seq(Events \ {"other"})]
  BY Views
<1>4. /\ pulled \in [Caller -> 0 .. MaxEvents] /\ closed \in [Caller -> BOOLEAN] /\ failed \in [Caller -> BOOLEAN]
      /\ calls \in 0 .. MaxCalls
  OBVIOUS
<1>5. StreamInv /\ TerminalIsFinal
  BY DEF StreamInv, TerminalIsFinal, Received, Streaming
<1>6. CleanupHitsOnlyItsOwn /\ ReleaseExcludesInference
  BY DEF CleanupHitsOnlyItsOwn, ReleaseExcludesInference, Busy, Working
<1> QED
  BY <1>1, <1>2, <1>3, <1>4, <1>5, <1>6 DEF SessionInductive, TypeOK

\* A step of a caller keeps the types.
LEMMA TypeKept ==
    ASSUME TypeOK, NEW c \in Caller, Step(c)
    PROVE  TypeOK'
<1> USE DEF Step, Settle, Generate, GenerateSettles, Resume, Abandon, CleanupCancels, CleanupEnds, Cancel,
    CancelSettles,
      Release, StartStream, EventArrives, PullFails, EndsEarly, TrailingEvent, Exhausted, Fail, streamVars
<1>1. /\ token' \in Caller \cup {None} /\ attempt' \in {"none", "published", "calling"}
      /\ released' \in BOOLEAN /\ cancelled' \in BOOLEAN
  BY DEF TypeOK, EndOperation
<1>2. pc' \in [Caller -> Suspended]
  BY Places DEF TypeOK, Goto
<1>3. seen' \in [Caller -> Seq(Events \ {"other"})]
  <2>1. CASE UNCHANGED seen
    BY <2>1 DEF TypeOK
  <2>2. CASE StartStream(c)
    BY <2>2, Views DEF TypeOK
  <2>3. CASE \E event \in Events \ {"other"} : seen' = [seen EXCEPT ![c] = Append(@, event)]
    BY <2>3, Views DEF TypeOK
  <2> QED
    BY <2>1, <2>2, <2>3, Views DEF Valid
<1>4. pulled' \in [Caller -> 0 .. MaxEvents] 
  BY BoundsAssumption DEF TypeOK, Pull
<1>5. closed' \in [Caller -> BOOLEAN] /\ failed' \in [Caller -> BOOLEAN]
  BY DEF TypeOK
<1>6. calls' \in 0 .. MaxCalls
  BY BoundsAssumption DEF TypeOK, Call
<1> QED
  BY <1>1, <1>2, <1>3, <1>4, <1>5, <1>6 DEF TypeOK

\* Whoever is at work holds the token, and none works beside a release.
LEMMA ExclusionKept ==
    ASSUME TypeOK, CleanupHitsOnlyItsOwn, ReleaseExcludesInference, NEW c \in Caller, Step(c)
    PROVE  CleanupHitsOnlyItsOwn' /\ ReleaseExcludesInference'
<1> USE NoneAssumption
    DEF Step, Settle, Generate, GenerateSettles, Resume, Abandon, CleanupCancels, CleanupEnds, Cancel, CancelSettles,
        Release, StartStream, EventArrives, PullFails, EndsEarly, TrailingEvent, Exhausted, Fail, streamVars,
        TypeOK, Admitted, EndOperation, Goto, CleanupHitsOnlyItsOwn, ReleaseExcludesInference, Busy, Working
<1>1. CleanupHitsOnlyItsOwn'
  OBVIOUS
<1>2. ReleaseExcludesInference'
  OBVIOUS
<1> QED
  BY <1>1, <1>2

\* A step moves only its own stream, and appends at most one event to it.
LEMMA OneStreamMoves ==
    ASSUME TypeOK, NEW c \in Caller, Step(c)
    PROVE  /\ \A d \in Caller \ {c} : /\ pc'[d] = pc[d] /\ seen'[d] = seen[d]
                                      /\ closed'[d] = closed[d] /\ failed'[d] = failed[d]
           /\ \/ seen'[c] = seen[c]
              \/ seen'[c] = << >> /\ pc'[c] = "pulling"
              \/ \E event \in Events \ {"other", "terminal"} :
                    seen'[c] = Append(seen[c], event) /\ pc[c] = "pulling" /\ pc'[c] = "yielded"
              \/ seen'[c] = Append(seen[c], "terminal") /\ pc[c] = "trailing" /\ pc'[c] = "delivered"
<1> USE DEF Step, Settle, Generate, GenerateSettles, Resume, Abandon, CleanupCancels, CleanupEnds, Cancel,
    CancelSettles,
        Release, StartStream, EventArrives, PullFails, EndsEarly, TrailingEvent, Exhausted, Fail, streamVars,
        TypeOK, Goto
<1>1. \A d \in Caller \ {c} : pc'[d] = pc[d] /\ closed'[d] = closed[d] /\ failed'[d] = failed[d]
  OBVIOUS
<1>2. \A d \in Caller \ {c} : seen'[d] = seen[d]
  OBVIOUS
<1>3. \/ seen'[c] = seen[c]
      \/ seen'[c] = << >> /\ pc'[c] = "pulling"
      \/ \E event \in Events \ {"other", "terminal"} :
            seen'[c] = Append(seen[c], event) /\ pc[c] = "pulling" /\ pc'[c] = "yielded"
      \/ seen'[c] = Append(seen[c], "terminal") /\ pc[c] = "trailing" /\ pc'[c] = "delivered"
  BY DEF Valid
<1> QED
  BY <1>1, <1>2, <1>3

\* A terminal event is received in one step only: when the producer is exhausted.
LEMMA ReceivesTerminal ==
    ASSUME TypeOK, NEW c \in Caller, Step(c), NEW d \in Caller, Received(d, "terminal")'
    PROVE  \/ Received(d, "terminal") /\ seen'[d] # << >>
           \/ d = c /\ pc[c] = "trailing" /\ pc'[c] = "delivered"
<1>1. CASE d # c
  BY <1>1, OneStreamMoves DEF Received
<1>2. CASE d = c
  <2>1. CASE seen'[c] = seen[c] \/ seen'[c] = << >>
    BY <1>2, <2>1 DEF Received
  <2>2. CASE \E event \in Events \ {"other", "terminal"} : seen'[c] = Append(seen[c], event)
    <3>1. PICK event \in Events \ {"other", "terminal"} : seen'[c] = Append(seen[c], event)
      BY <2>2
    <3>2. seen[c] \in Seq(Events)
      BY DEF TypeOK, Events
    <3> QED
      BY <1>2, <3>1, <3>2, ReceivedAppended DEF Received
  <2> QED
    BY <1>2, <2>1, <2>2, OneStreamMoves
<1> QED
  BY <1>1, <1>2

\* What a consumer has matches where its stream is.
LEMMA StreamKept ==
    ASSUME TypeOK, CleanupHitsOnlyItsOwn, StreamInv, TerminalIsFinal, NEW c \in Caller, Step(c)
    PROVE  StreamInv' /\ TerminalIsFinal'
<1> USE DEF Step, Settle, Generate, GenerateSettles, Resume, Abandon, CleanupCancels, CleanupEnds, Cancel,
    CancelSettles,
        Release, StartStream, EventArrives, PullFails, EndsEarly, TrailingEvent, Exhausted, Fail, Goto, Call
<1>1. ASSUME NEW d \in Caller, pc'[d] \in Streaming, Received(d, "terminal")'
      PROVE  FALSE
  <2>1. Received(d, "terminal") /\ seen'[d] # << >>
    BY <1>1, ReceivesTerminal DEF Streaming
  <2>2. pc[d] \notin Streaming
    BY <2>1 DEF StreamInv
  <2>3. d = c /\ StartStream(c)
    BY <1>1, <2>2, OneStreamMoves DEF Streaming, TypeOK
  <2> QED
    BY <2>1, <2>3 DEF TypeOK
<1>2. \A d \in Caller : pc'[d] \in {"pulling", "yielded", "trailing"} => ~failed'[d]
  BY OneStreamMoves DEF StreamInv, TypeOK, streamVars
<1>3. \A d \in Caller : pc'[d] \in {"yielded", "trailing"} => seen'[d] # << >>
  BY OneStreamMoves DEF StreamInv, TypeOK, streamVars, Valid
<1>4. \A d \in Caller : closed'[d] => pc'[d] \notin Streaming
  BY OneStreamMoves DEF StreamInv, TypeOK, streamVars, Streaming
<1>5. ASSUME NEW d \in Caller, Received(d, "terminal")'
      PROVE  closed'[d] /\ ~failed'[d]
  <2>1. CASE Received(d, "terminal") /\ seen'[d] # << >>
    BY <2>1, OneStreamMoves DEF TerminalIsFinal, StreamInv, Streaming, TypeOK, streamVars
  <2>2. CASE d = c /\ pc[c] = "trailing" /\ pc'[c] = "delivered"
    BY <2>2 DEF StreamInv, TypeOK
  <2> QED
    BY <1>5, <2>1, <2>2, ReceivesTerminal
<1>6. ASSUME NEW d \in Caller, Received(d, "terminal")', pc'[d] = "delivered"
      PROVE  token' # d
  <2>1. CASE d # c
    <3>1. Received(d, "terminal") /\ pc[d] = "delivered"
      BY <1>6, <2>1, OneStreamMoves, ReceivesTerminal
    <3>2. token # d
      BY <3>1 DEF TerminalIsFinal
    <3>3. token' \in {token, c, None}
      BY DEF streamVars, EndOperation
    <3> QED
      BY <2>1, <3>2, <3>3, NoneAssumption
  <2>2. CASE d = c
    <3>1. Exhausted(c)
      BY <1>6, <2>2 DEF TypeOK
    <3>2. token = c
      BY <3>1 DEF CleanupHitsOnlyItsOwn, Busy, Working
    <3> QED
      BY <2>2, <3>1, <3>2, NoneAssumption DEF EndOperation
  <2> QED
    BY <2>1, <2>2
<1> QED
  BY <1>1, <1>2, <1>3, <1>4, <1>5, <1>6 DEF StreamInv, TerminalIsFinal

\* One session step, or one step of its release.
LEMMA NextSession == SessionInductive /\ [Next]_vars => SessionInductive'
<1> SUFFICES ASSUME SessionInductive, [Next]_vars PROVE SessionInductive'
  OBVIOUS
<1> USE DEF SessionInductive
<1>1. CASE \E c \in Caller : Step(c)
  BY <1>1, TypeKept, ExclusionKept, StreamKept
<1>2. CASE CallRelease \/ \E ok \in BOOLEAN : ReleaseSettles(ok)
  <2> USE <1>2 DEF CallRelease, ReleaseSettles, streamVars
  <2>1. pc' \in [Caller -> Suspended]
    BY Places DEF TypeOK
  <2>2. TypeOK'
    BY <2>1 DEF TypeOK
  <2>3. \A c \in Caller : pc'[c] = pc[c] \/ (pc[c] = "releasing" /\ pc'[c] = "idle")
    OBVIOUS
  <2>4. CleanupHitsOnlyItsOwn' /\ ReleaseExcludesInference'
    BY <2>3 DEF CleanupHitsOnlyItsOwn, ReleaseExcludesInference, Busy, Working
  <2>5. StreamInv' /\ TerminalIsFinal'
    BY <2>3 DEF StreamInv, TerminalIsFinal, Received, Streaming
  <2> QED
    BY <2>2, <2>4, <2>5
<1>3. CASE UNCHANGED vars
  BY <1>3 DEF vars, TypeOK, StreamInv, CleanupHitsOnlyItsOwn, ReleaseExcludesInference, TerminalIsFinal, Received,
      Busy
<1> QED
  BY <1>1, <1>2, <1>3 DEF Next

\* In every reachable state one inference at most is at work, none beside a
\* release, and whoever received a terminal event has the whole response
\* (#beginOperation, #validatedStream and release of client.ts).
THEOREM SessionIsInductive == Spec => []SessionInductive
<1> QED
  BY InitSession, NextSession, PTL DEF Spec

\* A stream that goes on is open in the abstract, or has shown nothing yet.
LEMMA RunningIsOpen ==
    ASSUME TypeOK, StreamInv, NEW c \in Caller, pc[c] \in {"pulling", "yielded", "trailing"}
    PROVE  ~failed[c] /\ (seen[c] = << >> \/ Observed!Open(c))
<1>1. seen[c] \in Seq(Events) /\ ~failed[c] /\ ~Received(c, "terminal")
  BY DEF TypeOK, StreamInv, Streaming, Events
<1>2. ASSUME seen[c] # << >> PROVE Len(seen[c]) \in DOMAIN seen[c]
  BY <1>1, <1>2
<1> QED
  BY <1>1, <1>2 DEF Observed!Open, Received

\* Steps of the session are steps of the canonical stream, or show the consumer
\* nothing.
LEMMA StepsAreCanonical ==
    ASSUME SessionInductive, [Next]_vars
    PROVE  [Observed!Next]_<<seen, failed>>
<1> USE DEF SessionInductive
<1>1. CASE ~\E c \in Caller : Step(c)
  BY <1>1 DEF Next, CallRelease, ReleaseSettles, streamVars, vars
<1>2. ASSUME NEW c \in Caller, Step(c)
      PROVE  [Observed!Next]_<<seen, failed>>
  <2>1. CASE StartStream(c)
    BY <2>1 DEF StartStream, Observed!Next, Observed!Again
  <2>2. CASE EndsEarly(c) \/ PullFails(c) \/ TrailingEvent(c)
    <3>1. pc[c] \in {"pulling", "trailing"} /\ failed' = [failed EXCEPT ![c] = TRUE] /\ seen' = seen
      BY <2>2 DEF EndsEarly, PullFails, TrailingEvent, Fail
    <3>2. Observed!Broken(c)
      BY <3>1, RunningIsOpen DEF Observed!Broken
    <3> QED
      BY <3>2 DEF Observed!Next
  <2>3. CASE \E event \in Events : EventArrives(c, event)
    <3>1. PICK event \in Events : EventArrives(c, event)
      BY <2>3
    <3>2. pc[c] = "pulling"
      BY <3>1 DEF EventArrives
    <3>3. CASE Fail(c) /\ UNCHANGED closed
      <4>1. Observed!Broken(c)
        BY <3>2, <3>3, RunningIsOpen DEF Observed!Broken, Fail
      <4> QED
        BY <4>1 DEF Observed!Next
    <3>4. CASE Valid(c, event) /\ event # "terminal" /\ seen' = [seen EXCEPT ![c] = Append(@, event)] /\ UNCHANGED failed
      <4>1. CASE seen[c] = << >>
        <5>1. Observed!Started(c)
          BY <3>2, <3>4, <4>1, RunningIsOpen DEF Valid, Observed!Started, Observed!Receives
        <5> QED
          BY <5>1 DEF Observed!Next
      <4>2. CASE seen[c] # << >>
        <5>1. Observed!Content(c)
          BY <3>2, <3>4, <4>2, RunningIsOpen DEF Valid, Events, Observed!Content, Observed!Receives
        <5> QED
          BY <5>1 DEF Observed!Next
      <4> QED
        BY <4>1, <4>2
    <3> QED
      BY <3>1, <3>3, <3>4 DEF EventArrives
  <2>4. CASE Exhausted(c)
    <3>1. pc[c] = "trailing" /\ seen[c] # << >>
      BY <2>4 DEF Exhausted, StreamInv
    <3>2. Observed!Finished(c)
      BY <2>4, <3>1, RunningIsOpen DEF Exhausted, Observed!Finished, Observed!Receives
    <3> QED
      BY <3>2 DEF Observed!Next
  <2>5. CASE UNCHANGED <<seen, failed>>
    BY <2>5
  <2> QED
    BY <1>2, <2>1, <2>2, <2>3, <2>4, <2>5 DEF Step, Settle, Generate, GenerateSettles, Resume, Abandon,
        CleanupCancels,
       CleanupEnds, Cancel, CancelSettles, Release, streamVars
<1> QED
  BY <1>1, <1>2

\* Whatever a transport emits, each consumer of a session's streams observes a
\* canonical stream (validateStreamEvent and the held-back terminal event).
THEOREM SessionIsCanonical == Spec => ConsumersSeeCanonicalStreams
<1>1. Init => Observed!Init
  BY DEF Init, Observed!Init
<1> QED
  BY <1>1, SessionIsInductive, StepsAreCanonical, PTL DEF Spec, ConsumersSeeCanonicalStreams, Observed!Spec

-----------------------------------------------------------------------------
(* The backend below it *)


\* A backend nobody has used.
LEMMA InitBackend == Backend!Init => Backend!LeaseIsTracked
<1> SUFFICES ASSUME Backend!Init PROVE Backend!LeaseIsTracked
  OBVIOUS
<1> USE RequestAssumption DEF Backend!Init
<1>1. Backend!TypeOK
  BY DEF Backend!TypeOK, Backend!Places, Backend!JobPlaces, Backend!Owners, Backend!CloseSteps
<1>2. Backend!LeaseInv /\ Backend!CloseInv
  BY DEF Backend!LeaseInv, Backend!CloseInv
<1>3. Backend!OneLeaseAtATime /\ Backend!ContextKeepsItsLease /\ Backend!CloseMeansClean /\ Backend!NoLoadUnderClose
  BY DEF Backend!OneLeaseAtATime, Backend!Leased, Backend!ContextKeepsItsLease, Backend!CloseMeansClean,
      Backend!NoLoadUnderClose
<1> QED
  BY <1>1, <1>2, <1>3 DEF Backend!LeaseIsTracked

\* A request begins, its job goes on, or it is done with its session.
LEMMA JobStep ==
    ASSUME Backend!LeaseIsTracked, NEW r \in Request, Backend!Begin(r) \/ Backend!Job(r) \/ Backend!Finish(r)
    PROVE  Backend!LeaseIsTracked'
<1> USE RequestAssumption DEF Backend!Begin, Backend!Job, Backend!Finish, Backend!NotAcquired, Backend!Acquired,
    Backend!Checked, Backend!HandOver, Backend!Initialized, Backend!InitializationFails, Backend!Opened,
        Backend!AnnouncementFails, Backend!HostUndone, Backend!RuntimeUndone, Backend!JobFails, Backend!Goto,
        Backend!Give, Backend!RuntimeCleared, Backend!Admits, Backend!flags
<1>1. place' \in [Request -> Backend!Places] /\ lease' \in [Request -> Backend!Owners]
  BY DEF Backend!LeaseIsTracked, Backend!TypeOK, Backend!Places, Backend!JobPlaces, Backend!Owners
<1>2. /\ context' \subseteq Request /\ loading' \in {None, loading, r} /\ active' \in {active, r}
      /\ cleanup' \in BOOLEAN /\ closing' = closing /\ poisoned' \in BOOLEAN /\ unresolved' \in BOOLEAN /\ closer' = closer
  BY DEF Backend!LeaseIsTracked, Backend!TypeOK
<1>3. \A d \in Request \ {r} : place'[d] = place[d]
  BY DEF Backend!LeaseIsTracked, Backend!TypeOK
<1>4. ASSUME NEW d \in Request PROVE loading' = d <=> place'[d] \in Backend!JobPlaces
  <2>1. CASE d = r
    BY <2>1 DEF Backend!LeaseIsTracked, Backend!TypeOK, Backend!JobPlaces
  <2>2. CASE d # r
    <3>1. loading = d <=> place'[d] \in Backend!JobPlaces
      BY <2>2, <1>3 DEF Backend!LeaseIsTracked, Backend!TypeOK
    <3>2. CASE place[r] \in Backend!JobPlaces
      <4>1. loading = r
        BY <3>2 DEF Backend!LeaseIsTracked, Backend!TypeOK
      <4> QED
        BY <2>2, <3>1, <4>1, <1>2
    <3>3. CASE place[r] \notin Backend!JobPlaces
      <4>1. loading' = loading \/ (loading = None /\ loading' = r)
        BY <3>3 DEF Backend!JobPlaces
      <4> QED
        BY <2>2, <3>1, <4>1
    <3> QED
      BY <3>2, <3>3
  <2> QED
    BY <2>1, <2>2
<1>5. active' # None => place'[active'] \in Backend!Places \ (Backend!JobPlaces \cup {"new"})
  BY DEF Backend!LeaseIsTracked, Backend!TypeOK, Backend!JobPlaces, Backend!CloseInv, Backend!Places
<1>6. Backend!TypeOK'
  BY <1>1, <1>2, <1>4, <1>5 DEF Backend!LeaseIsTracked, Backend!TypeOK
<1>7. place[r] \in Backend!JobPlaces => loading = r /\ active = None /\ (closer \in {"open", "loading"})
  BY DEF Backend!LeaseIsTracked, Backend!TypeOK, Backend!CloseInv
<1>8. ASSUME place[r] \in Backend!JobPlaces, NEW d \in Request \ {r} PROVE lease[d] = "none"
  BY <1>7, <1>8 DEF Backend!LeaseIsTracked, Backend!LeaseInv
<1>9. ASSUME NEW d \in Request \ {r} PROVE lease'[d] = lease[d]
  <2>1. CASE place[r] \in Backend!JobPlaces
    BY <2>1, <1>8 DEF Backend!LeaseIsTracked, Backend!TypeOK
  <2>2. CASE place[r] \notin Backend!JobPlaces
    BY <2>2 DEF Backend!JobPlaces
  <2> QED
    BY <2>1, <2>2
<1>10. CASE Backend!Begin(r)
  <2>1. /\ lease' = lease /\ context' = context /\ active' = active /\ cleanup' = cleanup
        /\ poisoned' = poisoned /\ unresolved' = unresolved
    BY <1>10
  <2>2. loading' = loading \/ (loading' = r /\ loading = None /\ active = None /\ ~poisoned /\ ~closing)
    BY <1>10
  <2>3. Backend!CloseInv'
    BY <1>2, <2>1, <2>2 DEF Backend!LeaseIsTracked, Backend!CloseInv
  <2>4. place'[r] \in {"preparing", "done"} /\ lease[r] = "none"
    BY <1>10 DEF Backend!LeaseIsTracked, Backend!LeaseInv, Backend!TypeOK
  <2>5. active # r
    BY <1>10 DEF Backend!LeaseIsTracked, Backend!LeaseInv
  <2>6. Backend!LeaseInv'
    BY <1>3, <2>1, <2>2, <2>4, <2>5 DEF Backend!LeaseIsTracked, Backend!LeaseInv
  <2>7. Backend!OneLeaseAtATime' /\ Backend!ContextKeepsItsLease'
    BY <2>1 DEF Backend!LeaseIsTracked, Backend!OneLeaseAtATime, Backend!ContextKeepsItsLease, Backend!Leased
  <2>8. Backend!CloseMeansClean' /\ Backend!NoLoadUnderClose'
    BY <1>2, <1>3, <2>1, <2>2, <2>4 DEF Backend!LeaseIsTracked, Backend!CloseMeansClean, Backend!NoLoadUnderClose,
        Backend!CloseInv, Backend!Leased
  <2> QED
    BY <1>6, <2>3, <2>6, <2>7, <2>8 DEF Backend!LeaseIsTracked
<1>11. CASE Backend!Finish(r)
  <2>1. /\ lease' = lease /\ context' = context /\ active' = active /\ loading' = loading
        /\ poisoned' = poisoned /\ unresolved' = unresolved
    BY <1>11
  <2>2. cleanup' = cleanup \/ active = r
    BY <1>11
  <2>3. Backend!CloseInv'
    BY <1>2, <2>1, <2>2 DEF Backend!LeaseIsTracked, Backend!CloseInv
  <2>4. place'[r] \in {"releasing", "done"} /\ place[r] = "open"
    BY <1>11 DEF Backend!LeaseIsTracked, Backend!TypeOK
  <2>5. Backend!LeaseInv'
    BY <1>3, <2>1, <2>4 DEF Backend!LeaseIsTracked, Backend!LeaseInv
  <2>6. Backend!OneLeaseAtATime' /\ Backend!ContextKeepsItsLease'
    BY <2>1 DEF Backend!LeaseIsTracked, Backend!OneLeaseAtATime, Backend!ContextKeepsItsLease, Backend!Leased
  <2>7. Backend!CloseMeansClean' /\ Backend!NoLoadUnderClose'
    BY <1>2, <1>3, <2>1, <2>4 DEF Backend!LeaseIsTracked, Backend!CloseMeansClean, Backend!NoLoadUnderClose,
        Backend!Leased
  <2> QED
    BY <1>6, <2>3, <2>5, <2>6, <2>7 DEF Backend!LeaseIsTracked
<1>12. CASE Backend!Job(r)
  <2>1. place[r] \in Backend!JobPlaces
    BY <1>12 DEF Backend!JobPlaces
  <2>2. loading = r /\ active = None /\ closer \in {"open", "loading"}
    BY <2>1, <1>7
  <2>3. cleanup' = FALSE /\ ~cleanup
    <3>1. cleanup = FALSE
      BY <2>2 DEF Backend!LeaseIsTracked, Backend!TypeOK, Backend!CloseInv
    <3>2. cleanup' = cleanup \/ cleanup' = FALSE
      BY <1>12
    <3> QED
      BY <3>1, <3>2
  <2>4. Backend!CloseInv'
    <3>1. active' # None => loading' = None
      BY <1>12, <2>2
    <3> QED
      BY <1>2, <2>2, <2>3, <3>1 DEF Backend!LeaseIsTracked, Backend!CloseInv
  <2>5. active' # r => active' = None
    BY <1>2, <2>2
  <2>6. /\ place'[r] \in {"new", "preparing"} => lease'[r] = "none"
        /\ place'[r] \in {"checking", "announced"} <=> lease'[r] = "host"
        /\ place'[r] = "undoing host" => lease'[r] = "orphan"
        /\ place'[r] = "undoing runtime" => lease'[r] \in {"runtime", "none"}
    <3> USE DEF Backend!LeaseIsTracked, Backend!TypeOK, Backend!LeaseInv
    <3>1. place'[r] \in {"new", "preparing"} => lease'[r] = "none"
      BY <1>12
    <3>2. place'[r] \in {"checking", "announced"} => lease'[r] = "host"
      BY <1>12
    <3>3. lease'[r] = "host" => place'[r] \in {"checking", "announced"}
      BY <1>12
    <3>4. place'[r] = "undoing host" => lease'[r] = "orphan"
      BY <1>12
    <3>5. place'[r] = "undoing runtime" => lease'[r] \in {"runtime", "none"}
      BY <1>12
    <3> QED
      BY <3>1, <3>2, <3>3, <3>4, <3>5
  <2>7. /\ place'[r] \in {"initializing", "loaded"} \/ active' = r => lease'[r] = "runtime"
        /\ lease'[r] = "lost" => unresolved'
    BY <1>12, <2>2 DEF Backend!LeaseIsTracked, Backend!TypeOK, Backend!LeaseInv
  <2>8. place'[r] = "initializing" => r \notin context'
    BY <1>12 DEF Backend!LeaseIsTracked, Backend!TypeOK, Backend!LeaseInv, Backend!ContextKeepsItsLease
  <2>9. lease'[r] # "none" => loading' = r \/ active' = r \/ poisoned'
    BY <1>12, <2>2 DEF Backend!LeaseIsTracked, Backend!TypeOK, Backend!LeaseInv
  <2>10. ASSUME NEW d \in Request \ {r} PROVE lease'[d] = "none" /\ place'[d] = place[d] /\ d # active'
    BY <1>3, <1>8, <1>9, <2>1, <2>5
  <2>11. \A d \in Request \ {r} : place[d] \notin Backend!JobPlaces
    BY <2>2 DEF Backend!LeaseIsTracked, Backend!TypeOK
  <2>12. Backend!LeaseInv'
    <3>1. \A d \in Request \ {r} : d \notin context' \/ place'[d] # "initializing"
      BY <2>10, <2>11 DEF Backend!JobPlaces
    <3>2. \A d \in Request \ {r} : place'[d] \notin {"checking", "announced", "undoing host", "initializing", "loaded"}
      BY <2>10, <2>11 DEF Backend!JobPlaces
    <3> QED
      BY <1>2, <2>2, <2>5, <2>6, <2>7, <2>8, <2>9, <2>10, <3>1, <3>2 DEF Backend!LeaseInv
  <2>13. Backend!ContextKeepsItsLease'
    <3>1. ASSUME NEW d \in Request \ {r} PROVE d \notin context'
      BY <1>12, <3>1, <1>8, <2>1 DEF Backend!LeaseIsTracked, Backend!ContextKeepsItsLease
    <3>2. r \in context' => lease'[r] = "runtime"
      BY <1>12 DEF Backend!LeaseIsTracked, Backend!TypeOK, Backend!LeaseInv, Backend!ContextKeepsItsLease
    <3> QED
      BY <1>2, <3>1, <3>2 DEF Backend!ContextKeepsItsLease
  <2>14. Backend!OneLeaseAtATime'
    BY <1>2, <2>10, <2>13 DEF Backend!OneLeaseAtATime, Backend!Leased, Backend!ContextKeepsItsLease
  <2>15. Backend!CloseMeansClean' /\ Backend!NoLoadUnderClose'
    BY <1>2, <2>2 DEF Backend!CloseMeansClean, Backend!NoLoadUnderClose
  <2> QED
    BY <1>6, <2>4, <2>12, <2>13, <2>14, <2>15 DEF Backend!LeaseIsTracked
<1> QED
  BY <1>10, <1>11, <1>12

\* The session's release settles: the lease is back, or the backend is poisoned.
LEMMA ReleaseStep ==
    ASSUME Backend!LeaseIsTracked, NEW ok \in BOOLEAN, Backend!SessionReleased(ok)
    PROVE  Backend!LeaseIsTracked'
<1> USE RequestAssumption DEF Backend!SessionReleased, Backend!Give
<1>1. active \in Request /\ cleanup /\ loading = None /\ loading' = None
  BY DEF Backend!LeaseIsTracked, Backend!TypeOK, Backend!CloseInv
<1>2. \A d \in Request : place[d] \notin Backend!JobPlaces /\ place[d] \notin {"initializing", "loaded"}
  BY <1>1 DEF Backend!LeaseIsTracked, Backend!TypeOK, Backend!JobPlaces
<1>3. \A d \in Request : place'[d] = place[d] \/ place'[d] = "done"
  BY DEF Backend!LeaseIsTracked, Backend!TypeOK
<1>4. \A d \in Request : place'[d] \notin Backend!JobPlaces
  BY <1>2, <1>3 DEF Backend!JobPlaces
<1>5. \A d \in Request : d # active => lease[d] = "none" /\ lease'[d] = "none" /\ d \notin context'
  BY <1>1 DEF Backend!LeaseIsTracked, Backend!TypeOK, Backend!LeaseInv, Backend!ContextKeepsItsLease
<1>6. Backend!TypeOK'
  <2>1. place' \in [Request -> Backend!Places] /\ lease' \in [Request -> Backend!Owners]
    BY DEF Backend!LeaseIsTracked, Backend!TypeOK, Backend!Places, Backend!Owners
  <2>2. context' \subseteq Request /\ active' \in {active, None} /\ cleanup' \in BOOLEAN /\ closing' \in BOOLEAN
        /\ poisoned' \in BOOLEAN /\ unresolved' \in BOOLEAN /\ closer' \in Backend!CloseSteps
    BY DEF Backend!LeaseIsTracked, Backend!TypeOK, Backend!CloseSteps
  <2>3. active' # None => place'[active'] \in Backend!Places \ (Backend!JobPlaces \cup {"new"})
    BY <1>1, <1>3, <1>4, <2>1, <2>2 DEF Backend!LeaseIsTracked, Backend!TypeOK
  <2> QED
    BY <1>1, <1>4, <2>1, <2>2, <2>3 DEF Backend!TypeOK
<1>7. closer \notin {"runtime", "orphan", "resolved"}
  BY <1>1 DEF Backend!LeaseIsTracked, Backend!CloseInv
<1>8. Backend!CloseInv'
  <2>1. ~cleanup'
    OBVIOUS
  <2>2. closer' \notin {"orphan", "resolved"} /\ (closer' = "runtime" => active' = None)
    BY <1>7
  <2>3. closing' <=> closer' # "open"
    BY DEF Backend!LeaseIsTracked, Backend!CloseInv
  <2> QED
    BY <1>1, <2>1, <2>2, <2>3 DEF Backend!CloseInv
<1>9. lease[active] = "runtime" /\ (active' = None => lease'[active] = "none" /\ active \notin context')
      /\ (active' # None => lease' = lease /\ active' = active /\ poisoned')
  BY <1>1 DEF Backend!LeaseIsTracked, Backend!TypeOK, Backend!LeaseInv
<1>10. Backend!LeaseInv'
  <2>1. ASSUME NEW d \in Request
        PROVE  place'[d] \notin {"checking", "announced", "undoing host", "undoing runtime", "initializing", "loaded",
                                 "preparing"}
    BY <1>4 DEF Backend!JobPlaces
  <2>2. ASSUME NEW d \in Request PROVE lease'[d] \notin {"host", "lost"} /\ (place'[d] = "new" => lease'[d] = "none")
    BY <1>1, <1>3, <1>5, <1>9 DEF Backend!LeaseIsTracked, Backend!LeaseInv
  <2>3. ASSUME NEW d \in Request PROVE active' = d => lease'[d] = "runtime"
    BY <1>1, <1>9
  <2>4. ASSUME NEW d \in Request, lease'[d] # "none" PROVE d = active /\ active' = active /\ poisoned'
    BY <1>1, <1>5, <1>9, <2>4
  <2> QED
    BY <1>1, <2>1, <2>2, <2>3, <2>4 DEF Backend!LeaseInv
<1>11. Backend!ContextKeepsItsLease' /\ Backend!OneLeaseAtATime'
  BY <1>5, <1>6, <1>9 DEF Backend!TypeOK, Backend!ContextKeepsItsLease, Backend!OneLeaseAtATime, Backend!Leased
<1>12. Backend!CloseMeansClean' /\ Backend!NoLoadUnderClose'
  BY <1>4, <1>7 DEF Backend!CloseMeansClean, Backend!NoLoadUnderClose, Backend!JobPlaces
<1> QED
  BY <1>6, <1>8, <1>10, <1>11, <1>12 DEF Backend!LeaseIsTracked

\* The close: the flag, the active session, the runtime, then the orphaned lease.
LEMMA CloseStep ==
    ASSUME Backend!LeaseIsTracked, Backend!Close \/ Backend!Closing
    PROVE  Backend!LeaseIsTracked'
<1> USE RequestAssumption
<1>1. CASE Backend!Close
  <2> USE <1>1 DEF Backend!Close
  <2>1. Backend!TypeOK'
    BY DEF Backend!LeaseIsTracked, Backend!TypeOK, Backend!CloseSteps
  <2>2. Backend!CloseInv' /\ Backend!LeaseInv'
    BY DEF Backend!LeaseIsTracked, Backend!CloseInv, Backend!LeaseInv
  <2>3. Backend!OneLeaseAtATime' /\ Backend!ContextKeepsItsLease' /\ Backend!CloseMeansClean' /\ Backend!NoLoadUnderClose'
    BY DEF Backend!LeaseIsTracked, Backend!OneLeaseAtATime, Backend!ContextKeepsItsLease, Backend!CloseMeansClean,
        Backend!NoLoadUnderClose, Backend!Leased
  <2> QED
    BY <2>1, <2>2, <2>3 DEF Backend!LeaseIsTracked
<1>2. ASSUME loading = None PROVE \A r \in Request : place[r] \notin Backend!JobPlaces
  BY <1>2 DEF Backend!LeaseIsTracked, Backend!TypeOK
<1>3. CASE Backend!CloseSession
  <2> USE <1>3 DEF Backend!CloseSession, Backend!flags
  <2>1. Backend!TypeOK'
    BY DEF Backend!LeaseIsTracked, Backend!TypeOK, Backend!CloseSteps
  <2>2. Backend!CloseInv' /\ Backend!LeaseInv'
    BY DEF Backend!LeaseIsTracked, Backend!CloseInv, Backend!LeaseInv
  <2>3. Backend!OneLeaseAtATime' /\ Backend!ContextKeepsItsLease' /\ Backend!CloseMeansClean'
    BY DEF Backend!LeaseIsTracked, Backend!OneLeaseAtATime, Backend!ContextKeepsItsLease, Backend!CloseMeansClean,
        Backend!Leased
  <2>4. Backend!NoLoadUnderClose'
    BY <1>2 DEF Backend!NoLoadUnderClose, Backend!JobPlaces
  <2> QED
    BY <2>1, <2>2, <2>3, <2>4 DEF Backend!LeaseIsTracked
<1>4. ASSUME NEW ok \in BOOLEAN, Backend!CloseRuntime(ok) PROVE Backend!LeaseIsTracked'
  <2> USE <1>4 DEF Backend!CloseRuntime, Backend!CloseFails, Backend!RuntimeCleared
  <2>1. loading = None /\ active = None /\ ~cleanup
    BY DEF Backend!LeaseIsTracked, Backend!CloseInv
  <2>2. \A r \in Request : place[r] \notin Backend!JobPlaces
    BY <1>2, <2>1
  <2>3. Backend!TypeOK'
    BY DEF Backend!LeaseIsTracked, Backend!TypeOK, Backend!CloseSteps, Backend!Owners
  <2>4. \A r \in Request : lease'[r] = lease[r] \/ (lease[r] = "runtime" /\ lease'[r] = "none")
    OBVIOUS
  <2>5. Backend!CloseInv'
    BY <2>1 DEF Backend!LeaseIsTracked, Backend!TypeOK, Backend!CloseInv
  <2>6. Backend!LeaseInv'
    BY <2>1, <2>2, <2>4 DEF Backend!LeaseIsTracked, Backend!TypeOK, Backend!LeaseInv, Backend!JobPlaces
  <2>7. Backend!ContextKeepsItsLease' /\ Backend!OneLeaseAtATime'
    BY <2>4 DEF Backend!LeaseIsTracked, Backend!ContextKeepsItsLease, Backend!OneLeaseAtATime, Backend!Leased
  <2>8. Backend!CloseMeansClean' /\ Backend!NoLoadUnderClose'
    BY <2>2 DEF Backend!CloseMeansClean, Backend!NoLoadUnderClose, Backend!JobPlaces
  <2> QED
    BY <2>3, <2>5, <2>6, <2>7, <2>8 DEF Backend!LeaseIsTracked
<1>5. ASSUME NEW ok \in BOOLEAN, Backend!CloseOrphan(ok) PROVE Backend!LeaseIsTracked'
  <2> USE <1>5 DEF Backend!CloseOrphan, Backend!CloseFails
  <2>1. loading = None /\ active = None /\ ~cleanup /\ \A r \in Request : lease[r] # "runtime"
    BY DEF Backend!LeaseIsTracked, Backend!CloseInv
  <2>2. \A r \in Request : place[r] \notin Backend!JobPlaces
    BY <1>2, <2>1
  <2>3. Backend!TypeOK'
    BY DEF Backend!LeaseIsTracked, Backend!TypeOK, Backend!CloseSteps, Backend!Owners
  <2>4. \A r \in Request : lease'[r] = lease[r] \/ (lease[r] = "orphan" /\ lease'[r] = "none")
    OBVIOUS
  <2>5. Backend!CloseInv'
    BY <2>1 DEF Backend!LeaseIsTracked, Backend!TypeOK, Backend!CloseInv
  <2>6. Backend!LeaseInv'
    BY <2>1, <2>2, <2>4 DEF Backend!LeaseIsTracked, Backend!TypeOK, Backend!LeaseInv, Backend!JobPlaces
  <2>7. context = {} /\ context' = {}
    BY <2>1 DEF Backend!LeaseIsTracked, Backend!TypeOK, Backend!ContextKeepsItsLease
  <2>8. Backend!ContextKeepsItsLease' /\ Backend!OneLeaseAtATime'
    BY <2>4, <2>7 DEF Backend!LeaseIsTracked, Backend!ContextKeepsItsLease, Backend!OneLeaseAtATime, Backend!Leased
  <2>9. Backend!CloseMeansClean'
    <3> SUFFICES ASSUME closer' = "resolved" PROVE Backend!CloseMeansClean'
      BY DEF Backend!CloseMeansClean
    <3>1. ok /\ ~unresolved
      OBVIOUS
    <3>2. ASSUME NEW r \in Request PROVE lease'[r] = "none"
      BY <2>1, <2>2, <3>1 DEF Backend!LeaseIsTracked, Backend!TypeOK, Backend!LeaseInv, Backend!JobPlaces,
          Backend!Owners
    <3> QED
      BY <2>1, <2>7, <3>2 DEF Backend!CloseMeansClean, Backend!Leased
  <2>10. Backend!NoLoadUnderClose'
    BY <2>2 DEF Backend!NoLoadUnderClose, Backend!JobPlaces
  <2> QED
    BY <2>3, <2>5, <2>6, <2>8, <2>9, <2>10 DEF Backend!LeaseIsTracked
<1> QED
  BY <1>1, <1>3, <1>4, <1>5 DEF Backend!Closing

\* A backend that does not move keeps the invariant, and every step keeps it.
LEMMA NextBackend ==
    ASSUME Backend!LeaseIsTracked, [Backend!Next]_(Backend!vars)
    PROVE  Backend!LeaseIsTracked'
<1>1. CASE UNCHANGED Backend!vars
  BY <1>1 DEF Backend!vars, Backend!LeaseIsTracked, Backend!TypeOK, Backend!LeaseInv, Backend!CloseInv,
              Backend!OneLeaseAtATime, Backend!ContextKeepsItsLease, Backend!CloseMeansClean,
              Backend!NoLoadUnderClose, Backend!Leased
<1>2. CASE Backend!Next
  BY <1>2, JobStep, ReleaseStep, CloseStep DEF Backend!Next
<1> QED
  BY <1>1, <1>2

\* The lease of every request is tracked from the store to the runtime and back,
\* whatever fails and whenever the application closes the backend: it is never
\* doubled, never outlived by its context, and none is left by a resolved close.
THEOREM LeaseAlwaysTracked == Backend!Spec => []LeaseIsTracked
<1>1. Backend!Init => LeaseIsTracked
  BY InitBackend DEF LeaseIsTracked
<1>2. LeaseIsTracked /\ [Backend!Next]_(Backend!vars) => LeaseIsTracked'
  BY NextBackend DEF LeaseIsTracked
<1> QED
  BY <1>1, <1>2, PTL DEF Backend!Spec

-----------------------------------------------------------------------------
(* Both in one process *)

\* A step of the process is a step of the session, of the backend, or of neither.
LEMMA EitherMoves ==
    ASSUME [MCNext]_<<mover, vars, backendVars>>
    PROVE  [Next]_vars /\ [Backend!Next]_(Backend!vars)
<1> QED
  BY DEF MCNext, backendVars, Backend!vars

\* In an application's process, where session and backend interleave, both keep
\* their invariants.
THEOREM SdkIsInductive == MCSpec => [](SessionInductive /\ LeaseIsTracked)
<1>1. MCInit => SessionInductive /\ Backend!LeaseIsTracked
  BY InitSession, InitBackend DEF MCInit
<1>2. ASSUME SessionInductive, Backend!LeaseIsTracked, [MCNext]_<<mover, vars, backendVars>>
      PROVE  SessionInductive' /\ Backend!LeaseIsTracked'
  BY <1>2, EitherMoves, NextSession, NextBackend
<1> QED
  BY <1>1, <1>2, PTL DEF MCSpec, LeaseIsTracked

\* In it every consumer observes a canonical stream, too.
THEOREM SdkIsCanonical == MCSpec => ConsumersSeeCanonicalStreams
<1>1. MCInit => Observed!Init
  BY DEF MCInit, Init, Observed!Init
<1>2. [MCNext]_<<mover, vars, backendVars>> => [Next]_vars
  BY EitherMoves
<1> QED
  BY <1>1, <1>2, SdkIsInductive, StepsAreCanonical, PTL DEF MCSpec, ConsumersSeeCanonicalStreams, Observed!Spec
=============================================================================
