--------------------------- MODULE ProviderStream ---------------------------
(***************************************************************************)
(* One request to the OpenAI or the Anthropic adapter: adapter.ts of       *)
(* packages/provider-openai and packages/provider-anthropic with the       *)
(* backend of packages/client/src/provider-backend.ts behind it.  A        *)
(* streamed answer is a ReadableStream whose pull and cancel callbacks     *)
(* drive the generator of ProviderDialects; the application may abort the  *)
(* request or cancel the body at any moment.  client is what an SDK has    *)
(* assembled from the frames it was given.                                 *)
(***************************************************************************)
EXTENDS ProviderDialects, ProviderRequests

CONSTANTS
    Dialect,    \* the endpoints of this instance
    MaxEvents,  \* bound: canonical events of one stream
    MaxLength   \* bound: length of a call's final arguments

ASSUME NoneAssumption == None \notin Nat
ASSUME CallAssumption == IsFiniteSet(Call) /\ Call = 1 .. Cardinality(Call)
ASSUME BoundsAssumption == MaxEvents \in Nat /\ MaxLength \in Nat
ASSUME DialectAssumption == Dialect \subseteq {"responses", "chat", "chat with usage", "messages"}

VARIABLES
    dialect,    \* the endpoint of the request
    phase,      \* "resolving", "accepted", "completing", "streaming", "answered", "refused", "rejected"
    request,    \* what the body asks and what the model can do, until it is executed
    aborted,    \* the abort signal given to the backend
    source,     \* the backend's session: "none", "open", "closed"; "failed" if its release rejected
    g, queue, then, \* the generator, the frames it has still to yield, what it does after
    pull,       \* pull callback: "idle", "next" (awaits the generator), "return"
    cancelling, \* cancel callback: awaits the generator's return
    body,       \* the ReadableStream: "open", "closed", "errored", "cancelled"
    client,     \* what the SDK has assembled
    answer,     \* the final response of the backend
    events      \* canonical events so far

vars == <<dialect, phase, request, aborted, source, g, queue, then, pull, cancelling, body, client, answer, events>>
generator == <<g, queue, then, answer, events>>
callbacks == <<pull, cancelling, body>>

Started == {[type |-> "started"], [type |-> "text"], [type |-> "usage"],
            [type |-> "failed"], [type |-> "foreign"]}
Indexes == 0 .. Cardinality(Call) - 1
Calls == UNION {[S -> 0 .. MaxLength] : S \in SUBSET Call}

\* A final response: at most one of the three things the branches check is
\* wrong with it (cancelled, not sound, without a token count).  "cancelled" is
\* also "error": the two are refused, or let through, at the same places.
Answers ==
    {r \in [type : {"completed"}, text : 0 .. 1, calls : Calls,
            stop : {"stop", "cancelled"}, sound : BOOLEAN, usage : BOOLEAN] :
        \/ r.sound /\ r.usage
        \/ r.stop = "stop" /\ (r.sound \/ r.usage)}

Events == Started
          \cup [type : {"call", "arguments"}, call : Call, index : Indexes]
          \cup [type : {"called"}, call : Call, index : Indexes, length : 0 .. MaxLength]
          \cup Answers

Nothing == [started |-> FALSE, ended |-> "no", items |-> << >>, text |-> 0, wellFormed |-> TRUE]

Init ==
    /\ dialect \in Dialect
    /\ phase = "resolving" /\ request = None /\ aborted = FALSE /\ source = "none"
    /\ g = Fresh /\ queue = << >> /\ then = "more" /\ answer = None /\ events = 0
    /\ pull = "idle" /\ cancelling = FALSE /\ body = "open"
    /\ client = Nothing

-----------------------------------------------------------------------------
(* The SDK at the other end of the wire *)

\* What the documented order of endpoint d allows after what c has assembled.
Ordered(d) == d \in {"responses", "messages"}
AllClosed(c) == \A i \in DOMAIN c.items : ~c.items[i].open

NewItem(d, c, f) ==
    /\ f.at \notin DOMAIN c.items
    /\ f.of = Prose \/ \A i \in DOMAIN c.items : c.items[i].of # f.of
    /\ Ordered(d) => f.at = Cardinality(DOMAIN c.items)

Legal(d, c, f) ==
    /\ c.ended = "no"
    /\ CASE f.do = "begin" -> ~c.started
         [] f.do = "error" -> TRUE
         [] f.do = "item"  -> c.started /\ NewItem(d, c, f)
         [] f.do \in {"delta", "close"} -> f.at \in DOMAIN c.items /\ c.items[f.at].open
         [] f.do = "text"   -> c.started
         [] f.do = "finish" -> c.started /\ (Ordered(d) => AllClosed(c))

Assembled(c, f) ==
    CASE f.do = "begin"  -> [c EXCEPT !.started = TRUE]
      [] f.do = "item"   -> [c EXCEPT !.items = With(@, f.at, [of |-> f.of, open |-> TRUE, length |-> 0])]
      [] f.do = "delta"  -> [c EXCEPT !.items[f.at].length = @ + f.length,
                                      !.text = IF c.items[f.at].of = Prose THEN @ + f.length ELSE @]
      [] f.do = "text"   -> [c EXCEPT !.text = @ + f.length]
      [] f.do = "close"  -> [c EXCEPT !.items[f.at].open = FALSE]
      [] f.do = "finish" -> [c EXCEPT !.ended = "finished"]
      [] OTHER           -> [c EXCEPT !.ended = "error"]

\* An error after the end is told apart from the other frames out of order.
Enqueue(f) ==
    client' = IF Legal(dialect, client, f) THEN Assembled(client, f)
              ELSE IF f.do = "error" /\ client.ended # "no" THEN [client EXCEPT !.ended = "broken"]
              ELSE [client EXCEPT !.wellFormed = FALSE]

-----------------------------------------------------------------------------
(* handleFetch up to the call of the backend *)

\* The model list arrives: the request is rejected if it was aborted, refused if
\* the model is not there or not ready.
Unresolved ==
    /\ phase = "resolving"
    /\ phase' = IF aborted THEN "rejected" ELSE "refused"
    /\ UNCHANGED <<dialect, request, aborted, source, generator, callbacks, client>>

\* parse.ts reads the body against the model's descriptor.
Parsed ==
    /\ phase = "resolving" /\ ~aborted
    /\ \E reported \in Reports : \E offers \in Offers(reported), asks \in Asks :
          /\ Taken(dialect, asks, offers)
          /\ request' = [asks |-> asks, reported |-> reported]
    /\ phase' = "accepted"
    /\ UNCHANGED <<dialect, aborted, source, generator, callbacks, client>>

\* The canonical request is validated and given to the backend.  A stream opens
\* its session when it is first pulled.
Executed ==
    /\ phase = "accepted" /\ request' = None
    /\ phase' = IF ~Canonical(request.asks) THEN "refused"
                ELSE IF "stream" \in request.asks THEN "streaming" ELSE "completing"
    /\ source' = IF phase' = "completing" THEN "open" ELSE source
    /\ UNCHANGED <<dialect, aborted, generator, callbacks, client>>

\* session.release() in a finally block.  It may reject, and nobody repeats it.
Release == source' \in IF source = "open" THEN {"closed", "failed"} ELSE {source}

\* complete(): the backend answered, then its session is released; if that
\* rejects, its error takes the place of the answer.
Completed(r) ==
    /\ phase = "completing" /\ source = "open"
    /\ Release /\ answer' = r
    /\ phase' = IF source' = "failed" THEN "refused"
                ELSE IF aborted THEN "rejected"
                ELSE IF r.stop = "cancelled" \/ ~r.sound \/ (dialect = "messages" /\ ~r.usage) THEN "refused"
                ELSE "answered"
    /\ UNCHANGED <<dialect, request, aborted, g, queue, then, events, callbacks, client>>

\* The backend throws, whatever comes of the release: an AbortError, which may be
\* its own, is rethrown, any other error becomes a refusal.
CompletionFails(next) ==
    /\ phase = "completing" /\ source = "open"
    /\ Release /\ phase' = next
    /\ UNCHANGED <<dialect, request, aborted, generator, callbacks, client>>

-----------------------------------------------------------------------------
(* The streamed body *)

\* The catch block of pull: the signal is set, the generator is told to return.
Catch == aborted' = TRUE /\ pull' = "return"

\* The stream asks for more; the first pull starts the generators, which open
\* the backend's session.
Pull ==
    /\ phase = "streaming" /\ body = "open" /\ pull = "idle"
    /\ IF aborted THEN Catch /\ UNCHANGED source
       ELSE /\ pull' = "next" /\ UNCHANGED aborted
            /\ source' = IF source = "none" THEN "open" ELSE source
    /\ UNCHANGED <<dialect, phase, request, generator, cancelling, body, client>>

\* The backend's next event; the session is closed when the loop ends by itself.
Event(e) ==
    /\ pull = "next" /\ queue = << >> /\ then = "more" /\ source = "open" /\ events < MaxEvents
    /\ LET step == Translate(dialect, g, e) IN
       /\ g' = step.g /\ queue' = step.frames /\ then' = step.then
    /\ events' = events + 1
    /\ answer' = IF e.type = "completed" THEN e ELSE answer
    /\ UNCHANGED <<dialect, phase, request, aborted, source, callbacks, client>>

\* The backend throws, as it does once it is aborted, whatever comes of the release.
SourceFails ==
    /\ pull = "next" /\ queue = << >> /\ then = "more" /\ source = "open"
    /\ then' = "throw" /\ Release
    /\ UNCHANGED <<dialect, phase, request, aborted, g, queue, answer, events, callbacks, client>>

\* A mutant: an abort during the await does not stop the frame.
FrameAfterAbort ==
    /\ pull = "next" /\ queue # << >>
    /\ queue' = Tail(queue)
    /\ pull' = "idle" /\ Enqueue(Head(queue)) /\ UNCHANGED aborted
    /\ UNCHANGED <<dialect, phase, request, source, g, then, answer, events, cancelling, body>>

\* The generator yields a frame.  A cancelled body takes nothing more.
Frame ==
    /\ pull = "next" /\ queue # << >>
    /\ queue' = Tail(queue)
    /\ IF aborted THEN Catch /\ UNCHANGED client
       ELSE pull' = "idle" /\ Enqueue(Head(queue)) /\ UNCHANGED aborted
    /\ UNCHANGED <<dialect, phase, request, source, g, then, answer, events, cancelling, body>>

\* A mutant: the body is closed while the session is still being released.
DoneEarly ==
    /\ pull = "next" /\ queue = << >> /\ then = "done"
    /\ IF aborted THEN Catch /\ UNCHANGED body
       ELSE pull' = "idle" /\ body' = "closed" /\ UNCHANGED aborted
    /\ UNCHANGED <<dialect, phase, request, source, generator, cancelling, client>>

\* The generator is done: leaving its loop released the session.
Done ==
    /\ pull = "next" /\ queue = << >> /\ then = "done" /\ source = "open"
    /\ source' = "closed"
    /\ IF aborted THEN Catch /\ UNCHANGED body
       ELSE pull' = "idle" /\ body' = "closed" /\ UNCHANGED aborted
    /\ UNCHANGED <<dialect, phase, request, generator, cancelling, client>>

\* Leaving its loop released the session, which rejected: the generator throws,
\* with its last frame given already.
ReleaseRejects ==
    /\ pull = "next" /\ queue = << >> /\ then = "done" /\ source = "open"
    /\ source' = "failed" /\ then' = "throw"
    /\ UNCHANGED <<dialect, phase, request, aborted, g, queue, answer, events, callbacks, client>>

\* The generator threw, leaving its loop, whatever comes of the release: an error
\* frame ends the body, unless the signal was set or the backend threw an
\* AbortError of its own.
Thrown ==
    /\ pull = "next" /\ queue = << >> /\ then = "throw"
    /\ Release /\ aborted' = TRUE /\ pull' = "idle"
    /\ IF body # "open" THEN UNCHANGED <<body, client>>
       ELSE \/ (aborted \/ source # "open") /\ body' = "errored" /\ UNCHANGED client
            \/ ~aborted /\ body' = "closed" /\ Enqueue(Error)
    /\ UNCHANGED <<dialect, phase, request, generator, cancelling>>

\* iterator.return() after an abort: the session is released, if there is one; an
\* error of that is swallowed, and the body errored.
Returned ==
    /\ pull = "return"
    /\ Release /\ pull' = "idle" /\ then' = "done"
    /\ body' = IF body = "open" THEN "errored" ELSE body
    /\ UNCHANGED <<dialect, phase, request, aborted, g, queue, answer, events, cancelling, client>>

\* A mutant: cancelling the body does not reach the backend.
CancelUnheard ==
    /\ phase = "streaming" /\ body = "open"
    /\ body' = "cancelled" /\ cancelling' = (pull # "return")
    /\ UNCHANGED <<dialect, phase, request, aborted, source, generator, pull, client>>

\* The application cancels the body; once settled there is nothing left to do.
Cancel ==
    /\ phase = "streaming" /\ body = "open"
    /\ body' = "cancelled"
    /\ IF pull = "return" THEN UNCHANGED <<aborted, cancelling>>
                          ELSE aborted' = TRUE /\ cancelling' = TRUE
    /\ UNCHANGED <<dialect, phase, request, source, generator, pull, client>>

\* The generator's return waits for a next() in progress; an error of the release
\* is the application's, whose body is cancelled all the same.
Cancelled ==
    /\ cancelling /\ pull # "next"
    /\ cancelling' = FALSE /\ Release /\ then' = "done"
    /\ UNCHANGED <<dialect, phase, request, aborted, g, queue, answer, events, pull, body, client>>

\* The application aborts the request; the signal is relayed to the backend.
Abort ==
    /\ ~aborted /\ phase \in {"resolving", "completing", "streaming"} /\ body = "open"
    /\ aborted' = TRUE
    /\ UNCHANGED <<dialect, phase, request, source, generator, callbacks, client>>

-----------------------------------------------------------------------------
Deliver == Frame \/ Done \/ ReleaseRejects \/ Thrown \/ Returned \/ Cancelled

Next ==
    \/ Unresolved \/ Parsed \/ Executed
    \/ \E r \in Answers : Completed(r)
    \/ \E next \in {"refused", "rejected"} : CompletionFails(next)
    \/ Pull \/ SourceFails \/ Deliver
    \/ \E e \in Events : Event(e)
    \/ Cancel \/ Abort

Spec == Init /\ [][Next]_vars

\* The generator runs, the application reads the body until it ends or cancels
\* it, a backend whose signal is set throws, and a release resolves or rejects.
FairSpec ==
    /\ Spec
    /\ WF_vars(Deliver) /\ WF_vars(Pull) /\ WF_vars(aborted /\ SourceFails)

-----------------------------------------------------------------------------
(* Properties *)

\* What an endpoint takes, the protocol takes and the loaded model executes, or
\* the refusal is one that only the protocol's value rules (blank metadata keys,
\* JSON nested too deep) or the loaded template can give.
AcceptedIsServable ==
    phase = "accepted" =>
        /\ Canonical(request.asks) \/ request.asks \cap {"blank key", "deep json"} # {}
        /\ Executes(request.asks, request.reported) \/ Late(request.asks, request.reported)

\* Whatever the backend streams, the frames follow the endpoint's documented
\* order: one start, items numbered without a gap, nothing for an item that is
\* not open, every item closed before the end, nothing after it but an error, and
\* that only because the session could not be released.
WireIsWellFormed ==
    /\ client.wellFormed
    /\ client.ended = "broken" => source = "failed"

\* A stream that finished carried exactly the final response: all of its text
\* and each of its calls once, with all its arguments.
Carries(c, r) ==
    /\ c.text = r.text
    /\ \A call \in DOMAIN r.calls :
          \E i \in DOMAIN c.items : c.items[i].of = call /\ c.items[i].length = r.calls[call]
    /\ \A i \in DOMAIN c.items : c.items[i].of \in DOMAIN r.calls \cup {Prose}

FinishedWireIsTheAnswer == client.ended = "finished" => Carries(client, answer)

\* The application learns that a request is over only when the release of its
\* session has settled, and of a success only when it resolved: its next request
\* finds the backend free, or the failure to free it was not hidden by a success.
OverMeansReleased ==
    /\ body \in {"closed", "errored"} \/ phase \in {"answered", "rejected", "refused"}
          => source # "open"
    /\ phase = "answered" \/ (body = "closed" /\ client.ended = "finished")
          => source = "closed"

\* A response that the backend cancelled is never given as a success.
NoInventedSuccess ==
    client.ended = "finished" \/ phase = "answered" => answer.stop # "cancelled"

\* After an abort the application gets no frame and no answer.
AbortSilences ==
    [][aborted => client'.items = client.items /\ client'.ended = client.ended /\ phase' # "answered"]_vars

\* After an abort or a cancelled body the session is released, for good or with an
\* error, or was never opened, even while the backend is silent.
AbortReleases ==
    (phase = "streaming" /\ (aborted \/ body = "cancelled")) ~> [](source # "open")
=============================================================================
