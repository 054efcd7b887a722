------------------------- MODULE ProviderStreamProofs -------------------------
(***************************************************************************)
(* What ProviderStream promises the application is true for every endpoint *)
(* of the two adapters, every number of calls and of canonical events, and *)
(* every answer of the backend.  StreamInductive relates the request, its  *)
(* session and what is queued; WireInv adds what the queue leads to at the *)
(* other end of the wire, which rests on one relation, Agrees, between the *)
(* variables of a generator and what an SDK has assembled of its frames.   *)
(***************************************************************************)
EXTENDS ProviderStream, SequenceTheorems, FiniteSetTheorems, WellFoundedInduction, TLAPS

-----------------------------------------------------------------------------
(* What the adapters take.                                                 *)

\* A context's report is one of booleans; without a grammar it has no template.
LEMMA ReportsProperties ==
    ASSUME NEW reported \in Reports
    PROVE  /\ reported.grammar = ~reported.fallback
           /\ reported.parallel => reported.tools
           /\ reported.tools => reported.grammar
           /\ reported.systemRole => reported.grammar
<1>1. PICK template \in SUBSET Template : reported = Reported(template)
  BY DEF Reports
<1> QED
  BY <1>1 DEF Reported

\* An honest descriptor offers tools, parallel calls and grammars only when the
\* context has them, and never a strict flag.
LEMMA OffersProperties ==
    ASSUME NEW reported \in Reports, NEW offers \in Offers(reported)
    PROVE  /\ "tools" \in offers => reported.tools
           /\ "json_object" \in offers \/ "json_schema" \in offers => reported.grammar
           /\ "strict" \notin offers
  BY DEF Offers, Servable

\* An assistant turn that is empty is not among the things both adapters read.
LEMMA CommonAsksProperties == "empty turn" \notin CommonAsks
<1>1. "empty turn" \notin ToolAsks /\ "empty turn" \notin ChoiceAsks /\ "empty turn" \notin ParallelAsks
  BY DEF ToolAsks, ChoiceAsks, ParallelAsks
<1>2. "empty turn" \notin FormatAsks /\ "empty turn" \notin SamplingAsks /\ "empty turn" \notin InputAsks
  BY DEF FormatAsks, SamplingAsks, InputAsks
<1>3. "empty turn" \notin {"stream"}
  OBVIOUS
<1> QED
  BY <1>1, <1>2, <1>3, Zenon DEF CommonAsks

\* Whatever a body asks, an endpoint that takes it gives the protocol and the
\* loaded model nothing they refuse for a reason that was known before.
LEMMA TakenIsServable ==
    ASSUME NEW d \in {"responses", "chat", "chat with usage", "messages"}, NEW asks,
           NEW reported \in Reports, NEW offers \in Offers(reported), Taken(d, asks, offers)
    PROVE  /\ Canonical(asks) \/ asks \cap {"blank key", "deep json"} # {}
           /\ Executes(asks, reported) \/ Late(asks, reported)
<1> USE DEF HasTools, ToolAsks, ChoiceAsks, ParallelAsks, FormatAsks
<1> DEFINE Common ==
      /\ HasTools(asks) => reported.tools
      /\ asks \cap FormatAsks # {} => reported.grammar
      /\ asks \cap ChoiceAsks # {} => HasTools(asks)
      /\ asks \cap {"absent choice", "scorching", "twin tools", "garbled", "empty turn", "image"} = {}
<1>1. Common
  <2>1. CASE d = "responses"
    <3>1. ResponsesTaken(asks, offers)
      BY <2>1 DEF Taken
    <3>2. "empty turn" \notin asks
      <4>2. asks \subseteq ResponsesFields
        BY <3>1 DEF ResponsesTaken
      <4> QED
        BY <4>2, CommonAsksProperties DEF ResponsesFields
    <3>3. /\ ToolsTaken(asks, offers) /\ ChoiceTaken(asks)
          /\ FormatTaken(asks, offers) /\ SamplingTaken(asks, offers) /\ InputTaken(asks)
      BY <3>1 DEF ResponsesTaken
    <3> QED
      BY <3>2, <3>3, OffersProperties DEF ToolsTaken, ChoiceTaken, FormatTaken, SamplingTaken, InputTaken
  <2>2. CASE d \in {"chat", "chat with usage"}
    <3>1. PICK sent : /\ ChatTaken(sent, offers)
                      /\ \A a : a # "usage option" => (a \in asks <=> a \in sent)
      BY <2>2 DEF Taken
    <3> QED
      BY <3>1, OffersProperties
         DEF ChatTaken, ToolsTaken, ChoiceTaken, FormatTaken, SamplingTaken, ChatMessagesTaken
  <2>3. CASE d = "messages"
    <3>1. MessagesTaken(asks, offers)
      BY <2>3 DEF Taken
    <3>2. asks \cap {"empty turn", "json_object", "garbled"} = {}
      BY <3>1 DEF MessagesTaken, MessagesFields, CommonAsks, SamplingAsks, InputAsks
    <3>3. /\ MessagesToolsTaken(asks, offers) /\ MessagesChoiceTaken(asks, offers)
          /\ MessagesFormatTaken(asks, offers) /\ MessagesSamplingTaken(asks, offers)
          /\ MessageContentTaken(asks)
      BY <3>1 DEF MessagesTaken
    <3> QED
      BY <3>2, <3>3, OffersProperties
         DEF MessagesToolsTaken, ToolsTaken, MessagesChoiceTaken, ChoiceTaken, MessagesFormatTaken,
             MessagesSamplingTaken, MessageContentTaken
  <2> QED
    BY <2>1, <2>2, <2>3
<1>2. Canonical(asks) \/ asks \cap {"blank key", "deep json"} # {}
  BY <1>1 DEF Canonical, StructureIsKnown, JsonIsShallow
<1>3. Executes(asks, reported) \/ Late(asks, reported)
  BY <1>1, ReportsProperties DEF Executes, Late, TranscriptMaps, MessageMaps
<1> QED
  BY <1>2, <1>3

-----------------------------------------------------------------------------
(* The invariant: what a request has opened and queued.                    *)

\* Of a request that is not streamed only the backend's session is used, and
\* only while it waits for the whole answer.
RequestInv ==
    /\ dialect \in Dialect
    /\ phase \in {"resolving", "accepted"} => source = "none"
    /\ source = "open" => phase \in {"completing", "streaming"}
    /\ phase # "streaming" => pull = "idle" /\ ~cancelling /\ body = "open"
    /\ body = "closed" => pull = "idle"
    /\ phase # "streaming" => queue = << >> /\ client.ended = "no"
    /\ phase = "answered" => ~aborted /\ answer.stop # "cancelled"

\* A sequence of frames none of which ends the stream with a success.
Unfinished(frames) ==
    /\ frames \in Seq(Range(frames))
    /\ \A i \in DOMAIN frames : frames[i].do # "finish"

\* The end of a successful stream is only ever queued after the final response.
SuccessInv ==
    /\ DOMAIN client = DOMAIN Nothing
    /\ then = "more" => Unfinished(queue) /\ client.ended # "finished"
    /\ dialect \in {"responses", "messages"} /\ (client.ended = "finished" \/ ~Unfinished(queue))
          => answer.stop # "cancelled"

StreamInductive == RequestInv /\ OverMeansReleased /\ AcceptedIsServable /\ SuccessInv
-----------------------------------------------------------------------------
(* Sequences of frames.                                                    *)

\* A sequence is one over its own elements.
LEMMA OwnElements ==
    ASSUME NEW S, NEW q \in Seq(S)
    PROVE  q \in Seq(Range(q))
<1>1. Len(q) \in Nat /\ q \in [1 .. Len(q) -> S]
  BY LenProperties
<1>2. q \in [1 .. Len(q) -> Range(q)]
  BY <1>1 DEF Range
<1> QED
  BY <1>1, <1>2, SeqDef

\* No frame, one frame and two such sequences after each other.
LEMMA UnfinishedEmpty == Unfinished(<< >>)
  BY DEF Unfinished, Range

\* One frame other than the end.
LEMMA UnfinishedOne ==
    ASSUME NEW f, f.do # "finish"
    PROVE  Unfinished(<<f>>)
<1> DEFINE q == <<f>>
<1>1. q \in Seq({f}) /\ Len(q) = 1 /\ q[1] = f
  OBVIOUS
<1>2. DOMAIN q = {1}
  BY <1>1
<1>3. Range(q) = {f}
  BY <1>1, <1>2 DEF Range
<1> QED
  BY <1>1, <1>2, <1>3 DEF Unfinished

\* Two sequences after each other.
LEMMA UnfinishedConcat ==
    ASSUME NEW p, NEW q, Unfinished(p), Unfinished(q)
    PROVE  Unfinished(p \o q)
<1> DEFINE S == Range(p) \cup Range(q)
           r == p \o q
<1>1. p \in Seq(S) /\ q \in Seq(S)
  BY DEF Unfinished
<1>2. /\ r \in Seq(S) /\ Len(r) = Len(p) + Len(q)
      /\ \A i \in 1 .. Len(r) : r[i] = IF i <= Len(p) THEN p[i] ELSE q[i - Len(p)]
  BY <1>1
<1>3. DOMAIN r = 1 .. Len(r) /\ DOMAIN p = 1 .. Len(p) /\ DOMAIN q = 1 .. Len(q)
      /\ Len(p) \in Nat /\ Len(q) \in Nat
  BY <1>1, <1>2
<1>4. \A i \in DOMAIN r : r[i].do # "finish"
  <2> SUFFICES ASSUME NEW i \in DOMAIN r PROVE r[i].do # "finish"
    OBVIOUS
  <2>1. CASE i <= Len(p)
    BY <2>1, <1>2, <1>3 DEF Unfinished
  <2>2. CASE ~(i <= Len(p))
    <3>1. i - Len(p) \in DOMAIN q /\ r[i] = q[i - Len(p)]
      BY <2>2, <1>2, <1>3
    <3> QED
      BY <3>1 DEF Unfinished
  <2> QED
    BY <2>1, <2>2
<1>5. r \in Seq(Range(r))
  BY <1>2, OwnElements
<1> QED
  BY <1>4, <1>5 DEF Unfinished

\* A sequence without its first frame.
LEMMA UnfinishedTail ==
    ASSUME NEW q, Unfinished(q), q # << >>
    PROVE  Unfinished(Tail(q)) /\ Head(q).do # "finish"
<1> DEFINE t == Tail(q)
<1>1. q \in Seq(Range(q)) /\ DOMAIN q = 1 .. Len(q) /\ Len(q) \in Nat \ {0}
  BY DEF Unfinished
<1>2. t \in Seq(Range(q)) /\ Len(t) = Len(q) - 1 /\ \A i \in 1 .. Len(t) : t[i] = q[i + 1]
  BY <1>1
<1>3. DOMAIN t = 1 .. Len(t)
  BY <1>2
<1>4. \A i \in DOMAIN t : t[i].do # "finish"
  BY <1>1, <1>2, <1>3 DEF Unfinished
<1>5. t \in Seq(Range(t))
  BY <1>2, OwnElements
<1>6. Head(q) = q[1] /\ 1 \in DOMAIN q
  BY <1>1
<1> QED
  BY <1>4, <1>5, <1>6 DEF Unfinished

\* A frame that may be left out.
LEMMA UnfinishedOptional ==
    ASSUME NEW c, NEW f, f.do # "finish"
    PROVE  Unfinished(Optional(c, f))
  BY UnfinishedEmpty, UnfinishedOne DEF Optional

-----------------------------------------------------------------------------
(* One turn of a generator's loop.                                         *)

\* The frames that carry text or arguments are not the end.
LEMMA PieceProperties ==
    /\ \A g0, n : Unfinished(WithText(g0, n).frames)
    /\ \A at, sent, n : Unfinished(Rest(at, sent, n))
    /\ \A c, at : Unfinished(Optional(c, Close(at)))
    /\ \A c : Unfinished(Optional(c, Begin))
<1>1. ASSUME NEW c, NEW f \in {Begin} PROVE Unfinished(Optional(c, f))
  BY <1>1, UnfinishedOptional DEF Begin
<1>2. ASSUME NEW c, NEW at PROVE Unfinished(Optional(c, Close(at)))
  BY UnfinishedOptional DEF Close
<1>3. ASSUME NEW at, NEW sent, NEW n PROVE Unfinished(Rest(at, sent, n))
  BY UnfinishedOptional DEF Rest, Delta
<1>4. ASSUME NEW g0, NEW n PROVE Unfinished(WithText(g0, n).frames)
  <2> DEFINE i == IF g0.block = None THEN g0.next ELSE g0.block
  <2>1. WithText(g0, n).frames = Optional(g0.block = None, Item(i, Prose)) \o Optional(n > 0, Delta(i, n))
    BY DEF WithText
  <2>2. Unfinished(Optional(g0.block = None, Item(i, Prose)))
    BY UnfinishedOptional DEF Item
  <2>3. Unfinished(Optional(n > 0, Delta(i, n)))
    BY UnfinishedOptional DEF Delta
  <2> QED
    BY <2>1, <2>2, <2>3, UnfinishedConcat
<1> QED
  BY <1>1, <1>2, <1>3, <1>4

\* Each event has one of the types the loops distinguish.
LEMMA EventTypes ==
    ASSUME NEW e \in Events
    PROVE  e.type \in {"started", "text", "usage", "call", "arguments", "called", "completed", "failed", "foreign"}
<1>1. CASE e \in Started
  BY <1>1 DEF Started
<1>2. CASE e \in [type : {"call", "arguments"}, call : Call, index : Indexes]
  BY <1>2
<1>3. CASE e \in [type : {"called"}, call : Call, index : Indexes, length : 0 .. MaxLength]
  BY <1>3
<1>4. CASE e \in Answers
  BY <1>4 DEF Answers
<1> QED
  BY <1>1, <1>2, <1>3, <1>4 DEF Events

\* The branches that the loops share.
LEMMA SharedBranches ==
    ASSUME NEW g0, NEW e, NEW closes
    PROVE  /\ Unfinished(Arguments(g0, e).frames)
           /\ Unfinished(Called(g0, e, closes).frames)
           /\ Unfinished(Failed(g0).frames)
           /\ Unfinished(Throws(g0, << >>).frames)
           /\ Unfinished(Yields(g0, << >>).frames)
<1> USE DEF Throws, Yields, Ends
<1>1. Unfinished(Arguments(g0, e).frames)
  <2>1. Unfinished(<<Delta(g0.calls[e.call].at, 1)>>)
    BY UnfinishedOne DEF Delta
  <2> QED
    BY <2>1, UnfinishedEmpty DEF Arguments
<1>2. Unfinished(Called(g0, e, closes).frames)
  <2> DEFINE c == g0.calls[e.call]
  <2>1. Unfinished(Rest(c.at, c.length, e.length) \o Optional(closes, Close(c.at)))
    BY PieceProperties, UnfinishedConcat
  <2> QED
    BY <2>1, UnfinishedEmpty DEF Called
<1>3. Unfinished(<<Error>>)
  BY UnfinishedOne DEF Error
<1> QED
  BY <1>1, <1>2, <1>3, UnfinishedEmpty DEF Failed

\* No event but the final response ends a stream with a success, and a final
\* response the backend cancelled does not either.
LEMMA ResponsesUnfinished ==
    ASSUME NEW g0, NEW e \in Events,
           e.type = "completed" => e.stop = "cancelled"
    PROVE  Unfinished(Responses(g0, e).frames)
<1> USE DEF Throws, Yields
<1>1. Unfinished(ResponsesStarted(g0).frames)
  BY UnfinishedEmpty, UnfinishedOne DEF ResponsesStarted, Begin
<1>2. Unfinished(ResponsesText(g0).frames)
  BY UnfinishedEmpty, PieceProperties DEF ResponsesText
<1>3. Unfinished(ResponsesCall(g0, e).frames)
  BY UnfinishedEmpty, UnfinishedOne DEF ResponsesCall, Item
<1>4. Unfinished(ResponsesUsage(g0).frames)
  BY UnfinishedEmpty DEF ResponsesUsage
<1>5. e.stop = "cancelled" => Unfinished(ResponsesCompleted(g0, e).frames)
  BY UnfinishedEmpty DEF ResponsesCompleted
<1> QED
  BY <1>1, <1>2, <1>3, <1>4, <1>5, SharedBranches, EventTypes
     DEF Responses, ResponsesArguments, ResponsesCalled

\* The same of the chat endpoint, whose final response may end it whatever it says.
LEMMA ChatUnfinished ==
    ASSUME NEW g0, NEW e \in Events, NEW includeUsage, e.type # "completed"
    PROVE  Unfinished(Chat(g0, e, includeUsage).frames)
<1> USE DEF Throws, Yields
<1>1. Unfinished(ChatStarted(g0).frames)
  BY UnfinishedEmpty, UnfinishedOne DEF ChatStarted, Begin
<1>2. Unfinished(ChatText(g0).frames)
  BY UnfinishedEmpty, UnfinishedOne DEF ChatText, Text
<1>3. Unfinished(ChatCall(g0, e).frames)
  BY UnfinishedEmpty, UnfinishedOne DEF ChatCall, Item
<1>4. Unfinished(ChatUsage(g0).frames)
  BY UnfinishedEmpty DEF ChatUsage
<1> QED
  BY <1>1, <1>2, <1>3, <1>4, SharedBranches, EventTypes
     DEF Chat, ChatArguments, ChatCalled

\* The same of the Messages endpoint.
LEMMA MessagesUnfinished ==
    ASSUME NEW g0, NEW e \in Events,
           e.type = "completed" => e.stop = "cancelled"
    PROVE  Unfinished(Messages(g0, e).frames)
<1> USE DEF Throws, Yields
<1>1. Unfinished(MessagesStarted(g0).frames)
  BY UnfinishedEmpty DEF MessagesStarted
<1>2. Unfinished(MessagesText(g0).frames)
  BY UnfinishedEmpty, UnfinishedConcat, PieceProperties DEF MessagesText, EnsureStarted
<1>3. Unfinished(MessagesCall(g0, e).frames)
  <2>1. Unfinished(EnsureStarted(g0) \o CloseText(g0))
    BY UnfinishedConcat, PieceProperties DEF EnsureStarted, CloseText
  <2>2. Unfinished(<<Item(g0.next, e.call)>>)
    BY UnfinishedOne DEF Item
  <2>3. Unfinished(EnsureStarted(g0) \o CloseText(g0) \o <<Item(g0.next, e.call)>>)
    BY <2>1, <2>2, UnfinishedConcat
  <2> QED
    BY <2>3, UnfinishedEmpty DEF MessagesCall
<1>4. Unfinished(MessagesUsage(g0).frames)
  BY UnfinishedEmpty, PieceProperties DEF MessagesUsage, EnsureStarted
<1>5. e.stop = "cancelled" => Unfinished(MessagesCompleted(g0, e).frames)
  BY UnfinishedEmpty DEF MessagesCompleted
<1> QED
  BY <1>1, <1>2, <1>3, <1>4, <1>5, SharedBranches, EventTypes
     DEF Messages, MessagesArguments, MessagesCalled

\* What the loop of the request's endpoint queues.
LEMMA TranslateUnfinished ==
    ASSUME NEW d \in {"responses", "chat", "chat with usage", "messages"}, NEW g0, NEW e \in Events,
           e.type # "completed" \/ (d \in {"responses", "messages"} /\ e.stop = "cancelled")
    PROVE  Unfinished(Translate(d, g0, e).frames)
  BY ResponsesUnfinished, ChatUnfinished, MessagesUnfinished DEF Translate

\* Whatever a loop makes of a final response, it does not go on.
LEMMA FinalResponseEnds ==
    ASSUME NEW d \in {"responses", "chat", "chat with usage", "messages"}, NEW g0, NEW e,
           e.type = "completed"
    PROVE  Translate(d, g0, e).then # "more"
<1> USE DEF Throws, Ends
<1>1. ResponsesCompleted(g0, e).then # "more"
  BY DEF ResponsesCompleted
<1>2. \A usage : ChatCompleted(g0, e, usage).then # "more"
  BY DEF ChatCompleted
<1>3. MessagesCompleted(g0, e).then # "more"
  BY DEF MessagesCompleted
<1> QED
  BY <1>1, <1>2, <1>3 DEF Translate, Responses, Chat, Messages

-----------------------------------------------------------------------------
(* The invariant.                                                          *)

\* The SDK takes a frame: only the end of the stream makes it a success.
LEMMA EnqueueProperties ==
    ASSUME DOMAIN client = DOMAIN Nothing, NEW f, Enqueue(f)
    PROVE  /\ DOMAIN client' = DOMAIN Nothing
           /\ client'.ended = "finished" => client.ended = "finished" \/ f.do = "finish"
<1>1. "ended" \in DOMAIN client
  BY DEF Nothing
<1>2. CASE ~Legal(dialect, client, f)
  BY <1>1, <1>2 DEF Enqueue
<1>3. CASE Legal(dialect, client, f)
  <2>1. client' = Assembled(client, f)
    BY <1>3 DEF Enqueue
  <2>2. DOMAIN client' = DOMAIN client
    BY <2>1 DEF Assembled
  <2>3. client'.ended = "finished" => client.ended = "finished" \/ f.do = "finish"
    BY <1>1, <2>1 DEF Assembled
  <2> QED
    BY <2>2, <2>3
<1> QED
  BY <1>2, <1>3

\* An error frame ends the stream without a success.
LEMMA ErrorEnds ==
    ASSUME DOMAIN client = DOMAIN Nothing, Enqueue(Error)
    PROVE  client'.ended \in {"error", "broken"}
<1>1. "ended" \in DOMAIN client /\ Error.do = "error"
  BY DEF Nothing, Error
<1>2. CASE client.ended = "no"
  <2>1. client' = Assembled(client, Error)
    BY <1>1, <1>2 DEF Enqueue, Legal
  <2> QED
    BY <1>1, <2>1 DEF Assembled
<1>3. CASE client.ended # "no"
  <2>1. client' = [client EXCEPT !.ended = "broken"]
    BY <1>1, <1>3 DEF Enqueue, Legal
  <2> QED
    BY <1>1, <2>1
<1> QED
  BY <1>2, <1>3

\* A request starts with nothing open, nothing queued and nothing received.
LEMMA StreamInit == Init => StreamInductive
<1> SUFFICES ASSUME Init PROVE StreamInductive
  OBVIOUS
<1>1. RequestInv /\ OverMeansReleased /\ AcceptedIsServable
  BY DEF Init, RequestInv, OverMeansReleased, AcceptedIsServable, Nothing
<1>2. SuccessInv
  BY UnfinishedEmpty DEF Init, SuccessInv, Nothing
<1> QED
  BY <1>1, <1>2 DEF StreamInductive

\* A step that queues nothing and gives the SDK nothing.
LEMMA SuccessKept ==
    ASSUME SuccessInv, UNCHANGED <<dialect, client, queue, answer>>, then' = "more" => then = "more"
    PROVE  SuccessInv'
  BY DEF SuccessInv

\* handleFetch up to the backend's answer to a request that is not streamed.
LEMMA RequestSteps ==
    ASSUME StreamInductive,
           \/ Unresolved \/ Parsed \/ Executed
           \/ \E r \in Answers : Completed(r)
           \/ \E next \in {"refused", "rejected"} : CompletionFails(next)
    PROVE  StreamInductive'
<1> USE DEF StreamInductive, generator, callbacks
<1>1. CASE Unresolved
  <2>1. RequestInv' /\ OverMeansReleased' /\ AcceptedIsServable'
    BY <1>1 DEF Unresolved, RequestInv, OverMeansReleased, AcceptedIsServable
  <2> QED
    BY <1>1, <2>1, SuccessKept DEF Unresolved
<1>2. CASE Parsed
  <2>1. RequestInv' /\ OverMeansReleased'
    BY <1>2 DEF Parsed, RequestInv, OverMeansReleased
  <2>2. AcceptedIsServable'
    <3>1. PICK reported \in Reports : \E offers \in Offers(reported), asks \in Asks :
             /\ Taken(dialect, asks, offers)
             /\ request' = [asks |-> asks, reported |-> reported]
      BY <1>2 DEF Parsed
    <3>2. PICK offers \in Offers(reported), asks \in Asks :
             /\ Taken(dialect, asks, offers)
             /\ request' = [asks |-> asks, reported |-> reported]
      BY <3>1
    <3>3. request'.asks = asks /\ request'.reported = reported
      BY <3>2
    <3>4. dialect \in {"responses", "chat", "chat with usage", "messages"}
      BY DialectAssumption DEF RequestInv
    <3>5. /\ Canonical(asks) \/ asks \cap {"blank key", "deep json"} # {}
          /\ Executes(asks, reported) \/ Late(asks, reported)
      BY <3>2, <3>4, TakenIsServable
    <3> QED
      BY <3>3, <3>5 DEF AcceptedIsServable
  <2> QED
    BY <1>2, <2>1, <2>2, SuccessKept DEF Parsed
<1>3. CASE Executed
  <2>1. RequestInv' /\ OverMeansReleased' /\ AcceptedIsServable'
    BY <1>3 DEF Executed, RequestInv, OverMeansReleased, AcceptedIsServable
  <2> QED
    BY <1>3, <2>1, SuccessKept DEF Executed
<1>4. ASSUME NEW r \in Answers, Completed(r)
      PROVE  StreamInductive'
  <2>1. RequestInv' /\ OverMeansReleased' /\ AcceptedIsServable'
    BY <1>4 DEF Completed, Release, RequestInv, OverMeansReleased, AcceptedIsServable
  <2>2. SuccessInv'
    BY <1>4, UnfinishedEmpty DEF Completed, RequestInv, SuccessInv
  <2> QED
    BY <2>1, <2>2
<1>5. ASSUME NEW next \in {"refused", "rejected"}, CompletionFails(next)
      PROVE  StreamInductive'
  <2>1. RequestInv' /\ OverMeansReleased' /\ AcceptedIsServable'
    BY <1>5 DEF CompletionFails, Release, RequestInv, OverMeansReleased, AcceptedIsServable
  <2> QED
    BY <1>5, <2>1, SuccessKept DEF CompletionFails
<1> QED
  BY <1>1, <1>2, <1>3, <1>4, <1>5

\* The steps of the body that give the SDK no frame.
LEMMA QuietSteps ==
    ASSUME StreamInductive,
           Pull \/ SourceFails \/ Done \/ ReleaseRejects \/ Returned \/ Cancelled \/ Cancel \/ Abort
    PROVE  StreamInductive'
<1> USE DEF StreamInductive, generator, callbacks
<1>1. UNCHANGED <<dialect, phase, request>>
  BY DEF Pull, SourceFails, Done, ReleaseRejects, Returned, Cancelled, Cancel, Abort
<1>2. AcceptedIsServable'
  BY <1>1 DEF AcceptedIsServable
<1>3. SuccessInv'
  BY SuccessKept DEF Pull, SourceFails, Done, ReleaseRejects, Returned, Cancelled, Cancel, Abort
<1>4. RequestInv'
  BY DEF RequestInv, Pull, SourceFails, Done, ReleaseRejects, Returned, Cancelled, Cancel, Abort, Catch, Release
<1>5. OverMeansReleased'
  BY DEF RequestInv, OverMeansReleased, Pull, SourceFails, Done, ReleaseRejects, Returned, Cancelled, Cancel, Abort, Catch, Release
<1> QED
  BY <1>2, <1>3, <1>4, <1>5

\* The backend's next event and the frames that reach the SDK.
LEMMA FrameSteps ==
    ASSUME StreamInductive,
           (\E e \in Events : Event(e)) \/ Frame \/ Thrown
    PROVE  StreamInductive'
<1> USE DEF StreamInductive, generator, callbacks
<1>1. ASSUME NEW e \in Events, Event(e) PROVE StreamInductive'
  <2>1. RequestInv' /\ OverMeansReleased' /\ AcceptedIsServable'
    BY <1>1 DEF Event, RequestInv, OverMeansReleased, AcceptedIsServable
  <2>2. SuccessInv'
    <3>1. dialect \in {"responses", "chat", "chat with usage", "messages"} /\ dialect' = dialect
      BY <1>1, DialectAssumption DEF Event, RequestInv
    <3>2. queue' = Translate(dialect, g, e).frames /\ then' = Translate(dialect, g, e).then
      BY <1>1 DEF Event
    <3>3. client' = client /\ client.ended # "finished" /\ DOMAIN client = DOMAIN Nothing
      BY <1>1 DEF Event, SuccessInv
    <3>4. CASE e.type # "completed"
      <4>1. Unfinished(queue')
        BY <3>1, <3>2, <3>4, TranslateUnfinished
      <4> QED
        BY <3>3, <4>1 DEF SuccessInv
    <3>5. CASE e.type = "completed"
      <4>1. answer' = e
        BY <1>1, <3>5 DEF Event
      <4>2. then' # "more"
        BY <3>1, <3>2, <3>5, FinalResponseEnds
      <4>3. dialect \in {"responses", "messages"} /\ e.stop = "cancelled" => Unfinished(queue')
        BY <3>1, <3>2, <3>5, TranslateUnfinished
      <4> QED
        BY <3>1, <3>3, <4>1, <4>2, <4>3 DEF SuccessInv
    <3> QED
      BY <3>4, <3>5
  <2> QED
    BY <2>1, <2>2
<1>2. CASE Frame
  <2>1. RequestInv' /\ OverMeansReleased' /\ AcceptedIsServable'
    BY <1>2 DEF Frame, Catch, RequestInv, OverMeansReleased, AcceptedIsServable
  <2>2. SuccessInv'
    <3>1. queue # << >> /\ queue' = Tail(queue) /\ UNCHANGED <<dialect, then, answer>>
      BY <1>2 DEF Frame
    <3>2. client' = client \/ Enqueue(Head(queue))
      BY <1>2 DEF Frame
    <3>3. /\ DOMAIN client' = DOMAIN Nothing
          /\ client'.ended = "finished" => client.ended = "finished" \/ Head(queue).do = "finish"
      BY <3>2, EnqueueProperties DEF SuccessInv
    <3>4. Unfinished(queue) => Unfinished(queue') /\ Head(queue).do # "finish"
      BY <3>1, UnfinishedTail
    <3> QED
      BY <3>1, <3>3, <3>4 DEF SuccessInv
  <2> QED
    BY <2>1, <2>2
<1>3. CASE Thrown
  <2>1. RequestInv' /\ OverMeansReleased' /\ AcceptedIsServable'
    <3>1. Enqueue(Error) => client'.ended # "finished"
      BY ErrorEnds DEF SuccessInv
    <3> QED
      BY <1>3, <3>1 DEF Thrown, Release, RequestInv, OverMeansReleased, AcceptedIsServable
  <2>2. SuccessInv'
    <3>1. UNCHANGED <<dialect, queue, then, answer>> /\ then = "throw"
      BY <1>3 DEF Thrown
    <3>2. client' = client \/ Enqueue(Error)
      BY <1>3 DEF Thrown
    <3>3. /\ DOMAIN client' = DOMAIN Nothing
          /\ client'.ended = "finished" => client.ended = "finished"
      BY <3>2, EnqueueProperties DEF SuccessInv, Error
    <3> QED
      BY <3>1, <3>3 DEF SuccessInv
  <2> QED
    BY <2>1, <2>2
<1> QED
  BY <1>1, <1>2, <1>3

\* Every step keeps the invariant.
LEMMA StreamStep == StreamInductive /\ [Next]_vars => StreamInductive'
<1> SUFFICES ASSUME StreamInductive, [Next]_vars PROVE StreamInductive'
  OBVIOUS
<1>1. CASE UNCHANGED vars
  BY <1>1 DEF vars, StreamInductive, RequestInv, OverMeansReleased, AcceptedIsServable, SuccessInv
<1>2. CASE Next
  BY <1>2, RequestSteps, QuietSteps, FrameSteps DEF Next, Deliver
<1> QED
  BY <1>1, <1>2

-----------------------------------------------------------------------------
(* Sets of numbers.                                                        *)

\* A set of natural numbers has a least element.
LEMMA LeastElement ==
    ASSUME NEW T \in SUBSET Nat, T # {}
    PROVE  \E n \in T : \A m \in T : n <= m
<1>1. PICK n \in T : \A m \in T : ~(<<m, n>> \in OpToRel(<, Nat))
  BY NatLessThanWellFounded, WFMin
<1>2. \A m \in T : ~(m < n)
  BY <1>1 DEF OpToRel
<1> QED
  BY <1>2

\* A set of natural numbers below a bound has a greatest element.
LEMMA GreatestElement ==
    ASSUME NEW S \in SUBSET Nat, S # {}, NEW b \in Nat, \A y \in S : y <= b
    PROVE  Max(S) \in S /\ \A y \in S : Max(S) >= y
<1> DEFINE B == {m \in Nat : \A y \in S : y <= m}
<1>1. PICK m \in B : \A l \in B : m <= l
  <2>1. B \in SUBSET Nat /\ B # {}
    OBVIOUS
  <2> HIDE DEF B
  <2> QED
    BY <2>1, LeastElement
<1>2. m \in S
  <2> SUFFICES ASSUME m \notin S PROVE FALSE
    OBVIOUS
  <2>0. m \in Nat /\ \A y \in S : y <= m
    BY <1>1
  <2> HIDE DEF B
  <2>1. \A y \in S : y \in Nat /\ y < m
    <3> SUFFICES ASSUME NEW y \in S PROVE y \in Nat /\ y < m
      OBVIOUS
    <3>1. y \in Nat /\ y # m /\ y <= m
      BY <2>0, Zenon
    <3> QED
      BY <2>0, <3>1
  <2>2. m - 1 \in Nat /\ \A y \in S : y <= m - 1
    <3>1. PICK y \in S : TRUE
      OBVIOUS
    <3>2. m - 1 \in Nat
      BY <2>0, <2>1, <3>1
    <3> QED
      BY <2>0, <2>1, <3>2
  <2>3. m - 1 \in B
    BY <2>2 DEF B
  <2> QED
    BY <1>1, <2>0, <2>2, <2>3
<1>3. \A y \in S : m >= y
  BY <1>1
<1> QED
  BY <1>2, <1>3 DEF Max

\* Induction over an interval, with a set in place of a predicate.
LEMMA UpTo ==
    ASSUME NEW n \in Nat, NEW S, 0 \in S, \A m \in 0 .. n : m \in S /\ m < n => m + 1 \in S
    PROVE  0 .. n \subseteq S
<1> SUFFICES ASSUME NEW x \in 0 .. n, x \notin S PROVE FALSE
  OBVIOUS
<1> DEFINE T == {m \in 0 .. n : m \notin S}
<1>1. T \in SUBSET Nat /\ T # {}
  OBVIOUS
<1>2. PICK m \in T : \A k \in T : m <= k
  BY <1>1, LeastElement
<1>3. m # 0 /\ m - 1 \in 0 .. n
  BY <1>2
<1>4. m - 1 \in S
  BY <1>2, <1>3
<1>5. m \in S
  BY <1>3, <1>4
<1> QED
  BY <1>2, <1>5

-----------------------------------------------------------------------------
(* Joined sequences.                                                       *)

\* f joins the first m of the parts, one by one.
Joins(f, parts, m, S) ==
    /\ f \in [1 .. m -> Seq(S)]
    /\ \A i \in 1 .. m : f[i] = IF i = 1 THEN parts[i] ELSE f[i - 1] \o parts[i]

\* One part more.
LEMMA JoinsOneMore ==
    ASSUME NEW S, NEW n \in Nat, NEW parts \in [1 .. n -> Seq(S)], NEW m \in 0 .. n - 1,
           NEW f, Joins(f, parts, m, S)
    PROVE  \E h : Joins(h, parts, m + 1, S)
<1> DEFINE last == IF m = 0 THEN parts[1] ELSE f[m] \o parts[m + 1]
           h == [i \in 1 .. m + 1 |-> IF i <= m THEN f[i] ELSE last]
<1>1. last \in Seq(S)
  <2>1. CASE m = 0
    BY <2>1
  <2>2. CASE m # 0
    <3>1. f[m] \in Seq(S) /\ parts[m + 1] \in Seq(S)
      BY <2>2 DEF Joins
    <3> QED
      BY <2>2, <3>1
  <2> QED
    BY <2>1, <2>2
<1>2. h \in [1 .. m + 1 -> Seq(S)]
  BY <1>1 DEF Joins
<1>3. ASSUME NEW i \in 1 .. m + 1
      PROVE  h[i] = IF i = 1 THEN parts[i] ELSE h[i - 1] \o parts[i]
  <2>1. CASE i <= m
    <3>1. h[i] = f[i] /\ (i # 1 => h[i - 1] = f[i - 1])
      BY <2>1
    <3>2. f[i] = IF i = 1 THEN parts[i] ELSE f[i - 1] \o parts[i]
      <4>1. i \in 1 .. m
        BY <2>1
      <4> QED
        BY <4>1, Zenon DEF Joins
    <3> QED
      BY <3>1, <3>2
  <2>2. CASE i = m + 1
    <3>1. h[i] = last
      BY <2>2
    <3>2. i # 1 => h[i - 1] = f[m]
      BY <2>2
    <3> QED
      BY <2>2, <3>1, <3>2
  <2> QED
    BY <2>1, <2>2
<1> QED
  BY <1>2, <1>3 DEF Joins

\* All parts.
LEMMA JoinsExist ==
    ASSUME NEW S, NEW n \in Nat, NEW parts \in [1 .. n -> Seq(S)]
    PROVE  \E f : Joins(f, parts, n, S)
<1> DEFINE T == {m \in 0 .. n : \E f : Joins(f, parts, m, S)}
<1>1. 0 \in T
  <2>1. Joins([i \in 1 .. 0 |-> << >>], parts, 0, S)
    BY DEF Joins
  <2> QED
    BY <2>1
<1>2. ASSUME NEW m \in 0 .. n, m \in T, m < n
      PROVE  m + 1 \in T
  <2>1. PICK f : Joins(f, parts, m, S)
    BY <1>2
  <2>2. m \in 0 .. n - 1
    BY <1>2
  <2>3. \E h : Joins(h, parts, m + 1, S)
    BY <2>1, <2>2, JoinsOneMore
  <2> QED
    BY <1>2, <2>3
<1> HIDE DEF T
<1>3. 0 .. n \subseteq T
  BY <1>1, <1>2, UpTo
<1> QED
  BY <1>3 DEF T

\* f leads from the empty sequence to all of the parts, one by one.
Builds(f, parts, n, S) ==
    /\ f \in [0 .. n -> Seq(S)]
    /\ f[0] = << >> /\ f[n] = FlattenSeq(parts)
    /\ \A i \in 1 .. n : f[i] = f[i - 1] \o parts[i]

\* FlattenSeq joins its parts in order.
LEMMA FlattenProperties ==
    ASSUME NEW S, NEW n \in Nat, NEW parts \in [1 .. n -> Seq(S)]
    PROVE  \E f : Builds(f, parts, n, S)
<1>1. parts \in Seq(Seq(S)) /\ Len(parts) = n
  OBVIOUS
<1>2. PICK f : Joins(f, parts, n, S)
  BY JoinsExist
<1>3. f = [i \in 1 .. n |-> IF i = 1 THEN parts[i] ELSE f[i - 1] \o parts[i]]
  BY <1>2 DEF Joins
<1> DEFINE Fits(h) == h = [i \in 1 .. Len(parts) |-> IF i = 1 THEN parts[i] ELSE h[i - 1] \o parts[i]]
           flatten == CHOOSE h : Fits(h)
<1>4. Fits(f)
  BY <1>1, <1>3
<1>5. Fits(flatten)
  BY <1>4
<1> HIDE DEF flatten
<1>6. n # 0 => FlattenSeq(parts) = flatten[n]
  BY <1>1 DEF FlattenSeq, flatten
<1>7. ASSUME NEW i \in 1 .. n
      PROVE  flatten[i] = IF i = 1 THEN parts[i] ELSE flatten[i - 1] \o parts[i]
  BY <1>1, <1>5
<1> DEFINE T == {m \in 0 .. n : m = 0 \/ flatten[m] \in Seq(S)}
<1>8. 0 .. n \subseteq T
  <2>1. 0 \in T
    OBVIOUS
  <2>2. ASSUME NEW m \in 0 .. n, m \in T, m < n PROVE m + 1 \in T
    <3>1. m + 1 \in 1 .. n /\ parts[m + 1] \in Seq(S) /\ (m + 1) - 1 = m
      BY <2>2
    <3>2. flatten[m + 1] = IF m = 0 THEN parts[m + 1] ELSE flatten[m] \o parts[m + 1]
      BY <3>1, <1>7
    <3>3. flatten[m + 1] \in Seq(S)
      BY <2>2, <3>1, <3>2
    <3> QED
      BY <3>1, <3>3
  <2> HIDE DEF T
  <2> QED
    BY <2>1, <2>2, UpTo
<1> DEFINE joined == [i \in 0 .. n |-> IF i = 0 THEN << >> ELSE flatten[i]]
<1>9. joined \in [0 .. n -> Seq(S)]
  <2>1. \A i \in 0 .. n : i = 0 \/ flatten[i] \in Seq(S)
    BY <1>8
  <2> HIDE DEF T
  <2> QED
    BY <2>1
<1>10. joined[n] = FlattenSeq(parts)
  <2>1. CASE n = 0
    BY <1>1, <2>1 DEF FlattenSeq
  <2>2. CASE n # 0
    BY <1>6, <2>2
  <2> QED
    BY <2>1, <2>2
<1>11. ASSUME NEW i \in 1 .. n PROVE joined[i] = joined[i - 1] \o parts[i]
  <2>1. CASE i = 1
    <3>1. joined[0] = << >> /\ joined[1] = parts[1] /\ parts[1] \in Seq(S)
      BY <1>7, <2>1
    <3> QED
      BY <2>1, <3>1, ConcatEmptySeq
  <2>2. CASE i # 1
    <3>1. joined[i] = flatten[i] /\ joined[i - 1] = flatten[i - 1]
      BY <2>2
    <3> QED
      BY <1>7, <2>2, <3>1
  <2> QED
    BY <2>1, <2>2
<1> QED
  <2> HIDE DEF joined
  <2>1. joined[0] = << >>
    BY DEF joined
  <2> QED
    BY <1>9, <1>10, <1>11, <2>1 DEF Builds

-----------------------------------------------------------------------------
(* What a sequence of frames makes of an SDK.                              *)

Frames == [do : {"begin", "finish", "error"}]
          \cup [do : {"item"}, at : Nat, of : Nat]
          \cup [do : {"delta"}, at : Nat, length : Nat]
          \cup [do : {"text"}, length : Nat]
          \cup [do : {"close"}, at : Nat]

Items == [of : Nat, open : BOOLEAN, length : Nat]

Clients == [started : BOOLEAN, ended : {"no", "finished", "error", "broken"},
            items : UNION {[S -> Items] : S \in SUBSET Nat}, text : Nat, wellFormed : BOOLEAN]

\* The frames are legal one after the other and lead from one state to another.
Path(d, frames, p) ==
    /\ p \in [0 .. Len(frames) -> Clients]
    /\ \A i \in 1 .. Len(frames) :
          Legal(d, p[i - 1], frames[i]) /\ p[i] = Assembled(p[i - 1], frames[i])

Runs(d, from, frames, to) ==
    /\ frames \in Seq(Frames)
    /\ \E p : Path(d, frames, p) /\ p[0] = from /\ p[Len(frames)] = to

\* No frame changes nothing.
LEMMA RunsEmpty ==
    ASSUME NEW d, NEW c \in Clients
    PROVE  Runs(d, c, << >>, c)
<1> DEFINE p == [i \in 0 .. 0 |-> c]
<1>1. Path(d, << >>, p) /\ p[0] = c
  BY DEF Path
<1> QED
  BY <1>1 DEF Runs

\* One legal frame.
LEMMA RunsOne ==
    ASSUME NEW d, NEW c \in Clients, NEW f \in Frames, Legal(d, c, f), Assembled(c, f) \in Clients
    PROVE  Runs(d, c, <<f>>, Assembled(c, f))
<1> DEFINE p == [i \in 0 .. 1 |-> IF i = 0 THEN c ELSE Assembled(c, f)]
           q == <<f>>
<1>1. q \in Seq(Frames) /\ Len(q) = 1 /\ q[1] = f
  OBVIOUS
<1>2. p[0] = c /\ p[1] = Assembled(c, f) /\ p \in [0 .. 1 -> Clients]
  OBVIOUS
<1> HIDE DEF p, q
<1>3. Path(d, q, p)
  BY <1>1, <1>2 DEF Path
<1> QED
  BY <1>1, <1>2, <1>3 DEF Runs, q

\* One sequence after another.
LEMMA RunsConcat ==
    ASSUME NEW d, NEW c1, NEW c2, NEW c3, NEW q1, NEW q2, Runs(d, c1, q1, c2), Runs(d, c2, q2, c3)
    PROVE  Runs(d, c1, q1 \o q2, c3)
<1>1. PICK p1 : Path(d, q1, p1) /\ p1[0] = c1 /\ p1[Len(q1)] = c2
  BY DEF Runs
<1>2. PICK p2 : Path(d, q2, p2) /\ p2[0] = c2 /\ p2[Len(q2)] = c3
  BY DEF Runs
<1> DEFINE n1 == Len(q1)
           n2 == Len(q2)
           q == q1 \o q2
           p == [i \in 0 .. n1 + n2 |-> IF i <= n1 THEN p1[i] ELSE p2[i - n1]]
<1>3. q1 \in Seq(Frames) /\ q2 \in Seq(Frames)
  BY DEF Runs
<1>4. /\ q \in Seq(Frames) /\ Len(q) = n1 + n2 /\ n1 \in Nat /\ n2 \in Nat
      /\ \A i \in 1 .. n1 + n2 : q[i] = IF i <= n1 THEN q1[i] ELSE q2[i - n1]
  BY <1>3
<1>5. p1 \in [0 .. n1 -> Clients] /\ p2 \in [0 .. n2 -> Clients]
  BY <1>1, <1>2 DEF Path
<1> HIDE DEF q, n1, n2
<1>6. p \in [0 .. n1 + n2 -> Clients]
  BY <1>4, <1>5
<1>7. ASSUME NEW i \in 1 .. n1 + n2
      PROVE  Legal(d, p[i - 1], q[i]) /\ p[i] = Assembled(p[i - 1], q[i])
  <2>1. CASE i <= n1
    <3>1. p[i - 1] = p1[i - 1] /\ p[i] = p1[i] /\ q[i] = q1[i] /\ i \in 1 .. n1
      BY <1>4, <2>1
    <3> QED
      BY <1>1, <3>1 DEF Path, n1
  <2>2. CASE i > n1
    <3>1. i - n1 \in 1 .. n2 /\ q[i] = q2[i - n1] /\ p[i] = p2[i - n1]
      BY <1>4, <2>2
    <3>2. p[i - 1] = p2[(i - n1) - 1]
      <4>1. CASE i = n1 + 1
        BY <1>1, <1>2, <1>4, <4>1 DEF n1
      <4>2. CASE i # n1 + 1
        <5>1. ~(i - 1 <= n1) /\ (i - 1) - n1 = (i - n1) - 1 /\ i - 1 \in 0 .. n1 + n2
          BY <1>4, <2>2, <4>2
        <5> QED
          BY <5>1
      <4> QED
        BY <4>1, <4>2
    <3> HIDE DEF p
    <3>3. /\ Legal(d, p2[(i - n1) - 1], q2[i - n1])
          /\ p2[i - n1] = Assembled(p2[(i - n1) - 1], q2[i - n1])
      BY <1>2, <3>1 DEF Path, n2
    <3> QED
      BY <3>1, <3>2, <3>3
  <2> QED
    BY <1>4, <2>1, <2>2
<1>8. p[0] = c1 /\ p[n1 + n2] = c3
  <2>1. p[0] = p1[0]
    BY <1>4
  <2>2. CASE n2 = 0
    BY <1>1, <1>2, <1>4, <2>2 DEF n1, n2
  <2>3. CASE n2 # 0
    <3>1. ~(n1 + n2 <= n1) /\ (n1 + n2) - n1 = n2
      BY <1>4, <2>3
    <3> QED
      BY <1>1, <1>2, <1>4, <2>1, <3>1 DEF n2
  <2> QED
    BY <1>1, <2>1, <2>2, <2>3
<1> HIDE DEF p
<1>9. Path(d, q, p)
  BY <1>4, <1>6, <1>7 DEF Path
<1> QED
  BY <1>4, <1>8, <1>9 DEF Runs, q

\* The first frame is legal, and the others follow it.
LEMMA RunsHead ==
    ASSUME NEW d, NEW c, NEW q, NEW to, Runs(d, c, q, to), q # << >>
    PROVE  /\ Head(q) \in Frames /\ Legal(d, c, Head(q))
           /\ Runs(d, Assembled(c, Head(q)), Tail(q), to)
<1>1. PICK p : Path(d, q, p) /\ p[0] = c /\ p[Len(q)] = to
  BY DEF Runs
<1> DEFINE n == Len(q)
           t == Tail(q)
           r == [i \in 0 .. n - 1 |-> p[i + 1]]
<1>2. q \in Seq(Frames)
  BY DEF Runs
<1>3. /\ n \in Nat \ {0} /\ Head(q) = q[1] /\ q[1] \in Frames
      /\ t \in Seq(Frames) /\ Len(t) = n - 1 /\ \A i \in 1 .. n - 1 : t[i] = q[i + 1]
  BY <1>2
<1>4. p \in [0 .. n -> Clients]
  BY <1>1 DEF Path
<1>5. /\ Legal(d, p[0], q[1]) /\ p[1] = Assembled(p[0], q[1])
      /\ \A i \in 1 .. n - 1 : Legal(d, p[i], q[i + 1]) /\ p[i + 1] = Assembled(p[i], q[i + 1])
  <2>1. \A i \in 1 .. n : Legal(d, p[i - 1], q[i]) /\ p[i] = Assembled(p[i - 1], q[i])
    BY <1>1 DEF Path
  <2>2. 1 \in 1 .. n /\ 1 - 1 = 0
    BY <1>3
  <2>3. ASSUME NEW i \in 1 .. n - 1 PROVE i + 1 \in 1 .. n /\ (i + 1) - 1 = i
    BY <1>3
  <2> HIDE DEF n
  <2>4. Legal(d, p[0], q[1]) /\ p[1] = Assembled(p[0], q[1])
    BY <2>1, <2>2
  <2>5. ASSUME NEW i \in 1 .. n - 1
        PROVE  Legal(d, p[i], q[i + 1]) /\ p[i + 1] = Assembled(p[i], q[i + 1])
    <3>1. i + 1 \in 1 .. n /\ (i + 1) - 1 = i
      BY <2>3
    <3>2. Legal(d, p[(i + 1) - 1], q[i + 1]) /\ p[i + 1] = Assembled(p[(i + 1) - 1], q[i + 1])
      BY <2>1, <3>1
    <3> QED
      BY <3>1, <3>2
  <2> QED
    BY <2>4, <2>5
<1>6. r \in [0 .. n - 1 -> Clients]
  BY <1>3, <1>4
<1>7. ASSUME NEW i \in 1 .. n - 1 PROVE r[i - 1] = p[i] /\ r[i] = p[i + 1] /\ t[i] = q[i + 1]
  BY <1>3
<1>8. r[0] = p[1] /\ r[n - 1] = p[n]
  BY <1>3
<1> HIDE DEF r, t, n
<1>9. Path(d, t, r)
  <2>1. ASSUME NEW i \in 1 .. n - 1
        PROVE  Legal(d, r[i - 1], t[i]) /\ r[i] = Assembled(r[i - 1], t[i])
    BY <1>5, <1>7
  <2> QED
    BY <1>3, <1>6, <2>1 DEF Path
<1> QED
  BY <1>1, <1>3, <1>5, <1>8, <1>9 DEF Runs, t, n

\* No frame leads nowhere else.
LEMMA RunsNowhere ==
    ASSUME NEW d, NEW c, NEW to, Runs(d, c, << >>, to)
    PROVE  to = c /\ c \in Clients
<1>1. PICK p : Path(d, << >>, p) /\ p[0] = c /\ p[Len(<< >>)] = to
  BY DEF Runs
<1>2. Len(<< >>) = 0
  OBVIOUS
<1> QED
  BY <1>1, <1>2 DEF Path

-----------------------------------------------------------------------------
(* What each frame does.                                                   *)

\* The SDK goes on: whether it has started and ended is as it was.
GoesOn(c, c2) == c2 \in Clients /\ c2.ended = c.ended /\ c2.wellFormed = c.wellFormed

\* All items but one are as they were.
OthersKept(c, c2, i) == \A j \in DOMAIN c.items : j # i => c2.items[j] = c.items[j]

\* The fields of an SDK.
LEMMA ClientFields ==
    ASSUME NEW c \in Clients
    PROVE  /\ c.started \in BOOLEAN /\ c.ended \in {"no", "finished", "error", "broken"} /\ c.text \in Nat
           /\ c.wellFormed \in BOOLEAN /\ DOMAIN c.items \subseteq Nat
           /\ c.items \in [DOMAIN c.items -> Items]
           /\ \A i \in DOMAIN c.items :
                 /\ c.items[i].of \in Nat /\ c.items[i].open \in BOOLEAN /\ c.items[i].length \in Nat
                 /\ c.items[i] = [of |-> c.items[i].of, open |-> c.items[i].open, length |-> c.items[i].length]
<1>1. /\ c.started \in BOOLEAN /\ c.ended \in {"no", "finished", "error", "broken"} /\ c.text \in Nat
      /\ c.wellFormed \in BOOLEAN /\ c.items \in UNION {[S -> Items] : S \in SUBSET Nat}
  BY DEF Clients
<1>2. PICK S \in SUBSET Nat : c.items \in [S -> Items]
  BY <1>1
<1>3. DOMAIN c.items = S
  BY <1>2
<1>4. \A i \in S : c.items[i] \in Items
  BY <1>2
<1> QED
  BY <1>1, <1>2, <1>3, <1>4 DEF Items

\* An item with one field changed.
LEMMA ItemEdits ==
    ASSUME NEW x \in Items, NEW n \in Nat
    PROVE  /\ [x EXCEPT !.length = @ + n] = [of |-> x.of, open |-> x.open, length |-> x.length + n]
           /\ [x EXCEPT !.open = FALSE] = [of |-> x.of, open |-> FALSE, length |-> x.length]
<1> DEFINE y == [x EXCEPT !.length = @ + n]
           z == [x EXCEPT !.open = FALSE]
<1>1. y \in Items /\ y.of = x.of /\ y.open = x.open /\ y.length = x.length + n
  BY DEF Items
<1>2. z \in Items /\ z.of = x.of /\ z.open = FALSE /\ z.length = x.length
  BY DEF Items
<1> HIDE DEF y, z
<1>3. y = [of |-> x.of, open |-> x.open, length |-> x.length + n]
  BY <1>1 DEF Items
<1>4. z = [of |-> x.of, open |-> FALSE, length |-> x.length]
  BY <1>2 DEF Items
<1> QED
  BY <1>3, <1>4 DEF y, z

\* The start.
LEMMA BeginStep ==
    ASSUME NEW d, NEW c \in Clients, c.ended = "no", ~c.started
    PROVE  \E c2 : /\ Runs(d, c, <<Begin>>, c2) /\ GoesOn(c, c2)
                    /\ c2.started /\ c2.items = c.items /\ c2.text = c.text
<1> DEFINE c2 == [c EXCEPT !.started = TRUE]
<1>1. Begin \in Frames /\ Begin.do = "begin"
  BY DEF Begin, Frames
<1>2. Legal(d, c, Begin) /\ Assembled(c, Begin) = c2
  BY <1>1 DEF Legal, Assembled
<1>3. c2 \in Clients /\ c2.started = TRUE /\ c2.items = c.items /\ c2.text = c.text
      /\ c2.ended = c.ended /\ c2.wellFormed = c.wellFormed
  BY DEF Clients
<1> HIDE DEF c2
<1> QED
  BY <1>1, <1>2, <1>3, RunsOne DEF GoesOn

\* A new item.
LEMMA ItemStep ==
    ASSUME NEW d, NEW c \in Clients, c.ended = "no", c.started, NEW i \in Nat, NEW w \in Nat,
           NewItem(d, c, Item(i, w))
    PROVE  \E c2 : /\ Runs(d, c, <<Item(i, w)>>, c2) /\ GoesOn(c, c2)
                    /\ c2.started /\ c2.text = c.text
                    /\ DOMAIN c2.items = DOMAIN c.items \cup {i}
                    /\ c2.items[i] = [of |-> w, open |-> TRUE, length |-> 0]
                    /\ OthersKept(c, c2, i)
<1> DEFINE f == Item(i, w)
           new == [of |-> w, open |-> TRUE, length |-> 0]
           items == With(c.items, i, new)
           c2 == [c EXCEPT !.items = items]
<1>1. f \in Frames /\ f.do = "item" /\ f.at = i /\ f.of = w
  BY DEF Item, Frames
<1>2. Legal(d, c, f) /\ Assembled(c, f) = c2
  BY <1>1 DEF Legal, Assembled, Clients
<1>3. items \in [DOMAIN c.items \cup {i} -> Items] /\ items[i] = new
      /\ \A j \in DOMAIN c.items : j # i => items[j] = c.items[j]
  <2>1. new \in Items
    BY DEF Items
  <2> HIDE DEF new
  <2> QED
    BY <2>1, ClientFields DEF With
<1> HIDE DEF items
<1>4. items \in UNION {[S -> Items] : S \in SUBSET Nat} /\ DOMAIN items = DOMAIN c.items \cup {i}
  BY <1>3, ClientFields
<1>5. /\ c2 \in Clients /\ c2.started = c.started /\ c2.items = items /\ c2.text = c.text
      /\ c2.ended = c.ended /\ c2.wellFormed = c.wellFormed
  BY <1>4 DEF Clients
<1> HIDE DEF c2, f
<1>6. Runs(d, c, <<f>>, c2)
  BY <1>1, <1>2, <1>5, RunsOne
<1> QED
  BY <1>3, <1>4, <1>5, <1>6 DEF GoesOn, OthersKept, f

\* An item that is open gets n characters more.
LEMMA DeltaStep ==
    ASSUME NEW d, NEW c \in Clients, c.ended = "no", NEW i \in DOMAIN c.items, c.items[i].open, NEW n \in Nat
    PROVE  \E c2 : /\ Runs(d, c, <<Delta(i, n)>>, c2) /\ GoesOn(c, c2)
                    /\ c2.started = c.started
                    /\ c2.text = (IF c.items[i].of = Prose THEN c.text + n ELSE c.text)
                    /\ DOMAIN c2.items = DOMAIN c.items
                    /\ c2.items[i] = [of |-> c.items[i].of, open |-> TRUE, length |-> c.items[i].length + n]
                    /\ OthersKept(c, c2, i)
<1> DEFINE f == Delta(i, n)
           new == [of |-> c.items[i].of, open |-> TRUE, length |-> c.items[i].length + n]
           items == [c.items EXCEPT ![i] = new]
           text == IF c.items[i].of = Prose THEN c.text + n ELSE c.text
           c2 == [c EXCEPT !.items = items, !.text = text]
<1>0. i \in Nat
  BY ClientFields
<1>1. f \in Frames /\ f.do = "delta" /\ f.at = i /\ f.length = n
  BY <1>0 DEF Delta, Frames
<1>2. Legal(d, c, f)
  BY <1>1 DEF Legal
<1>3. Assembled(c, f) = c2
  <2>1. c.items[i] \in Items /\ c.items[i].open = TRUE
    BY ClientFields
  <2>2. [c.items[i] EXCEPT !.length = @ + n] = new
    BY <2>1, ItemEdits
  <2>3. Assembled(c, f) = [c EXCEPT !.items = [c.items EXCEPT ![i] = [c.items[i] EXCEPT !.length = @ + n]],
                                    !.text = IF c.items[i].of = Prose THEN c.text + n ELSE c.text]
    BY <1>1 DEF Assembled, Clients
  <2> QED
    BY <2>2, <2>3
<1>4. items \in [DOMAIN c.items -> Items] /\ items[i] = new
      /\ \A j \in DOMAIN c.items : j # i => items[j] = c.items[j]
  <2>1. new \in Items
    BY ClientFields DEF Items
  <2> HIDE DEF new
  <2> QED
    BY <2>1, ClientFields
<1>5. items \in UNION {[S -> Items] : S \in SUBSET Nat} /\ DOMAIN items = DOMAIN c.items
  BY <1>4, ClientFields
<1>6. text \in Nat
  BY ClientFields
<1> HIDE DEF items, text
<1>7. /\ c2 \in Clients /\ c2.started = c.started /\ c2.items = items /\ c2.text = text
      /\ c2.ended = c.ended /\ c2.wellFormed = c.wellFormed
  BY <1>5, <1>6 DEF Clients
<1> HIDE DEF c2, f
<1>8. Runs(d, c, <<f>>, c2)
  BY <1>1, <1>2, <1>3, <1>7, RunsOne
<1>9. GoesOn(c, c2) /\ OthersKept(c, c2, i)
  BY <1>4, <1>7 DEF GoesOn, OthersKept
<1>10. c2.text = IF c.items[i].of = Prose THEN c.text + n ELSE c.text
  BY <1>7 DEF text
<1>11. DOMAIN c2.items = DOMAIN c.items /\ c2.items[i] = new /\ c2.started = c.started
  BY <1>4, <1>5, <1>7
<1>12. Runs(d, c, <<Delta(i, n)>>, c2)
  BY <1>8 DEF f
<1> QED
  BY <1>9, <1>10, <1>11, <1>12, Zenon

\* An item that is open ends.
LEMMA CloseStep ==
    ASSUME NEW d, NEW c \in Clients, c.ended = "no", NEW i \in DOMAIN c.items, c.items[i].open
    PROVE  \E c2 : /\ Runs(d, c, <<Close(i)>>, c2) /\ GoesOn(c, c2)
                    /\ c2.started = c.started /\ c2.text = c.text
                    /\ DOMAIN c2.items = DOMAIN c.items
                    /\ c2.items[i] = [of |-> c.items[i].of, open |-> FALSE, length |-> c.items[i].length]
                    /\ OthersKept(c, c2, i)
<1> DEFINE f == Close(i)
           new == [of |-> c.items[i].of, open |-> FALSE, length |-> c.items[i].length]
           items == [c.items EXCEPT ![i] = new]
           c2 == [c EXCEPT !.items = items]
<1>0. i \in Nat
  BY ClientFields
<1>1. f \in Frames /\ f.do = "close" /\ f.at = i
  BY <1>0 DEF Close, Frames
<1>2. Legal(d, c, f)
  BY <1>1 DEF Legal
<1>3. Assembled(c, f) = c2
  <2>1. c.items[i] \in Items /\ c.items[i].open = TRUE
    BY ClientFields
  <2>2. [c.items[i] EXCEPT !.open = FALSE] = new
    BY <2>1, ItemEdits
  <2>3. Assembled(c, f) = [c EXCEPT !.items = [c.items EXCEPT ![i] = [c.items[i] EXCEPT !.open = FALSE]]]
    BY <1>1 DEF Assembled, Clients
  <2> QED
    BY <2>2, <2>3
<1>4. items \in [DOMAIN c.items -> Items] /\ items[i] = new
      /\ \A j \in DOMAIN c.items : j # i => items[j] = c.items[j]
  <2>1. new \in Items
    BY ClientFields DEF Items
  <2> HIDE DEF new
  <2> QED
    BY <2>1, ClientFields
<1>5. items \in UNION {[S -> Items] : S \in SUBSET Nat} /\ DOMAIN items = DOMAIN c.items
  BY <1>4, ClientFields
<1> HIDE DEF items
<1>7. /\ c2 \in Clients /\ c2.started = c.started /\ c2.items = items /\ c2.text = c.text
      /\ c2.ended = c.ended /\ c2.wellFormed = c.wellFormed
  BY <1>5 DEF Clients
<1> HIDE DEF c2, f
<1>8. Runs(d, c, <<f>>, c2)
  BY <1>1, <1>2, <1>3, <1>7, RunsOne
<1> QED
  BY <1>4, <1>5, <1>7, <1>8 DEF GoesOn, OthersKept, f

\* A chat chunk with n characters of text.
LEMMA TextStep ==
    ASSUME NEW d, NEW c \in Clients, c.ended = "no", c.started, NEW n \in Nat
    PROVE  \E c2 : /\ Runs(d, c, <<Text(n)>>, c2) /\ GoesOn(c, c2)
                    /\ c2.started /\ c2.items = c.items /\ c2.text = c.text + n
<1> DEFINE f == Text(n)
           c2 == [c EXCEPT !.text = c.text + n]
<1>1. f \in Frames /\ f.do = "text" /\ f.length = n
  BY DEF Text, Frames
<1>2. Legal(d, c, f) /\ Assembled(c, f) = c2
  BY <1>1 DEF Legal, Assembled, Clients
<1>3. c.text + n \in Nat
  BY ClientFields
<1>4. /\ c2 \in Clients /\ c2.started = c.started /\ c2.items = c.items /\ c2.text = c.text + n
      /\ c2.ended = c.ended /\ c2.wellFormed = c.wellFormed
  BY <1>3 DEF Clients
<1> HIDE DEF c2, f
<1>5. Runs(d, c, <<f>>, c2)
  BY <1>1, <1>2, <1>4, RunsOne
<1> QED
  BY <1>4, <1>5 DEF GoesOn, f

\* The two ends of a stream.
LEMMA FinishStep ==
    ASSUME NEW d, NEW c \in Clients, c.ended = "no", c.started, Ordered(d) => AllClosed(c)
    PROVE  \E c2 \in Clients : /\ Runs(d, c, <<Finish>>, c2)
                               /\ c2.ended = "finished" /\ c2.items = c.items /\ c2.text = c.text
                               /\ c2.wellFormed = c.wellFormed
<1> DEFINE c2 == [c EXCEPT !.ended = "finished"]
<1>1. Finish \in Frames /\ Finish.do = "finish"
  BY DEF Finish, Frames
<1>2. Legal(d, c, Finish) /\ Assembled(c, Finish) = c2
  BY <1>1 DEF Legal, Assembled
<1>3. /\ c2 \in Clients /\ c2.items = c.items /\ c2.text = c.text
      /\ c2.ended = "finished" /\ c2.wellFormed = c.wellFormed
  BY DEF Clients
<1> HIDE DEF c2
<1> QED
  BY <1>1, <1>2, <1>3, RunsOne

\* An error frame is legal until the stream has ended.
LEMMA ErrorStep ==
    ASSUME NEW d, NEW c \in Clients, c.ended = "no"
    PROVE  \E c2 \in Clients : /\ Runs(d, c, <<Error>>, c2)
                               /\ c2.ended = "error" /\ c2.wellFormed = c.wellFormed
<1> DEFINE c2 == [c EXCEPT !.ended = "error"]
<1>1. Error \in Frames /\ Error.do = "error"
  BY DEF Error, Frames
<1>2. Legal(d, c, Error) /\ Assembled(c, Error) = c2
  BY <1>1 DEF Legal, Assembled
<1>3. /\ c2 \in Clients /\ c2.ended = "error" /\ c2.wellFormed = c.wellFormed
  BY DEF Clients
<1> HIDE DEF c2
<1> QED
  BY <1>1, <1>2, <1>3, RunsOne

\* What was not sent yet of an item.
LEMMA RestStep ==
    ASSUME NEW d, NEW c \in Clients, c.ended = "no", NEW i \in DOMAIN c.items, c.items[i].open,
           NEW sent \in Nat, NEW n \in Nat, sent <= n
    PROVE  \E c2 : /\ Runs(d, c, Rest(i, sent, n), c2) /\ GoesOn(c, c2)
                    /\ c2.started = c.started
                    /\ c2.text = (IF c.items[i].of = Prose THEN c.text + (n - sent) ELSE c.text)
                    /\ DOMAIN c2.items = DOMAIN c.items
                    /\ c2.items[i] = [of |-> c.items[i].of, open |-> TRUE,
                                      length |-> c.items[i].length + (n - sent)]
                    /\ OthersKept(c, c2, i)
<1>1. CASE n > sent
  <2>1. Rest(i, sent, n) = <<Delta(i, n - sent)>> /\ n - sent \in Nat
    BY <1>1 DEF Rest, Optional
  <2> QED
    BY <2>1, DeltaStep
<1>2. CASE n = sent
  <2>1. Rest(i, sent, n) = << >>
    BY <1>2 DEF Rest, Optional
  <2>2. Runs(d, c, Rest(i, sent, n), c)
    BY <2>1, RunsEmpty
  <2>3. GoesOn(c, c) /\ OthersKept(c, c, i)
    BY DEF GoesOn, OthersKept
  <2>4. c.items[i] = [of |-> c.items[i].of, open |-> TRUE, length |-> c.items[i].length + (n - sent)]
    <3>1. /\ c.items[i] = [of |-> c.items[i].of, open |-> c.items[i].open, length |-> c.items[i].length]
          /\ c.items[i].open = TRUE /\ c.items[i].length \in Nat
      BY ClientFields
    <3>2. c.items[i].length + (n - sent) = c.items[i].length
      BY <1>2, <3>1
    <3> QED
      BY <3>1, <3>2
  <2>5. c.text = (IF c.items[i].of = Prose THEN c.text + (n - sent) ELSE c.text)
    BY <1>2, ClientFields
  <2> QED
    BY <2>2, <2>3, <2>4, <2>5, Zenon
<1>3. n > sent \/ n = sent
  OBVIOUS
<1> QED
  BY <1>1, <1>2, <1>3, Zenon

-----------------------------------------------------------------------------
(* The generator and the SDK agree.                                        *)

Progress == [at : Nat, event : Nat, length : Nat, done : BOOLEAN]

Generators == [started : BOOLEAN, wire : BOOLEAN, usage : BOOLEAN, text : Nat, block : Nat \cup {None},
               next : Nat, calls : UNION {[S -> Progress] : S \in SUBSET Call}]

\* Each announced call has its item with what was sent of it, and no other item
\* stands for a call; the other items are text.
CallsMatch(d, calls, items) ==
    /\ \A x \in DOMAIN calls :
          /\ calls[x].at \in DOMAIN items
          /\ items[calls[x].at].of = x /\ items[calls[x].at].length = calls[x].length
          /\ items[calls[x].at].open <=> (Ordered(d) => ~calls[x].done)
          /\ ~Ordered(d) => calls[x].at = calls[x].event
    /\ \A i \in DOMAIN items : items[i].of # Prose =>
          items[i].of \in DOMAIN calls /\ calls[items[i].of].at = i

\* Items are numbered without a gap, and the only open text item is the block.
PlacesMatch(next, block, items) ==
    /\ DOMAIN items = 0 .. next - 1
    /\ \A i \in DOMAIN items : items[i].of = Prose => (items[i].open <=> i = block)
    /\ block # None => block \in DOMAIN items /\ items[block].of = Prose

ItemsMatch(d, g0, items) ==
    /\ CallsMatch(d, g0.calls, items)
    /\ IF Ordered(d) THEN PlacesMatch(g0.next, g0.block, items)
       ELSE \A i \in DOMAIN items : items[i].of # Prose

Agrees(d, g0, c) ==
    /\ g0 \in Generators /\ c \in Clients
    /\ c.wellFormed /\ c.ended = "no" /\ c.text = g0.text
    /\ c.started = (IF d = "messages" THEN g0.wire ELSE g0.started)
    /\ ItemsMatch(d, g0, c.items)

\* The variables of a generator.
LEMMA GeneratorFields ==
    ASSUME NEW g0 \in Generators
    PROVE  /\ g0.started \in BOOLEAN /\ g0.wire \in BOOLEAN /\ g0.usage \in BOOLEAN
           /\ g0.text \in Nat /\ g0.next \in Nat /\ g0.block \in Nat \cup {None}
           /\ DOMAIN g0.calls \subseteq Call /\ g0.calls \in [DOMAIN g0.calls -> Progress]
           /\ \A x \in DOMAIN g0.calls :
                 /\ g0.calls[x].at \in Nat /\ g0.calls[x].event \in Nat
                 /\ g0.calls[x].length \in Nat /\ g0.calls[x].done \in BOOLEAN
<1>1. /\ g0.started \in BOOLEAN /\ g0.wire \in BOOLEAN /\ g0.usage \in BOOLEAN
      /\ g0.text \in Nat /\ g0.next \in Nat /\ g0.block \in Nat \cup {None}
      /\ g0.calls \in UNION {[S -> Progress] : S \in SUBSET Call}
  BY DEF Generators
<1>2. PICK S \in SUBSET Call : g0.calls \in [S -> Progress]
  BY <1>1
<1>3. DOMAIN g0.calls = S /\ \A x \in S : g0.calls[x] \in Progress
  BY <1>2
<1> QED
  BY <1>1, <1>2, <1>3 DEF Progress

\* Calls are numbered from one on; zero is text.
LEMMA CallProperties == Call \subseteq Nat \ {Prose}
<1> DEFINE n == Cardinality(Call)
<1>1. Call = 1 .. n
  BY CallAssumption
<1>2. \A x \in 1 .. n : x \in Nat /\ x # 0
  OBVIOUS
<1> HIDE DEF n
<1> QED
  BY <1>1, <1>2 DEF Prose

\* Where no text item is open, the next item may be one.
LEMMA TextItemMatches ==
    ASSUME NEW d, NEW g0 \in Generators, NEW c \in Clients, Ordered(d), ItemsMatch(d, g0, c.items), g0.block = None,
           NEW items, DOMAIN items = DOMAIN c.items \cup {g0.next},
           items[g0.next] = [of |-> Prose, open |-> TRUE, length |-> 0],
           \A j \in DOMAIN c.items : j # g0.next => items[j] = c.items[j],
           NEW g2, g2.calls = g0.calls, g2.next = g0.next + 1, g2.block = g0.next
    PROVE  ItemsMatch(d, g2, items)
<1>1. g0.next \in Nat /\ DOMAIN c.items = 0 .. g0.next - 1 /\ g0.next \notin DOMAIN c.items
  BY GeneratorFields DEF ItemsMatch, PlacesMatch
<1>2. \A j \in DOMAIN c.items : items[j] = c.items[j]
  BY <1>1
<1>3. items[g0.next].of = Prose /\ items[g0.next].open
  OBVIOUS
<1>4. CallsMatch(d, g2.calls, items)
  BY <1>1, <1>2, <1>3 DEF ItemsMatch, CallsMatch
<1>5. PlacesMatch(g2.next, g2.block, items)
  <2>1. DOMAIN items = 0 .. g2.next - 1
    BY <1>1
  <2>2. \A i \in DOMAIN c.items : items[i].of = Prose => ~items[i].open /\ i # g0.next
    BY <1>1, <1>2, NoneAssumption DEF ItemsMatch, PlacesMatch
  <2> QED
    BY <1>3, <2>1, <2>2 DEF PlacesMatch
<1> QED
  BY <1>4, <1>5 DEF ItemsMatch

\* The length of a text item may change.
LEMMA ProseLengthMatches ==
    ASSUME NEW d, NEW g0, NEW items, ItemsMatch(d, g0, items), NEW i \in DOMAIN items, items[i].of = Prose,
           NEW items2, DOMAIN items2 = DOMAIN items, items2[i].of = Prose, items2[i].open <=> items[i].open,
           \A j \in DOMAIN items : j # i => items2[j] = items[j],
           DOMAIN g0.calls \subseteq Call
    PROVE  ItemsMatch(d, g0, items2)
<1>1. \A x \in DOMAIN g0.calls : g0.calls[x].at # i
  <2> SUFFICES ASSUME NEW x \in DOMAIN g0.calls, g0.calls[x].at = i PROVE FALSE
    OBVIOUS
  <2>1. items[i].of = x
    BY DEF ItemsMatch, CallsMatch
  <2> QED
    BY <2>1, CallProperties
<1>2. CallsMatch(d, g0.calls, items2)
  BY <1>1 DEF ItemsMatch, CallsMatch
<1>3. PlacesMatch(g0.next, g0.block, items) => PlacesMatch(g0.next, g0.block, items2)
  BY DEF PlacesMatch
<1>4. \A j \in DOMAIN items2 : items2[j].of = items[j].of
  OBVIOUS
<1> QED
  BY <1>2, <1>3, <1>4 DEF ItemsMatch

\* A generator whose text has begun on the wire.
Live(d, g0) == IF d = "messages" THEN [g0 EXCEPT !.wire = TRUE] ELSE [g0 EXCEPT !.started = TRUE]

\* The start, when it was not sent yet.
LEMMA StartProperties ==
    ASSUME NEW d, NEW g0, NEW c, Agrees(d, g0, c)
    PROVE  \E c2 : /\ Runs(d, c, Optional(~c.started, Begin), c2)
                    /\ Agrees(d, Live(d, g0), c2) /\ c2.started
<1>1. c \in Clients /\ c.ended = "no" /\ g0 \in Generators
  BY DEF Agrees
<1>2. PICK c2 : /\ Runs(d, c, Optional(~c.started, Begin), c2) /\ GoesOn(c, c2)
                /\ c2.started /\ c2.items = c.items /\ c2.text = c.text
  <2>1. CASE c.started
    BY <1>1, <2>1, RunsEmpty DEF Optional, GoesOn
  <2>2. CASE ~c.started
    BY <1>1, <2>2, BeginStep DEF Optional
  <2> QED
    BY <2>1, <2>2
<1> DEFINE g2 == Live(d, g0)
<1>3. /\ g2 \in Generators /\ (IF d = "messages" THEN g2.wire ELSE g2.started) = TRUE
      /\ g2.text = g0.text /\ g2.calls = g0.calls /\ g2.next = g0.next /\ g2.block = g0.block
  BY <1>1 DEF Live, Generators
<1>4. ItemsMatch(d, g2, c2.items)
  BY <1>2, <1>3 DEF Agrees, ItemsMatch
<1>5. c2.started = TRUE
  BY <1>2, ClientFields DEF GoesOn
<1> HIDE DEF g2
<1>6. Agrees(d, g2, c2)
  BY <1>2, <1>3, <1>4, <1>5 DEF Agrees, GoesOn
<1> QED
  BY <1>2, <1>6 DEF g2

\* A text item of n characters that were not counted before.
LEMMA WithTextProperties ==
    ASSUME NEW d, NEW g0, NEW c, Ordered(d), Agrees(d, g0, c), c.started, NEW n \in Nat
    PROVE  \E c2 : /\ Runs(d, c, WithText(g0, n).frames, c2)
                    /\ Agrees(d, WithText(g0, n).g, c2) /\ c2.started
<1> DEFINE i == IF g0.block = None THEN g0.next ELSE g0.block
           next == IF g0.block = None THEN g0.next + 1 ELSE g0.next
           h == [g0 EXCEPT !.block = i, !.next = next]
           g2 == WithText(g0, n).g
           p == Optional(g0.block = None, Item(i, Prose))
           q == Optional(n > 0, Delta(i, n))
<1>1. c \in Clients /\ c.ended = "no" /\ g0 \in Generators /\ i \in Nat /\ g0.next \in Nat
  BY GeneratorFields DEF Agrees
<1>2. h \in Generators /\ h.calls = g0.calls /\ h.block = i /\ h.next = next
  <2>1. next \in Nat
    BY <1>1
  <2> HIDE DEF i, next
  <2> QED
    BY <1>1, <2>1 DEF Generators
<1> HIDE DEF h
<1>3. PICK c1 : /\ Runs(d, c, p, c1) /\ GoesOn(c, c1) /\ c1.started /\ c1.text = c.text
                /\ ItemsMatch(d, h, c1.items)
  <2>1. CASE g0.block = None
    <3>1. p = <<Item(g0.next, Prose)>> /\ i = g0.next
      BY <2>1 DEF Optional
    <3>2. DOMAIN c.items = 0 .. g0.next - 1
      BY DEF Agrees, ItemsMatch, PlacesMatch
    <3>3. NewItem(d, c, Item(g0.next, Prose))
      <4>1. Cardinality(0 .. g0.next - 1) = g0.next
        BY <1>1, FS_Interval
      <4>2. Item(g0.next, Prose).at = g0.next /\ Item(g0.next, Prose).of = Prose
        BY DEF Item
      <4>3. g0.next \notin DOMAIN c.items
        BY <1>1, <3>2
      <4> QED
        BY <3>2, <4>1, <4>2, <4>3 DEF NewItem
    <3>4. PICK c1 : /\ Runs(d, c, p, c1) /\ GoesOn(c, c1) /\ c1.started /\ c1.text = c.text
                    /\ DOMAIN c1.items = DOMAIN c.items \cup {g0.next}
                    /\ c1.items[g0.next] = [of |-> Prose, open |-> TRUE, length |-> 0]
                    /\ OthersKept(c, c1, g0.next)
      BY <1>1, <3>1, <3>3, ItemStep DEF Prose
    <3>5. ItemsMatch(d, h, c1.items)
      <4>1. ItemsMatch(d, g0, c.items)
        BY DEF Agrees
      <4>2. h.calls = g0.calls /\ h.block = g0.next /\ h.next = g0.next + 1
        BY <1>2, <2>1
      <4> HIDE DEF i, next
      <4> QED
        BY <1>1, <2>1, <3>4, <4>1, <4>2, TextItemMatches DEF OthersKept
    <3> QED
      BY <3>4, <3>5
  <2>2. CASE g0.block # None
    <3>1. p = << >> /\ h.block = g0.block /\ h.next = g0.next
      BY <1>2, <2>2 DEF Optional
    <3>2. ItemsMatch(d, h, c.items)
      BY <1>2, <3>1 DEF Agrees, ItemsMatch
    <3> QED
      BY <1>1, <3>1, <3>2, RunsEmpty DEF GoesOn
  <2> QED
    BY <2>1, <2>2
<1>4. c1 \in Clients /\ c1.ended = "no" /\ c1.wellFormed
  BY <1>3 DEF GoesOn, Agrees
<1>5. i \in DOMAIN c1.items /\ c1.items[i].of = Prose /\ c1.items[i].open
  BY <1>1, <1>2, <1>3, NoneAssumption DEF ItemsMatch, PlacesMatch
<1>6. q = Rest(i, 0, n)
  BY DEF Rest
<1>7. PICK c2 : /\ Runs(d, c1, q, c2) /\ GoesOn(c1, c2) /\ c2.started = c1.started
                /\ c2.text = c1.text + n
                /\ DOMAIN c2.items = DOMAIN c1.items
                /\ c2.items[i].of = Prose /\ c2.items[i].open
                /\ OthersKept(c1, c2, i)
  <2>1. PICK c2 : /\ Runs(d, c1, Rest(i, 0, n), c2) /\ GoesOn(c1, c2)
                  /\ c2.started = c1.started
                  /\ c2.text = (IF c1.items[i].of = Prose THEN c1.text + (n - 0) ELSE c1.text)
                  /\ DOMAIN c2.items = DOMAIN c1.items
                  /\ c2.items[i] = [of |-> c1.items[i].of, open |-> TRUE,
                                    length |-> c1.items[i].length + (n - 0)]
                  /\ OthersKept(c1, c2, i)
    <3>1. 0 \in Nat /\ 0 <= n
      OBVIOUS
    <3> HIDE DEF i
    <3> QED
      BY <1>4, <1>5, <3>1, RestStep, Zenon
  <2> QED
    BY <1>5, <1>6, <2>1
<1>8. ItemsMatch(d, h, c2.items)
  BY <1>2, <1>3, <1>5, <1>7, ProseLengthMatches, GeneratorFields DEF OthersKept
<1>9. /\ g2 \in Generators /\ g2.calls = h.calls /\ g2.block = h.block /\ g2.next = h.next
      /\ g2.text = g0.text + n /\ g2.wire = g0.wire /\ g2.started = g0.started
  <2>1. g2 = [g0 EXCEPT !.block = i, !.text = g0.text + n, !.next = next]
    BY DEF WithText
  <2>2. g0.text + n \in Nat /\ next \in Nat
    BY <1>1, GeneratorFields
  <2> HIDE DEF g2, i, next
  <2> QED
    BY <1>1, <1>2, <2>1, <2>2 DEF Generators
<1>10. WithText(g0, n).frames = p \o q
  BY DEF WithText
<1> HIDE DEF p, q, g2
<1>11. Runs(d, c, p \o q, c2)
  BY <1>3, <1>7, RunsConcat
<1>12. ItemsMatch(d, g2, c2.items)
  BY <1>8, <1>9 DEF ItemsMatch
<1>13. Agrees(d, g2, c2)
  <2>1. c.text = g0.text /\ c.started = (IF d = "messages" THEN g0.wire ELSE g0.started) /\ c.started = TRUE
    BY <1>1, ClientFields DEF Agrees
  <2>2. c2.started = TRUE
    BY <1>3, <1>4, <1>7, ClientFields
  <2>3. c2 \in Clients /\ c2.wellFormed /\ c2.ended = "no"
    BY <1>4, <1>7 DEF GoesOn
  <2>4. c2.text = g2.text
    BY <1>3, <1>7, <1>9, <2>1
  <2> QED
    BY <1>9, <1>12, <2>1, <2>2, <2>3, <2>4 DEF Agrees
<1> QED
  BY <1>3, <1>7, <1>10, <1>11, <1>13 DEF g2

\* The end of the open text item, if there is one.
LEMMA CloseTextProperties ==
    ASSUME NEW d, NEW g0, NEW c, Ordered(d), Agrees(d, g0, c)
    PROVE  \E c2 : /\ Runs(d, c, CloseText(g0), c2)
                    /\ Agrees(d, [g0 EXCEPT !.block = None], c2) /\ c2.started = c.started
<1> DEFINE i == g0.block
           g2 == [g0 EXCEPT !.block = None]
<1>1. c \in Clients /\ c.ended = "no" /\ g0 \in Generators
  BY DEF Agrees
<1>2. /\ g2 \in Generators /\ g2.calls = g0.calls /\ g2.block = None /\ g2.next = g0.next
      /\ g2.text = g0.text /\ g2.wire = g0.wire /\ g2.started = g0.started
  BY <1>1 DEF Generators
<1> HIDE DEF g2
<1>3. CASE i = None
  <2>1. CloseText(g0) = << >>
    BY <1>3 DEF CloseText, Optional
  <2>2. Agrees(d, g2, c)
    BY <1>2, <1>3 DEF Agrees, ItemsMatch
  <2> QED
    BY <1>1, <2>1, <2>2, RunsEmpty DEF g2
<1>4. CASE i # None
  <2>1. CloseText(g0) = <<Close(i)>>
    BY <1>4 DEF CloseText, Optional
  <2>2. i \in DOMAIN c.items /\ c.items[i].of = Prose /\ c.items[i].open
    BY <1>4 DEF Agrees, ItemsMatch, PlacesMatch
  <2>3. PICK c2 : /\ Runs(d, c, <<Close(i)>>, c2) /\ GoesOn(c, c2)
                  /\ c2.started = c.started /\ c2.text = c.text
                  /\ DOMAIN c2.items = DOMAIN c.items
                  /\ c2.items[i] = [of |-> c.items[i].of, open |-> FALSE, length |-> c.items[i].length]
                  /\ OthersKept(c, c2, i)
    BY <1>1, <2>2, CloseStep
  <2>4. c2.items[i].of = Prose /\ ~c2.items[i].open /\ \A j \in DOMAIN c.items : j # i => c2.items[j] = c.items[j]
    BY <2>2, <2>3 DEF OthersKept
  <2>5. CallsMatch(d, g2.calls, c2.items)
    <3>1. \A x \in DOMAIN g0.calls : g0.calls[x].at # i
      <4> SUFFICES ASSUME NEW x \in DOMAIN g0.calls, g0.calls[x].at = i PROVE FALSE
        OBVIOUS
      <4>1. c.items[i].of = x /\ x \in Call
        BY <1>1, GeneratorFields DEF Agrees, ItemsMatch, CallsMatch
      <4> QED
        BY <2>2, <4>1, CallProperties
    <3> QED
      BY <1>2, <2>3, <2>4, <3>1 DEF Agrees, ItemsMatch, CallsMatch
  <2>6. PlacesMatch(g2.next, g2.block, c2.items)
    <3>1. DOMAIN c2.items = 0 .. g2.next - 1 /\ 0 .. g2.next - 1 \subseteq Nat
      BY <1>2, <2>3 DEF Agrees, ItemsMatch, PlacesMatch
    <3>2. \A j \in DOMAIN c2.items : c2.items[j].of = Prose => ~c2.items[j].open
      BY <2>3, <2>4 DEF Agrees, ItemsMatch, PlacesMatch
    <3> QED
      BY <1>2, <3>1, <3>2, NoneAssumption DEF PlacesMatch
  <2>7. Agrees(d, g2, c2)
    BY <1>2, <2>3, <2>5, <2>6 DEF Agrees, GoesOn, ItemsMatch
  <2> QED
    BY <2>1, <2>3, <2>7 DEF g2
<1> QED
  BY <1>3, <1>4

\* What the two share besides the items.
SameFlags(g0, g2) == g2.text = g0.text /\ g2.wire = g0.wire /\ g2.started = g0.started

\* There are n numbers below n.
LEMMA NumbersBelow ==
    ASSUME NEW n \in Nat
    PROVE  Cardinality(0 .. n - 1) = n
  BY FS_Interval

\* A call is announced at a place that is free.
LEMMA AnnounceProperties ==
    ASSUME NEW d, NEW g0, NEW c, Agrees(d, g0, c), c.started,
           NEW x \in Call \ DOMAIN g0.calls, NEW i \in Nat, NEW index \in Nat,
           Ordered(d) => i = g0.next,
           ~Ordered(d) => i = index /\ \A y \in DOMAIN g0.calls : g0.calls[y].event # index,
           NEW g2 \in Generators, SameFlags(g0, g2), g2.block = g0.block,
           g2.calls = With(g0.calls, x, [at |-> i, event |-> index, length |-> 0, done |-> FALSE]),
           g2.next = (IF Ordered(d) THEN g0.next + 1 ELSE g0.next)
    PROVE  \E c2 : Runs(d, c, <<Item(i, x)>>, c2) /\ Agrees(d, g2, c2) /\ c2.started
<1> DEFINE new == [at |-> i, event |-> index, length |-> 0, done |-> FALSE]
<1>1. c \in Clients /\ c.ended = "no" /\ g0 \in Generators /\ g0.next \in Nat /\ x \in Nat /\ x # Prose
  BY GeneratorFields, CallProperties DEF Agrees
<1>2. i \notin DOMAIN c.items
  <2>1. CASE Ordered(d)
    BY <1>1, <2>1 DEF Agrees, ItemsMatch, PlacesMatch
  <2>2. CASE ~Ordered(d)
    <3> SUFFICES ASSUME i \in DOMAIN c.items PROVE FALSE
      OBVIOUS
    <3>1. c.items[i].of # Prose
      BY <2>2 DEF Agrees, ItemsMatch
    <3>2. c.items[i].of \in DOMAIN g0.calls /\ g0.calls[c.items[i].of].at = i
      BY <3>1 DEF Agrees, ItemsMatch, CallsMatch
    <3>3. g0.calls[c.items[i].of].event = i
      BY <2>2, <3>2 DEF Agrees, ItemsMatch, CallsMatch
    <3> QED
      BY <2>2, <3>2, <3>3
  <2> QED
    BY <2>1, <2>2
<1>3. NewItem(d, c, Item(i, x))
  <2>1. Item(i, x).at = i /\ Item(i, x).of = x
    BY DEF Item
  <2>2. \A j \in DOMAIN c.items : c.items[j].of # x
    BY <1>1 DEF Agrees, ItemsMatch, CallsMatch
  <2>3. Ordered(d) => i = Cardinality(DOMAIN c.items)
    <3>1. ASSUME Ordered(d) PROVE DOMAIN c.items = 0 .. g0.next - 1
      BY <3>1 DEF Agrees, ItemsMatch, PlacesMatch
    <3>2. Cardinality(0 .. g0.next - 1) = g0.next
      BY <1>1, NumbersBelow, Zenon
    <3> QED
      BY <3>1, <3>2
  <2> QED
    BY <1>2, <2>1, <2>2, <2>3 DEF NewItem
<1>4. PICK c2 : /\ Runs(d, c, <<Item(i, x)>>, c2) /\ GoesOn(c, c2)
                /\ c2.started /\ c2.text = c.text
                /\ DOMAIN c2.items = DOMAIN c.items \cup {i}
                /\ c2.items[i] = [of |-> x, open |-> TRUE, length |-> 0]
                /\ OthersKept(c, c2, i)
  BY <1>1, <1>3, ItemStep
<1>5. /\ \A j \in DOMAIN c.items : c2.items[j] = c.items[j] /\ j # i
      /\ c2.items[i].of = x /\ c2.items[i].open /\ c2.items[i].length = 0
  BY <1>2, <1>4 DEF OthersKept
<1>6. /\ DOMAIN g2.calls = DOMAIN g0.calls \cup {x} /\ g2.calls[x] = new
      /\ \A y \in DOMAIN g0.calls : g2.calls[y] = g0.calls[y] /\ y # x
  BY DEF With
<1>7. g2.calls[x].at = i /\ g2.calls[x].event = index /\ g2.calls[x].length = 0 /\ g2.calls[x].done = FALSE
  BY <1>6
<1>8. CallsMatch(d, g2.calls, c2.items)
  <2>1. ASSUME NEW y \in DOMAIN g2.calls
        PROVE  /\ g2.calls[y].at \in DOMAIN c2.items
               /\ c2.items[g2.calls[y].at].of = y /\ c2.items[g2.calls[y].at].length = g2.calls[y].length
               /\ c2.items[g2.calls[y].at].open <=> (Ordered(d) => ~g2.calls[y].done)
               /\ ~Ordered(d) => g2.calls[y].at = g2.calls[y].event
    <3>1. CASE y = x
      <4>1. i \in DOMAIN c2.items /\ (~Ordered(d) => i = index)
        BY <1>4
      <4> QED
        BY <1>5, <1>7, <3>1, <4>1, Zenon
    <3>2. CASE y \in DOMAIN g0.calls
      <4>1. CallsMatch(d, g0.calls, c.items)
        BY DEF Agrees, ItemsMatch
      <4>2. /\ g0.calls[y].at \in DOMAIN c.items
            /\ c.items[g0.calls[y].at].of = y /\ c.items[g0.calls[y].at].length = g0.calls[y].length
            /\ c.items[g0.calls[y].at].open <=> (Ordered(d) => ~g0.calls[y].done)
            /\ ~Ordered(d) => g0.calls[y].at = g0.calls[y].event
        BY <3>2, <4>1, Zenon DEF CallsMatch
      <4>3. g2.calls[y] = g0.calls[y] /\ c2.items[g0.calls[y].at] = c.items[g0.calls[y].at]
            /\ g0.calls[y].at \in DOMAIN c2.items
        BY <1>4, <1>5, <1>6, <3>2, <4>2, Zenon
      <4> QED
        BY <4>2, <4>3, Zenon
    <3> QED
      BY <1>6, <3>1, <3>2
  <2>2. ASSUME NEW j \in DOMAIN c2.items, c2.items[j].of # Prose
        PROVE  c2.items[j].of \in DOMAIN g2.calls /\ g2.calls[c2.items[j].of].at = j
    <3>1. CASE j = i
      <4>1. x \in DOMAIN g2.calls /\ g2.calls[x].at = i /\ c2.items[j].of = x
        BY <1>5, <1>6, <1>7, <3>1
      <4> QED
        BY <3>1, <4>1, Zenon
    <3>2. CASE j \in DOMAIN c.items
      <4>1. CallsMatch(d, g0.calls, c.items)
        BY DEF Agrees, ItemsMatch
      <4>2. c2.items[j] = c.items[j]
        BY <1>5, <3>2, Zenon
      <4>3. c.items[j].of \in DOMAIN g0.calls /\ g0.calls[c.items[j].of].at = j
        BY <2>2, <3>2, <4>1, <4>2, Zenon DEF CallsMatch
      <4>4. g2.calls[c.items[j].of] = g0.calls[c.items[j].of] /\ c.items[j].of \in DOMAIN g2.calls
        BY <1>6, <4>3, Zenon
      <4> QED
        BY <4>2, <4>3, <4>4, Zenon
    <3> QED
      BY <1>4, <3>1, <3>2
  <2> QED
    BY <2>1, <2>2 DEF CallsMatch
<1>9. CASE Ordered(d)
  <2>1. DOMAIN c2.items = 0 .. g2.next - 1
    BY <1>1, <1>4, <1>9 DEF Agrees, ItemsMatch, PlacesMatch
  <2>2. PlacesMatch(g2.next, g2.block, c2.items)
    BY <1>1, <1>4, <1>5, <1>9, <2>1 DEF Agrees, ItemsMatch, PlacesMatch
  <2> QED
    BY <1>1, <1>4, <1>8, <1>9, <2>2, ClientFields DEF Agrees, ItemsMatch, GoesOn, SameFlags
<1>10. CASE ~Ordered(d)
  <2>1. \A j \in DOMAIN c2.items : c2.items[j].of # Prose
    BY <1>1, <1>4, <1>5, <1>10 DEF Agrees, ItemsMatch
  <2> QED
    BY <1>1, <1>4, <1>8, <1>10, <2>1, ClientFields DEF Agrees, ItemsMatch, GoesOn, SameFlags
<1> QED
  BY <1>9, <1>10

\* More of the arguments of a call that is not complete, and its end if it is now.
LEMMA AdvanceProperties ==
    ASSUME NEW d, NEW g0, NEW c, Agrees(d, g0, c),
           NEW x \in DOMAIN g0.calls, ~g0.calls[x].done,
           NEW n \in Nat, g0.calls[x].length <= n, NEW done \in BOOLEAN,
           NEW g2 \in Generators, SameFlags(g0, g2), g2.block = g0.block, g2.next = g0.next,
           g2.calls = [g0.calls EXCEPT ![x] = [at |-> g0.calls[x].at, event |-> g0.calls[x].event,
                                               length |-> n, done |-> done]]
    PROVE  \E c2 : /\ Runs(d, c, Rest(g0.calls[x].at, g0.calls[x].length, n)
                                  \o Optional(done /\ Ordered(d), Close(g0.calls[x].at)), c2)
                    /\ Agrees(d, g2, c2) /\ c2.started = c.started
<1> DEFINE at == g0.calls[x].at
           sent == g0.calls[x].length
           new == [at |-> at, event |-> g0.calls[x].event, length |-> n, done |-> done]
           closes == done /\ Ordered(d)
<1>1. /\ c \in Clients /\ c.ended = "no" /\ g0 \in Generators /\ x \in Call /\ x # Prose
      /\ at \in Nat /\ sent \in Nat
  BY GeneratorFields, CallProperties DEF Agrees
<1>2. at \in DOMAIN c.items /\ c.items[at].of = x /\ c.items[at].length = sent /\ c.items[at].open
  BY DEF Agrees, ItemsMatch, CallsMatch
<1> HIDE DEF at, sent, closes
<1>3. PICK c1 : /\ Runs(d, c, Rest(at, sent, n), c1) /\ GoesOn(c, c1)
                /\ c1.started = c.started
                /\ c1.text = (IF c.items[at].of = Prose THEN c.text + (n - sent) ELSE c.text)
                /\ DOMAIN c1.items = DOMAIN c.items
                /\ c1.items[at] = [of |-> c.items[at].of, open |-> TRUE,
                                   length |-> c.items[at].length + (n - sent)]
                /\ OthersKept(c, c1, at)
  <2>1. sent <= n
    BY DEF sent
  <2> QED
    BY <1>1, <1>2, <2>1, RestStep, Zenon
<1>4. /\ c1 \in Clients /\ c1.ended = "no" /\ c1.text = c.text /\ c1.wellFormed
      /\ c1.items[at].of = x /\ c1.items[at].open /\ c1.items[at].length = n
  BY <1>1, <1>2, <1>3 DEF GoesOn, Agrees
<1>5. PICK c2 : /\ Runs(d, c1, Optional(closes, Close(at)), c2) /\ GoesOn(c1, c2)
                /\ c2.started = c1.started /\ c2.text = c1.text
                /\ DOMAIN c2.items = DOMAIN c1.items
                /\ c2.items[at].of = x /\ c2.items[at].length = n /\ (c2.items[at].open <=> ~closes)
                /\ OthersKept(c1, c2, at)
  <2>1. CASE closes
    <3>1. Optional(closes, Close(at)) = <<Close(at)>> /\ at \in DOMAIN c1.items
      BY <1>2, <1>3, <2>1 DEF Optional
    <3>2. PICK c2 : /\ Runs(d, c1, <<Close(at)>>, c2) /\ GoesOn(c1, c2)
                    /\ c2.started = c1.started /\ c2.text = c1.text
                    /\ DOMAIN c2.items = DOMAIN c1.items
                    /\ c2.items[at] = [of |-> c1.items[at].of, open |-> FALSE, length |-> c1.items[at].length]
                    /\ OthersKept(c1, c2, at)
      BY <1>4, <3>1, CloseStep
    <3>3. c2.items[at].of = x /\ c2.items[at].length = n /\ ~c2.items[at].open
      BY <1>4, <3>2
    <3> QED
      BY <2>1, <3>1, <3>2, <3>3
  <2>2. CASE ~closes
    <3>1. Optional(closes, Close(at)) = << >>
      BY <2>2 DEF Optional
    <3>2. Runs(d, c1, << >>, c1) /\ GoesOn(c1, c1) /\ OthersKept(c1, c1, at)
      BY <1>4, RunsEmpty DEF GoesOn, OthersKept
    <3> QED
      BY <1>4, <2>2, <3>1, <3>2
  <2> QED
    BY <2>1, <2>2
<1>6. Runs(d, c, Rest(at, sent, n) \o Optional(closes, Close(at)), c2)
  BY <1>3, <1>5, RunsConcat
<1>7. DOMAIN c2.items = DOMAIN c.items /\ \A j \in DOMAIN c.items : j # at => c2.items[j] = c.items[j]
  BY <1>3, <1>5 DEF OthersKept
<1>8. /\ DOMAIN g2.calls = DOMAIN g0.calls /\ g2.calls[x] = new
      /\ \A y \in DOMAIN g0.calls : y # x => g2.calls[y] = g0.calls[y]
  BY <1>1, GeneratorFields DEF at
<1>9. g2.calls[x].at = at /\ g2.calls[x].length = n /\ g2.calls[x].done = done
      /\ g2.calls[x].event = g0.calls[x].event
  BY <1>8
<1>10. CallsMatch(d, g2.calls, c2.items)
  <2>1. ASSUME NEW y \in DOMAIN g2.calls
        PROVE  /\ g2.calls[y].at \in DOMAIN c2.items
               /\ c2.items[g2.calls[y].at].of = y /\ c2.items[g2.calls[y].at].length = g2.calls[y].length
               /\ c2.items[g2.calls[y].at].open <=> (Ordered(d) => ~g2.calls[y].done)
               /\ ~Ordered(d) => g2.calls[y].at = g2.calls[y].event
    <3>1. CASE y = x
      <4>1. ~Ordered(d) => at = g0.calls[x].event
        BY DEF Agrees, ItemsMatch, CallsMatch, at
      <4> QED
        BY <1>2, <1>5, <1>7, <1>9, <3>1, <4>1 DEF closes
    <3>2. CASE y # x
      <4>1. y \in DOMAIN g0.calls /\ g2.calls[y] = g0.calls[y] /\ g0.calls[y].at # at
        BY <1>2, <1>8, <3>2 DEF Agrees, ItemsMatch, CallsMatch
      <4> QED
        BY <1>7, <4>1 DEF Agrees, ItemsMatch, CallsMatch
    <3> QED
      BY <3>1, <3>2
  <2>2. ASSUME NEW j \in DOMAIN c2.items, c2.items[j].of # Prose
        PROVE  c2.items[j].of \in DOMAIN g2.calls /\ g2.calls[c2.items[j].of].at = j
    <3>1. c2.items[j].of = c.items[j].of /\ j \in DOMAIN c.items
      BY <1>2, <1>5, <1>7
    <3>2. c.items[j].of \in DOMAIN g0.calls /\ g0.calls[c.items[j].of].at = j
      BY <2>2, <3>1 DEF Agrees, ItemsMatch, CallsMatch
    <3>3. \A y \in DOMAIN g0.calls : g2.calls[y].at = g0.calls[y].at
      BY <1>8, <1>9 DEF at
    <3> QED
      BY <1>8, <3>1, <3>2, <3>3
  <2> QED
    BY <2>1, <2>2 DEF CallsMatch
<1>11. ItemsMatch(d, g2, c2.items)
  <2>1. \A j \in DOMAIN c2.items : c2.items[j].of = c.items[j].of
    BY <1>2, <1>5, <1>7
  <2>2. \A j \in DOMAIN c2.items : c2.items[j].of = Prose => c2.items[j] = c.items[j]
    BY <1>1, <1>5, <1>7
  <2>3. PlacesMatch(g0.next, g0.block, c.items) => PlacesMatch(g2.next, g2.block, c2.items)
    BY <1>7, <2>1, <2>2 DEF PlacesMatch
  <2> QED
    BY <1>7, <1>10, <2>1, <2>3 DEF Agrees, ItemsMatch
<1>12. Agrees(d, g2, c2)
  BY <1>3, <1>4, <1>5, <1>11 DEF Agrees, GoesOn, SameFlags
<1> QED
  BY <1>3, <1>5, <1>6, <1>12 DEF at, sent, closes

-----------------------------------------------------------------------------
(* One turn of a loop, followed to the SDK.                                *)

\* Whatever the loop does with an event, its frames lead from c to a state that is
\* well-formed: one that agrees with the generator when the loop goes on, one that
\* has not ended when it throws, and a success only with the whole of r.
Continues(d, c, step, r) ==
    \E c2 \in Clients :
        /\ Runs(d, c, step.frames, c2) /\ c2.wellFormed
        /\ step.then = "more" => Agrees(d, step.g, c2)
        /\ step.then = "throw" => c2.ended = "no"
        /\ c2.ended = "finished" => Carries(c2, r)

\* A loop that goes on.
LEMMA GoOn ==
    ASSUME NEW d, NEW c, NEW r, NEW g2, NEW frames, NEW c2, Runs(d, c, frames, c2), Agrees(d, g2, c2)
    PROVE  Continues(d, c, Yields(g2, frames), r)
<1>1. c2 \in Clients /\ c2.wellFormed /\ c2.ended = "no"
  BY DEF Agrees
<1>2. Yields(g2, frames).frames = frames /\ Yields(g2, frames).g = g2 /\ Yields(g2, frames).then = "more"
  BY DEF Yields
<1> QED
  BY <1>1, <1>2 DEF Continues

\* A loop that throws.
LEMMA Throw ==
    ASSUME NEW d, NEW c, NEW r, NEW g2, NEW frames, NEW c2 \in Clients, Runs(d, c, frames, c2),
           c2.wellFormed, c2.ended = "no"
    PROVE  Continues(d, c, Throws(g2, frames), r)
<1>2. Throws(g2, frames).frames = frames /\ Throws(g2, frames).then = "throw"
  BY DEF Throws
<1> QED
  BY <1>2 DEF Continues

\* A loop that throws at once.
LEMMA ThrowAtOnce ==
    ASSUME NEW d, NEW c, NEW r, NEW g0, NEW g2, Agrees(d, g0, c)
    PROVE  Continues(d, c, Throws(g2, << >>), r)
<1>1. c \in Clients /\ c.wellFormed /\ c.ended = "no"
  BY DEF Agrees
<1> QED
  BY <1>1, RunsEmpty, Throw

\* A loop that ends with an error frame.
LEMMA FailedContinues ==
    ASSUME NEW d, NEW c, NEW r, NEW g0, NEW g2, Agrees(d, g0, c)
    PROVE  Continues(d, c, Failed(g2), r)
<1>1. c \in Clients /\ c.wellFormed /\ c.ended = "no"
  BY DEF Agrees
<1>2. PICK c2 \in Clients : /\ Runs(d, c, <<Error>>, c2)
                            /\ c2.ended = "error" /\ c2.wellFormed = c.wellFormed
  BY <1>1, ErrorStep
<1>3. Failed(g2).frames = <<Error>> /\ Failed(g2).then = "done"
  BY DEF Failed, Ends
<1> QED
  BY <1>1, <1>2, <1>3 DEF Continues

\* The fields of an event.
LEMMA EventFields ==
    ASSUME NEW e \in Events
    PROVE  /\ e.type \in {"call", "arguments", "called"} => e.call \in Call /\ e.index \in Nat
           /\ e.type = "called" => e.length \in Nat
           /\ e.type = "completed" => e \in Answers
<1> DEFINE n == Cardinality(Call)
<1>1. CASE e \in Started
  BY <1>1 DEF Started
<1>2. \A i \in 0 .. n - 1 : i \in Nat
  BY CallAssumption, FS_CardinalityType
<1>3. \A i \in 0 .. MaxLength : i \in Nat
  BY BoundsAssumption
<1>4. CASE e \in [type : {"call", "arguments"}, call : Call, index : Indexes]
  BY <1>2, <1>4 DEF Indexes
<1>5. CASE e \in [type : {"called"}, call : Call, index : Indexes, length : 0 .. MaxLength]
  BY <1>2, <1>3, <1>5 DEF Indexes
<1>6. CASE e \in Answers
  BY <1>6 DEF Answers
<1> QED
  BY <1>1, <1>4, <1>5, <1>6 DEF Events

\* A call is announced at the next place or at the index it has.
LEMMA AnnounceContinues ==
    ASSUME NEW d, NEW c, NEW r, NEW g0, Agrees(d, g0, c), c.started,
           NEW e, e.call \in Call, e.index \in Nat, Announces(g0, e),
           NEW i, i = IF Ordered(d) THEN g0.next ELSE e.index,
           NEW h, h = IF Ordered(d) THEN [g0 EXCEPT !.next = @ + 1] ELSE g0
    PROVE  \E c2 : Runs(d, c, <<Item(i, e.call)>>, c2) /\ Agrees(d, Announce(h, e, i), c2)
<1> DEFINE x == e.call
           index == e.index
           new == [at |-> i, event |-> index, length |-> 0, done |-> FALSE]
           calls == With(g0.calls, x, new)
           next == IF Ordered(d) THEN g0.next + 1 ELSE g0.next
           g2 == Announce(h, e, i)
<1>1. g0 \in Generators /\ x \in Call \ DOMAIN g0.calls /\ index \in Nat
  BY DEF Agrees, Announces
<1>2. i \in Nat /\ g0.next \in Nat /\ next \in Nat
  BY <1>1, GeneratorFields
<1>3. calls \in UNION {[S -> Progress] : S \in SUBSET Call}
  <2>1. new \in Progress
    BY <1>1, <1>2 DEF Progress
  <2> HIDE DEF new
  <2>2. calls \in [DOMAIN g0.calls \cup {x} -> Progress] /\ DOMAIN g0.calls \cup {x} \subseteq Call
    BY <1>1, <2>1, GeneratorFields DEF With
  <2> QED
    BY <2>2
<1>4. h \in Generators /\ h.calls = g0.calls /\ h.next = next /\ h.block = g0.block /\ SameFlags(g0, h)
  <2> HIDE DEF next
  <2>1. h = IF Ordered(d) THEN [g0 EXCEPT !.next = next] ELSE g0
    BY DEF next
  <2>2. ~Ordered(d) => next = g0.next
    BY DEF next
  <2> QED
    BY <1>1, <1>2, <2>1, <2>2 DEF Generators, SameFlags
<1>5. g2 = [h EXCEPT !.calls = calls]
  BY <1>4 DEF Announce
<1> HIDE DEF calls, g2, next
<1>6. g2 \in Generators /\ g2.calls = calls /\ g2.next = next /\ g2.block = g0.block /\ SameFlags(g0, g2)
  BY <1>3, <1>4, <1>5 DEF Generators, SameFlags
<1>7. ~Ordered(d) => i = index /\ \A y \in DOMAIN g0.calls : g0.calls[y].event # index
  BY DEF Announces
<1>8. Ordered(d) => i = g0.next
  OBVIOUS
<1>9. \E c2 : Runs(d, c, <<Item(i, x)>>, c2) /\ Agrees(d, g2, c2) /\ c2.started
  BY <1>1, <1>2, <1>6, <1>7, <1>8, AnnounceProperties DEF calls, next
<1> QED
  BY <1>9 DEF g2

\* One character more of a call's arguments.
LEMMA ArgumentsContinues ==
    ASSUME NEW d, NEW c, NEW r, NEW g0, Agrees(d, g0, c), NEW e
    PROVE  Continues(d, c, Arguments(g0, e), r)
<1>1. CASE ~Matches(g0, e)
  BY <1>1, ThrowAtOnce DEF Arguments
<1>2. CASE Matches(g0, e)
  <2> DEFINE x == e.call
             at == g0.calls[x].at
             sent == g0.calls[x].length
             new == [at |-> at, event |-> g0.calls[x].event, length |-> sent + 1, done |-> FALSE]
             calls == [g0.calls EXCEPT ![x] = new]
             g2 == [g0 EXCEPT !.calls = calls]
  <2>1. x \in DOMAIN g0.calls /\ ~g0.calls[x].done /\ g0 \in Generators
    BY <1>2 DEF Matches, Agrees
  <2>2. /\ at \in Nat /\ sent \in Nat /\ g0.calls[x] \in Progress /\ g0.calls[x].event \in Nat
        /\ DOMAIN g0.calls \subseteq Call /\ g0.calls \in [DOMAIN g0.calls -> Progress]
    BY <2>1, GeneratorFields
  <2>3. [g0.calls[x] EXCEPT !.length = @ + 1] = new
    <3> DEFINE p == g0.calls[x]
               y == [p EXCEPT !.length = @ + 1]
    <3>1. y \in Progress /\ y.at = p.at /\ y.event = p.event /\ y.length = p.length + 1 /\ y.done = FALSE
      BY <2>1, <2>2 DEF Progress
    <3> HIDE DEF y
    <3>2. y = [at |-> p.at, event |-> p.event, length |-> p.length + 1, done |-> FALSE]
      BY <3>1 DEF Progress
    <3> QED
      BY <3>2 DEF y
  <2>4. calls \in UNION {[S -> Progress] : S \in SUBSET Call}
    <3>1. new \in Progress
      BY <2>2 DEF Progress
    <3> HIDE DEF new
    <3> QED
      BY <2>2, <3>1
  <2>5. Arguments(g0, e) = Yields([g0 EXCEPT !.calls = [g0.calls EXCEPT ![x] = [g0.calls[x] EXCEPT !.length = @ + 1]]],
                                  <<Delta(at, 1)>>)
    BY <1>2, <2>1 DEF Arguments, Generators
  <2>6. Arguments(g0, e) = Yields(g2, <<Delta(at, 1)>>)
    BY <2>3, <2>5, Zenon
  <2> HIDE DEF calls
  <2>7. g2 \in Generators /\ g2.calls = calls /\ g2.next = g0.next /\ g2.block = g0.block /\ SameFlags(g0, g2)
    BY <2>1, <2>4 DEF Generators, SameFlags
  <2> HIDE DEF g2
  <2>8. PICK c2 : /\ Runs(d, c, Rest(at, sent, sent + 1) \o Optional(FALSE /\ Ordered(d), Close(at)), c2)
                  /\ Agrees(d, g2, c2)
    <3>1. sent + 1 \in Nat /\ sent <= sent + 1 /\ FALSE \in BOOLEAN
      BY <2>2
    <3> QED
      BY <2>1, <2>7, <3>1, AdvanceProperties DEF calls
  <2>9. Rest(at, sent, sent + 1) \o Optional(FALSE /\ Ordered(d), Close(at)) = <<Delta(at, 1)>>
    <3>1. Rest(at, sent, sent + 1) = <<Delta(at, 1)>>
      <4>1. sent + 1 > sent /\ (sent + 1) - sent = 1
        BY <2>2
      <4> HIDE DEF sent
      <4> QED
        BY <4>1 DEF Rest, Optional
    <3>2. Optional(FALSE /\ Ordered(d), Close(at)) = << >>
      BY DEF Optional
    <3>3. \A f : <<f>> \o << >> = <<f>>
      OBVIOUS
    <3> QED
      BY <3>1, <3>2, <3>3, Zenon
  <2> QED
    BY <2>6, <2>8, <2>9, GoOn
<1> QED
  BY <1>1, <1>2

\* The end of a call's arguments.
LEMMA CalledContinues ==
    ASSUME NEW d, NEW c, NEW r, NEW g0, Agrees(d, g0, c), NEW e, e.length \in Nat,
           NEW closes \in BOOLEAN, closes <=> Ordered(d)
    PROVE  Continues(d, c, Called(g0, e, closes), r)
<1>1. CASE ~(Matches(g0, e) /\ e.length >= g0.calls[e.call].length)
  BY <1>1, ThrowAtOnce DEF Called
<1>2. CASE Matches(g0, e) /\ e.length >= g0.calls[e.call].length
  <2> DEFINE x == e.call
             n == e.length
             at == g0.calls[x].at
             sent == g0.calls[x].length
             new == [at |-> at, event |-> g0.calls[x].event, length |-> n, done |-> TRUE]
             calls == [g0.calls EXCEPT ![x] = new]
             g2 == [g0 EXCEPT !.calls = calls]
             frames == Rest(at, sent, n) \o Optional(closes, Close(at))
  <2>1. x \in DOMAIN g0.calls /\ ~g0.calls[x].done /\ g0 \in Generators /\ sent <= n /\ n \in Nat
    <3>1. x \in DOMAIN g0.calls /\ ~g0.calls[x].done /\ g0 \in Generators
      BY <1>2 DEF Matches, Agrees
    <3>2. sent \in Nat
      BY <3>1, GeneratorFields
    <3> QED
      BY <1>2, <3>1, <3>2
  <2>2. /\ at \in Nat /\ sent \in Nat /\ g0.calls[x] \in Progress /\ g0.calls[x].event \in Nat
        /\ DOMAIN g0.calls \subseteq Call /\ g0.calls \in [DOMAIN g0.calls -> Progress]
    BY <2>1, GeneratorFields
  <2>3. [g0.calls[x] EXCEPT !.length = n, !.done = TRUE] = new
    <3> DEFINE p == g0.calls[x]
               y == [p EXCEPT !.length = n, !.done = TRUE]
    <3> HIDE DEF n
    <3>1. y \in Progress /\ y.at = p.at /\ y.event = p.event /\ y.length = n /\ y.done = TRUE
      BY <2>1, <2>2 DEF Progress
    <3> HIDE DEF y
    <3>2. y = [at |-> p.at, event |-> p.event, length |-> n, done |-> TRUE]
      BY <3>1 DEF Progress
    <3> QED
      BY <3>2 DEF y
  <2>4. calls \in UNION {[S -> Progress] : S \in SUBSET Call}
    <3>1. new \in Progress
      BY <2>1, <2>2 DEF Progress
    <3> HIDE DEF new
    <3> QED
      BY <2>2, <3>1
  <2>5. Called(g0, e, closes)
           = Yields([g0 EXCEPT !.calls = [g0.calls EXCEPT ![x] = [g0.calls[x] EXCEPT !.length = n, !.done = TRUE]]], frames)
    BY <1>2, <2>1 DEF Called, Generators
  <2>6. Called(g0, e, closes) = Yields(g2, frames)
    BY <2>3, <2>5, Zenon
  <2> HIDE DEF calls
  <2>7. g2 \in Generators /\ g2.calls = calls /\ g2.next = g0.next /\ g2.block = g0.block /\ SameFlags(g0, g2)
    BY <2>1, <2>4 DEF Generators, SameFlags
  <2> HIDE DEF g2
  <2>8. PICK c2 : /\ Runs(d, c, Rest(at, sent, n) \o Optional(TRUE /\ Ordered(d), Close(at)), c2)
                  /\ Agrees(d, g2, c2)
    <3> HIDE DEF n
    <3> QED
      BY <2>1, <2>7, AdvanceProperties DEF calls
  <2>9. Rest(at, sent, n) \o Optional(TRUE /\ Ordered(d), Close(at)) = frames
    <3>1. Optional(TRUE /\ Ordered(d), Close(at)) = Optional(closes, Close(at))
      BY DEF Optional
    <3> QED
      BY <3>1, Zenon
  <2> HIDE DEF frames
  <2> QED
    BY <2>6, <2>8, <2>9, GoOn
<1> QED
  BY <1>1, <1>2

\* The events of the Responses endpoint, the final response apart.
LEMMA ResponsesContinues ==
    ASSUME NEW d, d = "responses", NEW c, NEW r, NEW g0, Agrees(d, g0, c), NEW e \in Events, e.type # "completed"
    PROVE  Continues(d, c, Responses(g0, e), r)
<1>1. /\ Ordered(d) /\ c.started = g0.started /\ Live(d, g0) = [g0 EXCEPT !.started = TRUE]
      /\ g0 \in Generators /\ g0.started \in BOOLEAN
  BY GeneratorFields DEF Ordered, Agrees, Live
<1>2. Continues(d, c, ResponsesStarted(g0), r)
  <2>1. CASE g0.started
    BY <2>1, ThrowAtOnce DEF ResponsesStarted
  <2>2. CASE ~g0.started
    <3>1. Optional(~c.started, Begin) = <<Begin>>
      BY <1>1, <2>2 DEF Optional
    <3> QED
      BY <1>1, <2>2, <3>1, StartProperties, GoOn DEF ResponsesStarted
  <2> QED
    BY <2>1, <2>2
<1>3. Continues(d, c, ResponsesText(g0), r)
  <2>1. CASE ~g0.started
    BY <2>1, ThrowAtOnce DEF ResponsesText
  <2>2. CASE g0.started
    <3>1. PICK c2 : Runs(d, c, WithText(g0, 1).frames, c2) /\ Agrees(d, WithText(g0, 1).g, c2)
      BY <1>1, <2>2, WithTextProperties
    <3> QED
      BY <2>2, <3>1, GoOn DEF ResponsesText
  <2> QED
    BY <2>1, <2>2
<1>4. Continues(d, c, ResponsesUsage(g0), r)
  <2>1. Runs(d, c, << >>, c)
    BY RunsEmpty DEF Agrees
  <2> QED
    BY <2>1, ThrowAtOnce, GoOn DEF ResponsesUsage
<1>5. e.type = "call" => Continues(d, c, ResponsesCall(g0, e), r)
  <2> SUFFICES ASSUME e.type = "call" PROVE Continues(d, c, ResponsesCall(g0, e), r)
    OBVIOUS
  <2>1. CASE ~Announces(g0, e)
    BY <2>1, ThrowAtOnce DEF ResponsesCall
  <2>2. CASE Announces(g0, e)
    <3>1. e.call \in Call /\ e.index \in Nat /\ c.started
      BY <1>1, <2>2, EventFields DEF Announces
    <3>2. PICK c2 : /\ Runs(d, c, <<Item(g0.next, e.call)>>, c2)
                    /\ Agrees(d, Announce([g0 EXCEPT !.next = @ + 1], e, g0.next), c2)
      BY <1>1, <2>2, <3>1, AnnounceContinues
    <3> QED
      BY <2>2, <3>2, GoOn DEF ResponsesCall
  <2> QED
    BY <2>1, <2>2
<1>6. Continues(d, c, ResponsesArguments(g0, e), r)
  BY ArgumentsContinues DEF ResponsesArguments
<1>7. e.type = "called" => Continues(d, c, ResponsesCalled(g0, e), r)
  BY <1>1, EventFields, CalledContinues DEF ResponsesCalled
<1>8. Continues(d, c, Failed(g0), r) /\ Continues(d, c, Throws(g0, << >>), r)
  BY FailedContinues, ThrowAtOnce
<1> QED
  BY <1>2, <1>3, <1>4, <1>5, <1>6, <1>7, <1>8, EventTypes, Zenon DEF Responses

\* The events of the Chat Completions endpoint, the final response apart.
LEMMA ChatContinues ==
    ASSUME NEW d, ~Ordered(d), NEW c, NEW r, NEW g0, Agrees(d, g0, c),
           NEW e \in Events, e.type # "completed", NEW includeUsage
    PROVE  Continues(d, c, Chat(g0, e, includeUsage), r)
<1>0. g0 \in Generators /\ c \in Clients /\ c.ended = "no"
  BY DEF Agrees
<1>1. /\ ~Ordered(d) /\ d # "messages" /\ c.started = g0.started /\ Live(d, g0) = [g0 EXCEPT !.started = TRUE]
      /\ g0 \in Generators /\ g0.started \in BOOLEAN /\ c \in Clients /\ c.ended = "no"
  BY GeneratorFields DEF Ordered, Agrees, Live
<1>2. Continues(d, c, ChatStarted(g0), r)
  <2>1. CASE g0.started
    BY <2>1, ThrowAtOnce DEF ChatStarted
  <2>2. CASE ~g0.started
    <3>1. Optional(~c.started, Begin) = <<Begin>>
      BY <1>1, <2>2 DEF Optional
    <3> QED
      BY <1>1, <2>2, <3>1, StartProperties, GoOn DEF ChatStarted
  <2> QED
    BY <2>1, <2>2
<1>3. Continues(d, c, ChatText(g0), r)
  <2>1. CASE ~g0.started
    BY <2>1, ThrowAtOnce DEF ChatText
  <2>2. CASE g0.started
    <3> DEFINE g2 == [g0 EXCEPT !.text = @ + 1]
    <3>1. PICK c2 : /\ Runs(d, c, <<Text(1)>>, c2) /\ GoesOn(c, c2)
                    /\ c2.started /\ c2.items = c.items /\ c2.text = c.text + 1
      <4>1. c.started /\ 1 \in Nat
        BY <1>1, <2>2
      <4> QED
        BY <1>0, <4>1, TextStep
    <3>2. /\ g2 \in Generators /\ g2.text = g0.text + 1 /\ g2.started = g0.started /\ g2.calls = g0.calls
          /\ g2.next = g0.next /\ g2.block = g0.block /\ g2.wire = g0.wire
      <4> DEFINE t == g0.text + 1
      <4>1. t \in Nat
        BY <1>0, GeneratorFields
      <4>2. g2 = [g0 EXCEPT !.text = t]
        OBVIOUS
      <4> HIDE DEF t, g2
      <4>3. /\ g2 \in Generators /\ g2.text = t /\ g2.started = g0.started /\ g2.calls = g0.calls
            /\ g2.next = g0.next /\ g2.block = g0.block /\ g2.wire = g0.wire
        BY <1>0, <4>1, <4>2 DEF Generators
      <4> QED
        BY <4>3 DEF t
    <3>3. c2.started = TRUE /\ c.text = g0.text /\ g0.started = TRUE
      BY <1>1, <2>2, <3>1, ClientFields DEF GoesOn, Agrees
    <3> HIDE DEF g2
    <3>4. Agrees(d, g2, c2)
      BY <1>1, <3>1, <3>2, <3>3 DEF Agrees, GoesOn, ItemsMatch
    <3>5. ChatText(g0) = Yields(g2, <<Text(1)>>)
      BY <2>2 DEF ChatText, g2
    <3> QED
      BY <3>1, <3>4, <3>5, GoOn
  <2> QED
    BY <2>1, <2>2
<1>4. Continues(d, c, ChatUsage(g0), r)
  <2>1. Runs(d, c, << >>, c)
    BY <1>1, RunsEmpty
  <2> QED
    BY <2>1, ThrowAtOnce, GoOn DEF ChatUsage
<1>5. e.type = "call" => Continues(d, c, ChatCall(g0, e), r)
  <2> SUFFICES ASSUME e.type = "call" PROVE Continues(d, c, ChatCall(g0, e), r)
    OBVIOUS
  <2>1. CASE ~Announces(g0, e)
    BY <2>1, ThrowAtOnce DEF ChatCall
  <2>2. CASE Announces(g0, e)
    <3>1. e.call \in Call /\ e.index \in Nat /\ c.started
      BY <1>1, <2>2, EventFields DEF Announces
    <3>2. PICK c2 : /\ Runs(d, c, <<Item(e.index, e.call)>>, c2)
                    /\ Agrees(d, Announce(g0, e, e.index), c2)
      BY <1>1, <2>2, <3>1, AnnounceContinues
    <3> QED
      BY <2>2, <3>2, GoOn DEF ChatCall
  <2> QED
    BY <2>1, <2>2
<1>6. Continues(d, c, ChatArguments(g0, e), r)
  BY ArgumentsContinues DEF ChatArguments
<1>7. e.type = "called" => Continues(d, c, ChatCalled(g0, e), r)
  BY <1>1, EventFields, CalledContinues DEF ChatCalled
<1>8. Continues(d, c, Failed(g0), r) /\ Continues(d, c, Throws(g0, << >>), r)
  BY FailedContinues, ThrowAtOnce
<1> QED
  BY <1>2, <1>3, <1>4, <1>5, <1>6, <1>7, <1>8, EventTypes, Zenon DEF Chat

\* ensureStarted: the message starts when it has not yet.
LEMMA EnsureStartedProperties ==
    ASSUME NEW g0, NEW c, Agrees("messages", g0, c)
    PROVE  \E c2 : Runs("messages", c, EnsureStarted(g0), c2) /\ Agrees("messages", OnWire(g0), c2) /\ c2.started
<1>1. EnsureStarted(g0) = Optional(~c.started, Begin)
  BY DEF Agrees, EnsureStarted
<1>2. OnWire(g0) = Live("messages", g0)
  BY DEF OnWire, Live
<1> QED
  BY <1>1, <1>2, StartProperties

\* The events of the Messages endpoint, the final response apart.
LEMMA MessagesContinues ==
    ASSUME NEW d, d = "messages", NEW c, NEW r, NEW g0, Agrees(d, g0, c), NEW e \in Events, e.type # "completed"
    PROVE  Continues(d, c, Messages(g0, e), r)
<1>1. Ordered(d) /\ c.started = g0.wire /\ g0 \in Generators /\ c \in Clients
  BY DEF Ordered, Agrees
<1>2. Continues(d, c, MessagesStarted(g0), r)
  <2>1. CASE g0.started
    BY <2>1, ThrowAtOnce DEF MessagesStarted
  <2>2. CASE ~g0.started
    <3> DEFINE g2 == [g0 EXCEPT !.started = TRUE]
    <3>1. /\ g2 \in Generators /\ g2.text = g0.text /\ g2.wire = g0.wire /\ g2.calls = g0.calls
          /\ g2.next = g0.next /\ g2.block = g0.block
      BY <1>1 DEF Generators
    <3> HIDE DEF g2
    <3>2. Agrees(d, g2, c)
      BY <1>1, <3>1 DEF Agrees, ItemsMatch
    <3>3. MessagesStarted(g0) = Yields(g2, << >>)
      BY <2>2 DEF MessagesStarted, g2
    <3>4. Runs(d, c, << >>, c)
      BY <1>1, RunsEmpty
    <3> QED
      BY <3>2, <3>3, <3>4, GoOn
  <2> QED
    BY <2>1, <2>2
<1>3. Continues(d, c, MessagesUsage(g0), r)
  <2>1. CASE ~g0.started
    BY <2>1, ThrowAtOnce DEF MessagesUsage
  <2>2. CASE g0.started
    <3> DEFINE g1 == [g0 EXCEPT !.usage = TRUE]
    <3>1. /\ g1 \in Generators /\ g1.text = g0.text /\ g1.wire = g0.wire /\ g1.calls = g0.calls
          /\ g1.next = g0.next /\ g1.block = g0.block
      BY <1>1 DEF Generators
    <3> HIDE DEF g1
    <3>2. Agrees(d, g1, c)
      BY <1>1, <3>1 DEF Agrees, ItemsMatch
    <3>3. EnsureStarted(g1) = EnsureStarted(g0)
      BY <3>1 DEF EnsureStarted
    <3>4. PICK c2 : Runs(d, c, EnsureStarted(g0), c2) /\ Agrees(d, OnWire(g1), c2)
      BY <3>2, <3>3, EnsureStartedProperties
    <3>5. MessagesUsage(g0) = Yields(OnWire(g1), EnsureStarted(g0))
      BY <2>2 DEF MessagesUsage, g1
    <3> QED
      BY <3>4, <3>5, GoOn
  <2> QED
    BY <2>1, <2>2
<1>4. PICK c1 : Runs(d, c, EnsureStarted(g0), c1) /\ Agrees(d, OnWire(g0), c1) /\ c1.started
  BY EnsureStartedProperties
<1>5. Continues(d, c, MessagesText(g0), r)
  <2>1. CASE ~CanStart(g0)
    BY <2>1, ThrowAtOnce DEF MessagesText
  <2>2. CASE CanStart(g0)
    <3> DEFINE h == WithText(OnWire(g0), 1)
    <3>1. PICK c2 : Runs(d, c1, h.frames, c2) /\ Agrees(d, h.g, c2)
      BY <1>1, <1>4, WithTextProperties
    <3>2. Runs(d, c, EnsureStarted(g0) \o h.frames, c2)
      BY <1>4, <3>1, RunsConcat
    <3>3. MessagesText(g0) = Yields(h.g, EnsureStarted(g0) \o h.frames)
      BY <2>2 DEF MessagesText
    <3> HIDE DEF h
    <3> QED
      BY <3>1, <3>2, <3>3, GoOn
  <2> QED
    BY <2>1, <2>2
<1>6. e.type = "call" => Continues(d, c, MessagesCall(g0, e), r)
  <2> SUFFICES ASSUME e.type = "call" PROVE Continues(d, c, MessagesCall(g0, e), r)
    OBVIOUS
  <2>1. CASE ~Announces(g0, e) \/ ~CanStart(g0)
    BY <2>1, ThrowAtOnce DEF MessagesCall
  <2>2. CASE Announces(g0, e) /\ CanStart(g0)
    <3> DEFINE g1 == OnWire(g0)
               g2 == [g1 EXCEPT !.block = None]
               h == [g1 EXCEPT !.next = @ + 1, !.block = None]
    <3>1. e.call \in Call /\ e.index \in Nat
      BY EventFields
    <3>2. g1 \in Generators /\ g1.calls = g0.calls /\ g1.next = g0.next /\ g1.block = g0.block /\ g1.started = g0.started
      BY <1>1 DEF OnWire, Generators
    <3>3. CloseText(g1) = CloseText(g0)
      BY <3>2 DEF CloseText
    <3>4. PICK c2 : Runs(d, c1, CloseText(g0), c2) /\ Agrees(d, g2, c2) /\ c2.started = c1.started
      <4>1. Agrees(d, g1, c1)
        BY <1>4
      <4> HIDE DEF g1
      <4>2. \E c2 : /\ Runs(d, c1, CloseText(g1), c2)
                     /\ Agrees(d, [g1 EXCEPT !.block = None], c2) /\ c2.started = c1.started
        <5>1. Ordered(d)
          BY <1>1
        <5> QED
          BY <4>1, <5>1, CloseTextProperties
      <4> QED
        BY <3>3, <4>2, Zenon DEF g2
    <3>5. g2 \in Generators /\ g2.calls = g0.calls /\ g2.next = g0.next /\ g2.started = g0.started
      BY <3>2 DEF Generators
    <3>6. h = [g2 EXCEPT !.next = @ + 1]
      BY <3>2 DEF Generators
    <3> HIDE DEF g1, g2, h
    <3>7. Announces(g2, e)
      BY <2>2, <3>5 DEF Announces
    <3>8. PICK c3 : Runs(d, c2, <<Item(g0.next, e.call)>>, c3) /\ Agrees(d, Announce(h, e, g0.next), c3)
      BY <1>1, <1>4, <3>1, <3>4, <3>5, <3>6, <3>7, AnnounceContinues
    <3>9. Runs(d, c, EnsureStarted(g0) \o CloseText(g0), c2)
      BY <1>4, <3>4, RunsConcat
    <3>10. Runs(d, c, EnsureStarted(g0) \o CloseText(g0) \o <<Item(g0.next, e.call)>>, c3)
      BY <3>8, <3>9, RunsConcat
    <3>11. MessagesCall(g0, e) = Yields(Announce(h, e, g0.next), EnsureStarted(g0) \o CloseText(g0) \o <<Item(g0.next, e.call)>>)
      BY <2>2 DEF MessagesCall, h, g1
    <3> QED
      BY <3>8, <3>10, <3>11, GoOn
  <2> QED
    BY <2>1, <2>2
<1>7. Continues(d, c, MessagesArguments(g0, e), r)
  BY ArgumentsContinues DEF MessagesArguments
<1>8. e.type = "called" => Continues(d, c, MessagesCalled(g0, e), r)
  BY <1>1, EventFields, CalledContinues DEF MessagesCalled
<1>9. Continues(d, c, Failed(g0), r) /\ Continues(d, c, Throws(g0, << >>), r)
  BY FailedContinues, ThrowAtOnce
<1> QED
  BY <1>2, <1>3, <1>5, <1>6, <1>7, <1>8, <1>9, EventTypes, Zenon DEF Messages

\* Item i got n characters more, and its end if it closes; nothing else changed.
Extended(c, c2, i, n, closes) ==
    /\ GoesOn(c, c2) /\ c2.started = c.started /\ c2.text = c.text
    /\ DOMAIN c2.items = DOMAIN c.items
    /\ c2.items[i].of = c.items[i].of
    /\ c2.items[i].length = c.items[i].length + n
    /\ c2.items[i].open <=> ~closes
    /\ OthersKept(c, c2, i)

\* The item of a call gets the rest of its arguments, and its end where items have one.
LEMMA EndStep ==
    ASSUME NEW d, NEW c \in Clients, c.ended = "no", NEW i \in DOMAIN c.items, c.items[i].open,
           c.items[i].of # Prose, NEW sent \in Nat, NEW n \in Nat, sent <= n, NEW closes \in BOOLEAN
    PROVE  \E c2 : /\ Runs(d, c, Rest(i, sent, n) \o Optional(closes, Close(i)), c2)
                    /\ Extended(c, c2, i, n - sent, closes)
<1>1. PICK c1 : /\ Runs(d, c, Rest(i, sent, n), c1) /\ GoesOn(c, c1)
                /\ c1.started = c.started
                /\ c1.text = (IF c.items[i].of = Prose THEN c.text + (n - sent) ELSE c.text)
                /\ DOMAIN c1.items = DOMAIN c.items
                /\ c1.items[i] = [of |-> c.items[i].of, open |-> TRUE,
                                  length |-> c.items[i].length + (n - sent)]
                /\ OthersKept(c, c1, i)
  BY RestStep, Zenon
<1>2. /\ c1 \in Clients /\ c1.ended = "no" /\ c1.text = c.text
      /\ c1.items[i].of = c.items[i].of /\ c1.items[i].open
      /\ c1.items[i].length = c.items[i].length + (n - sent)
  BY <1>1 DEF GoesOn
<1>3. PICK c2 : /\ Runs(d, c1, Optional(closes, Close(i)), c2) /\ GoesOn(c1, c2)
                /\ c2.started = c1.started /\ c2.text = c1.text
                /\ DOMAIN c2.items = DOMAIN c1.items
                /\ c2.items[i].of = c1.items[i].of /\ c2.items[i].length = c1.items[i].length
                /\ (c2.items[i].open <=> ~closes)
                /\ OthersKept(c1, c2, i)
  <2>1. CASE closes
    <3>1. Optional(closes, Close(i)) = <<Close(i)>> /\ i \in DOMAIN c1.items
      BY <1>1, <2>1 DEF Optional
    <3>2. PICK c2 : /\ Runs(d, c1, <<Close(i)>>, c2) /\ GoesOn(c1, c2)
                    /\ c2.started = c1.started /\ c2.text = c1.text
                    /\ DOMAIN c2.items = DOMAIN c1.items
                    /\ c2.items[i] = [of |-> c1.items[i].of, open |-> FALSE, length |-> c1.items[i].length]
                    /\ OthersKept(c1, c2, i)
      BY <1>2, <3>1, CloseStep
    <3>3. c2.items[i].of = c1.items[i].of /\ c2.items[i].length = c1.items[i].length /\ ~c2.items[i].open
      BY <3>2
    <3> QED
      BY <2>1, <3>1, <3>2, <3>3
  <2>2. CASE ~closes
    <3>1. Optional(closes, Close(i)) = << >>
      BY <2>2 DEF Optional
    <3>2. Runs(d, c1, << >>, c1) /\ GoesOn(c1, c1) /\ OthersKept(c1, c1, i)
      BY <1>2, RunsEmpty DEF GoesOn, OthersKept
    <3> QED
      BY <1>2, <2>2, <3>1, <3>2
  <2> QED
    BY <2>1, <2>2
<1>4. Runs(d, c, Rest(i, sent, n) \o Optional(closes, Close(i)), c2)
  BY <1>1, <1>3, RunsConcat
<1>5. GoesOn(c, c2) /\ OthersKept(c, c2, i)
  BY <1>1, <1>3 DEF GoesOn, OthersKept
<1>6. /\ c2.started = c.started /\ c2.text = c.text /\ DOMAIN c2.items = DOMAIN c.items
      /\ c2.items[i].of = c.items[i].of /\ c2.items[i].length = c.items[i].length + (n - sent)
      /\ (c2.items[i].open <=> ~closes)
  BY <1>1, <1>2, <1>3
<1>7. Extended(c, c2, i, n - sent, closes)
  BY <1>5, <1>6, Zenon DEF Extended
<1> QED
  BY <1>4, <1>7, Zenon

-----------------------------------------------------------------------------
(* The calls of a final response.                                          *)

\* The calls that are sent, those of them that were not announced, and the first
\* place that is free after the ones up to k.
Good(r, bad) == {x \in DOMAIN r.calls : \A b \in bad : x < b}
New(g0, r, bad) == Good(r, bad) \ DOMAIN g0.calls
Free(g0, r, bad, next, k) == next + Cardinality({x \in New(g0, r, bad) : x <= k})

\* The calls of a response.
LEMMA AnswerFields ==
    ASSUME NEW r \in Answers
    PROVE  /\ r.text \in Nat /\ DOMAIN r.calls \subseteq Call
           /\ \A x \in DOMAIN r.calls : r.calls[x] \in Nat
<1>1. r.text \in 0 .. 1 /\ r.calls \in Calls
  BY DEF Answers
<1>2. PICK S \in SUBSET Call : r.calls \in [S -> 0 .. MaxLength]
  BY <1>1 DEF Calls
<1>3. \A i \in 0 .. MaxLength : i \in Nat
  BY BoundsAssumption
<1> QED
  BY <1>1, <1>2, <1>3

\* The first free place: it moves on by one with each call that was not announced,
\* and it is where such a call goes.
LEMMA FreeProperties ==
    ASSUME NEW g0, NEW r \in Answers, NEW bad, NEW next \in Nat, NEW k \in Nat
    PROVE  /\ Free(g0, r, bad, next, 0) = next
           /\ Free(g0, r, bad, next, k) \in Nat
           /\ k + 1 \notin New(g0, r, bad) => Free(g0, r, bad, next, k + 1) = Free(g0, r, bad, next, k)
           /\ k + 1 \in New(g0, r, bad) => Free(g0, r, bad, next, k + 1) = Free(g0, r, bad, next, k) + 1
           /\ bad \subseteq Call /\ k + 1 \in New(g0, r, bad)
                 => PlaceOf(g0, r, k + 1, next) = Free(g0, r, bad, next, k)
<1> DEFINE N == New(g0, r, bad)
           Upto(m) == {x \in N : x <= m}
<1>1. N \subseteq Call
  BY AnswerFields DEF New, Good
<1>2. \A x \in Call : x \in Nat \ {0}
  BY CallProperties DEF Prose
<1>3. ASSUME NEW m PROVE IsFiniteSet(Upto(m)) /\ Cardinality(Upto(m)) \in Nat
  <2>1. Upto(m) \subseteq Call
    BY <1>1
  <2> HIDE DEF Upto
  <2> QED
    BY <2>1, CallAssumption, FS_Subset, FS_CardinalityType
<1>4. Upto(0) = {}
  BY <1>1, <1>2
<1>5. Cardinality(Upto(k + 1)) = IF k + 1 \in N THEN Cardinality(Upto(k)) + 1 ELSE Cardinality(Upto(k))
  <2>1. CASE k + 1 \in N
    <3>1. Upto(k + 1) = Upto(k) \cup {k + 1} /\ k + 1 \notin Upto(k)
      <4> HIDE DEF N
      <4> QED
        BY <1>1, <1>2, <2>1
    <3> HIDE DEF Upto, N
    <3> QED
      BY <1>3, <2>1, <3>1, FS_AddElement
  <2>2. CASE k + 1 \notin N
    <3>1. Upto(k + 1) = Upto(k)
      <4> HIDE DEF N
      <4> QED
        BY <1>1, <1>2, <2>2
    <3> QED
      BY <2>2, <3>1
  <2> QED
    BY <2>1, <2>2
<1>6. \A m : Free(g0, r, bad, next, m) = next + Cardinality(Upto(m))
  BY DEF Free
<1>7. ASSUME bad \subseteq Call, k + 1 \in N
      PROVE  PlaceOf(g0, r, k + 1, next) = next + Cardinality(Upto(k))
  <2>1. \A b \in bad : b \in Nat /\ k + 1 < b
    BY <1>2, <1>7 DEF New, Good
  <2>2. \A x \in DOMAIN r.calls : x \in Nat
    BY <1>2, AnswerFields
  <2>3. {x \in DOMAIN r.calls \ DOMAIN g0.calls : x < k + 1} = Upto(k)
    BY <2>1, <2>2 DEF New, Good
  <2>4. k + 1 \notin DOMAIN g0.calls
    BY <1>7 DEF New
  <2> QED
    BY <2>3, <2>4 DEF PlaceOf
<1> HIDE DEF Upto, N
<1>8. Free(g0, r, bad, next, 0) = next
  BY <1>4, <1>6, FS_EmptySet
<1>9. /\ k + 1 \notin N => Free(g0, r, bad, next, k + 1) = Free(g0, r, bad, next, k)
      /\ k + 1 \in N => Free(g0, r, bad, next, k + 1) = Free(g0, r, bad, next, k) + 1
  BY <1>3, <1>5, <1>6
<1>10. Free(g0, r, bad, next, k) \in Nat
  BY <1>3, <1>6
<1> QED
  BY <1>6, <1>7, <1>8, <1>9, <1>10 DEF N

\* What the SDK has when the calls up to k are sent: the text, the calls that were
\* announced and are still to come as they were, and the others whole.
Placed(d, g0, r, bad, next, k, c) ==
    /\ c \in Clients /\ c.ended = "no" /\ c.started /\ c.wellFormed /\ c.text = r.text
    /\ IF Ordered(d) THEN DOMAIN c.items = 0 .. Free(g0, r, bad, next, k) - 1
       ELSE \A i \in DOMAIN c.items : i < Free(g0, r, bad, next, k)
    /\ \A x \in DOMAIN g0.calls : x > k =>
          /\ g0.calls[x].at \in DOMAIN c.items
          /\ c.items[g0.calls[x].at].of = x /\ c.items[g0.calls[x].at].length = g0.calls[x].length
          /\ c.items[g0.calls[x].at].open <=> (Ordered(d) => ~g0.calls[x].done)
    /\ \A i \in DOMAIN c.items : c.items[i].of \in DOMAIN g0.calls /\ c.items[i].of > k
          => g0.calls[c.items[i].of].at = i
    /\ \A x \in Good(r, bad) : x <= k => \E i \in DOMAIN c.items : c.items[i].of = x
    /\ \A i \in DOMAIN c.items : c.items[i].of \in Good(r, bad) /\ c.items[i].of <= k
          => c.items[i].length = r.calls[c.items[i].of] /\ (Ordered(d) => ~c.items[i].open)
    /\ \A i \in DOMAIN c.items :
          \/ c.items[i].of = Prose /\ (Ordered(d) => ~c.items[i].open)
          \/ c.items[i].of \in DOMAIN g0.calls
          \/ c.items[i].of \in Good(r, bad) /\ c.items[i].of <= k

\* The calls that are sent are numbers.
LEMMA GoodNumbers ==
    ASSUME NEW r \in Answers, NEW bad, NEW k \in Nat, NEW x \in Good(r, bad)
    PROVE  /\ x \in Nat \ {0}
           /\ x <= k => x <= k + 1
           /\ x <= k + 1 /\ x # k + 1 => x <= k
<1>1. x \in Nat \ {0}
  BY AnswerFields, CallProperties DEF Good, Prose
<1> QED
  BY <1>1

\* The calls up to k + 1 are sent when the next one is not among those to send ...
LEMMA PlacedSkips ==
    ASSUME NEW d, NEW g0 \in Generators, NEW r \in Answers, NEW bad, NEW next \in Nat, NEW k \in Nat,
           NEW c, Placed(d, g0, r, bad, next, k, c), k + 1 \notin Good(r, bad)
    PROVE  Placed(d, g0, r, bad, next, k + 1, c)
<1>1. Free(g0, r, bad, next, k + 1) = Free(g0, r, bad, next, k)
  <2>1. k + 1 \notin New(g0, r, bad)
    BY DEF New
  <2> QED
    BY <2>1, FreeProperties
<1>2. \A x \in DOMAIN g0.calls : x \in Nat
  BY GeneratorFields, CallProperties
<1>3. \A x \in Good(r, bad) : x \in Nat /\ (x <= k + 1 => x <= k)
  BY GoodNumbers, Zenon
<1>4. \A x \in Nat : (x > k + 1 => x > k) /\ (x <= k => x <= k + 1)
  OBVIOUS
<1> QED
  BY <1>1, <1>2, <1>3, <1>4 DEF Placed

\* ... and when its item is the only one that changed and is whole now.
LEMMA PlacedOneMore ==
    ASSUME NEW d, NEW g0 \in Generators, NEW r \in Answers, NEW bad, NEW next \in Nat, NEW k \in Nat,
           NEW c, Placed(d, g0, r, bad, next, k, c), NEW x, x = k + 1, x \in Good(r, bad),
           NEW c2 \in Clients, GoesOn(c, c2), c2.started, c2.text = c.text,
           NEW i, DOMAIN c2.items = DOMAIN c.items \cup {i}, OthersKept(c, c2, i),
           c2.items[i].of = x, c2.items[i].length = r.calls[x], Ordered(d) => ~c2.items[i].open,
           IF x \in DOMAIN g0.calls THEN i \in DOMAIN c.items /\ c.items[i].of = x /\ g0.calls[x].at = i
           ELSE i \notin DOMAIN c.items /\ i = Free(g0, r, bad, next, k)
    PROVE  Placed(d, g0, r, bad, next, k + 1, c2)
<1> DEFINE free == Free(g0, r, bad, next, k)
           free2 == Free(g0, r, bad, next, k + 1)
<1>1. free \in Nat /\ free2 = (IF x \in DOMAIN g0.calls THEN free ELSE free + 1)
  <2>1. x \in New(g0, r, bad) <=> x \notin DOMAIN g0.calls
    BY DEF New
  <2> QED
    BY <2>1, FreeProperties
<1>2. (\A y \in DOMAIN g0.calls : y \in Nat) /\ (\A y \in Good(r, bad) : y \in Nat)
  BY GeneratorFields, AnswerFields, CallProperties DEF Good
<1> HIDE DEF free, free2
<1>3. \A j \in DOMAIN c.items : j # i => c2.items[j] = c.items[j]
  BY DEF OthersKept
<1>4. \A j \in DOMAIN c.items : j # i => c.items[j].of # x
  <2>1. CASE x \in DOMAIN g0.calls
    <3>1. x > k
      OBVIOUS
    <3> QED
      BY <2>1, <3>1 DEF Placed
  <2>2. CASE x \notin DOMAIN g0.calls
    <3>1. x # Prose /\ ~(x <= k)
      BY DEF Prose
    <3> QED
      BY <2>2, <3>1 DEF Placed
  <2> QED
    BY <2>1, <2>2
<1>5. i \in DOMAIN c.items => c.items[i].of = x
  OBVIOUS
<1>6. c2.ended = "no" /\ c2.wellFormed /\ c2.text = r.text
  BY DEF Placed, GoesOn
<1>7. IF Ordered(d) THEN DOMAIN c2.items = 0 .. free2 - 1 ELSE \A j \in DOMAIN c2.items : j < free2
  <2>1. IF Ordered(d) THEN DOMAIN c.items = 0 .. free - 1 ELSE \A j \in DOMAIN c.items : j < free
    BY DEF Placed, free
  <2>2. CASE x \in DOMAIN g0.calls
    BY <1>1, <2>1, <2>2
  <2>3. CASE x \notin DOMAIN g0.calls
    <3>1. i = free /\ free2 = free + 1
      BY <1>1, <2>3 DEF free
    <3>2. CASE Ordered(d)
      BY <1>1, <2>1, <3>1, <3>2
    <3>3. CASE ~Ordered(d)
      <4>1. \A j \in DOMAIN c.items : j \in Nat
        BY ClientFields DEF Placed
      <4> QED
        BY <1>1, <2>1, <3>1, <3>3, <4>1
    <3> QED
      BY <3>2, <3>3
  <2> QED
    BY <2>2, <2>3
<1>8. ASSUME NEW y \in DOMAIN g0.calls, y > k + 1
      PROVE  /\ g0.calls[y].at \in DOMAIN c2.items
             /\ c2.items[g0.calls[y].at].of = y /\ c2.items[g0.calls[y].at].length = g0.calls[y].length
             /\ c2.items[g0.calls[y].at].open <=> (Ordered(d) => ~g0.calls[y].done)
  <2>1. y > k /\ y # x
    BY <1>2, <1>8
  <2>2. /\ g0.calls[y].at \in DOMAIN c.items
        /\ c.items[g0.calls[y].at].of = y /\ c.items[g0.calls[y].at].length = g0.calls[y].length
        /\ c.items[g0.calls[y].at].open <=> (Ordered(d) => ~g0.calls[y].done)
    BY <2>1, Zenon DEF Placed
  <2>3. g0.calls[y].at # i
    BY <1>5, <2>1, <2>2, Zenon
  <2>4. c2.items[g0.calls[y].at] = c.items[g0.calls[y].at] /\ g0.calls[y].at \in DOMAIN c2.items
    BY <1>3, <2>2, <2>3, Zenon
  <2> QED
    BY <2>2, <2>4, Zenon
<1>9. ASSUME NEW j \in DOMAIN c2.items, c2.items[j].of \in DOMAIN g0.calls, c2.items[j].of > k + 1
      PROVE  g0.calls[c2.items[j].of].at = j
  <2>1. c2.items[j].of # x /\ c2.items[j].of > k
    BY <1>2, <1>9
  <2>2. j # i /\ j \in DOMAIN c.items
    BY <2>1
  <2>3. c2.items[j] = c.items[j]
    BY <1>3, <2>2
  <2> QED
    BY <1>9, <2>1, <2>2, <2>3 DEF Placed
<1>10. ASSUME NEW y \in Good(r, bad), y <= k + 1
       PROVE  \E j \in DOMAIN c2.items : c2.items[j].of = y
  <2>1. CASE y = x
    BY <2>1
  <2>2. CASE y # x
    <3>1. y <= k
      BY <1>2, <1>10, <2>2
    <3>2. PICK j \in DOMAIN c.items : c.items[j].of = y
      BY <3>1 DEF Placed
    <3>3. j # i
      BY <1>5, <2>2, <3>2
    <3> QED
      BY <1>3, <3>2, <3>3
  <2> QED
    BY <2>1, <2>2
<1>11. ASSUME NEW j \in DOMAIN c2.items, c2.items[j].of \in Good(r, bad), c2.items[j].of <= k + 1
       PROVE  c2.items[j].length = r.calls[c2.items[j].of] /\ (Ordered(d) => ~c2.items[j].open)
  <2>1. CASE j = i
    BY <2>1
  <2>2. CASE j # i
    <3>1. j \in DOMAIN c.items /\ c2.items[j] = c.items[j] /\ c.items[j].of # x
      BY <1>3, <1>4, <2>2
    <3>2. c.items[j].of \in Good(r, bad) /\ c.items[j].of <= k + 1
      BY <1>11, <3>1, Zenon
    <3>3. c.items[j].of <= k
      BY <3>1, <3>2, GoodNumbers, Zenon
    <3>4. c.items[j].length = r.calls[c.items[j].of] /\ (Ordered(d) => ~c.items[j].open)
      BY <3>1, <3>2, <3>3, Zenon DEF Placed
    <3> QED
      BY <3>1, <3>4, Zenon
  <2> QED
    BY <2>1, <2>2
<1>12. ASSUME NEW j \in DOMAIN c2.items
       PROVE  \/ c2.items[j].of = Prose /\ (Ordered(d) => ~c2.items[j].open)
              \/ c2.items[j].of \in DOMAIN g0.calls
              \/ c2.items[j].of \in Good(r, bad) /\ c2.items[j].of <= k + 1
  <2>1. CASE j = i
    <3>1. x <= k + 1
      OBVIOUS
    <3> QED
      BY <2>1, <3>1, Zenon
  <2>2. CASE j # i
    <3>1. j \in DOMAIN c.items /\ c2.items[j] = c.items[j]
      BY <1>3, <2>2
    <3>2. \/ c.items[j].of = Prose /\ (Ordered(d) => ~c.items[j].open)
          \/ c.items[j].of \in DOMAIN g0.calls
          \/ c.items[j].of \in Good(r, bad) /\ c.items[j].of <= k
      BY <3>1, Zenon DEF Placed
    <3>3. \A y \in Good(r, bad) : y <= k => y <= k + 1
      BY <1>2
    <3> QED
      BY <3>1, <3>2, <3>3, Zenon
  <2> QED
    BY <2>1, <2>2
<1> QED
  BY <1>6, <1>7, <1>8, <1>9, <1>10, <1>11, <1>12, Zenon DEF Placed, free2

\* The frames of the next call, if it is sent.
LEMMA PlacedStep ==
    ASSUME NEW d, NEW g0 \in Generators, NEW r \in Answers, NEW bad \in SUBSET Call, NEW next \in Nat,
           Shrunk(g0, r) \subseteq bad, Ordered(d) => Changed(g0, r) \subseteq bad,
           NEW k \in Nat, NEW c, Placed(d, g0, r, bad, next, k, c),
           NEW closes \in BOOLEAN, closes <=> Ordered(d), k + 1 \in Good(r, bad)
    PROVE  \E c2 : /\ Runs(d, c, FinalCall(g0, r, k + 1, next, closes), c2)
                    /\ Placed(d, g0, r, bad, next, k + 1, c2)
<1> DEFINE x == k + 1
           at == PlaceOf(g0, r, x, next)
           n == r.calls[x]
           rest == Rest(at, Sent(g0, x), n)
           end == Optional(closes /\ ~IsDone(g0, x), Close(at))
<1>1. c \in Clients /\ c.ended = "no" /\ c.started /\ x \in Call /\ x # Prose /\ n \in Nat /\ x > k
  BY AnswerFields, CallProperties DEF Placed, Good
<1>2. x \notin bad
  <2>1. x \in bad => x < x
    BY DEF Good
  <2> QED
    BY <2>1
<1>3. x \notin Shrunk(g0, r) /\ (Ordered(d) => x \notin Changed(g0, r)) /\ x \in DOMAIN r.calls
  BY <1>2 DEF Good
<1>4. FinalCall(g0, r, x, next, closes) = Optional(x \notin DOMAIN g0.calls, Item(at, x)) \o rest \o end
  BY Zenon DEF FinalCall
<1>5. CASE x \in DOMAIN g0.calls
  <2> DEFINE sent == g0.calls[x].length
             done == g0.calls[x].done
  <2>1. at = g0.calls[x].at /\ Sent(g0, x) = sent /\ (IsDone(g0, x) <=> done) /\ sent \in Nat /\ done \in BOOLEAN
    BY <1>5, GeneratorFields DEF PlaceOf, Sent, IsDone
  <2>2. sent <= n /\ (Ordered(d) /\ done => n = sent)
    BY <1>1, <1>3, <2>1 DEF Shrunk, Changed, Shrinks, Changes
  <2>3. /\ at \in DOMAIN c.items /\ c.items[at].of = x /\ c.items[at].length = sent
        /\ c.items[at].open <=> (Ordered(d) => ~done)
    BY <1>1, <1>5, <2>1 DEF Placed
  <2>4. FinalCall(g0, r, x, next, closes) = << >> \o rest \o end
    <3>1. Optional(x \notin DOMAIN g0.calls, Item(at, x)) = << >>
      BY <1>5 DEF Optional
    <3> QED
      BY <1>4, <3>1, Zenon
  <2>5. Runs(d, c, << >>, c)
    BY <1>1, RunsEmpty
  <2>6. \E c2 : /\ Runs(d, c, rest \o end, c2) /\ GoesOn(c, c2) /\ c2.started /\ c2.text = c.text
                /\ DOMAIN c2.items = DOMAIN c.items /\ OthersKept(c, c2, at)
                /\ c2.items[at].of = x /\ c2.items[at].length = n /\ (Ordered(d) => ~c2.items[at].open)
    <3>1. CASE Ordered(d) /\ done
      <4>1. rest = << >> /\ end = << >>
        <5>1. ~(n > sent)
          BY <1>1, <2>1, <2>2, <3>1
        <5> QED
          BY <2>1, <3>1, <5>1 DEF Rest, Optional
      <4>2. << >> \o << >> = << >>
        OBVIOUS
      <4>3. GoesOn(c, c) /\ OthersKept(c, c, at)
        BY <1>1 DEF GoesOn, OthersKept
      <4>4. Runs(d, c, rest \o end, c)
        BY <2>5, <4>1, <4>2, Zenon
      <4>5. c.items[at].length = n /\ ~c.items[at].open /\ c.items[at].of = x
        BY <2>2, <2>3, <3>1
      <4> QED
        BY <1>1, <4>3, <4>4, <4>5
    <3>2. CASE ~(Ordered(d) /\ done)
      <4>1. end = Optional(closes, Close(at))
        BY <2>1, <3>2 DEF Optional
      <4>2. PICK c2 : /\ Runs(d, c, rest \o end, c2) /\ GoesOn(c, c2)
                      /\ c2.started = c.started /\ c2.text = c.text
                      /\ DOMAIN c2.items = DOMAIN c.items
                      /\ c2.items[at].of = c.items[at].of
                      /\ c2.items[at].length = c.items[at].length + (n - sent)
                      /\ (c2.items[at].open <=> ~closes)
                      /\ OthersKept(c, c2, at)
        <5>1. c.items[at].open /\ c.items[at].of # Prose
          BY <1>1, <2>3, <3>2
        <5> HIDE DEF at, n, end, sent, x, done
        <5>2. \E c2 : /\ Runs(d, c, Rest(at, sent, n) \o Optional(closes, Close(at)), c2)
                       /\ Extended(c, c2, at, n - sent, closes)
          <6>1. /\ c \in Clients /\ c.ended = "no" /\ n \in Nat /\ sent \in Nat /\ sent <= n
                /\ at \in DOMAIN c.items
            BY <1>1, <2>1, <2>2, <2>3
          <6> QED
            BY <5>1, <6>1, EndStep, Zenon
        <5> QED
          BY <2>1, <4>1, <5>2, Zenon DEF Extended, rest
      <4>3. c2.items[at].length = n
        BY <1>1, <2>1, <2>3, <4>2
      <4> QED
        BY <1>1, <2>3, <4>2, <4>3
    <3> QED
      BY <3>1, <3>2
  <2>7. PICK c2 : /\ Runs(d, c, rest \o end, c2) /\ GoesOn(c, c2) /\ c2.started /\ c2.text = c.text
                  /\ DOMAIN c2.items = DOMAIN c.items /\ OthersKept(c, c2, at)
                  /\ c2.items[at].of = x /\ c2.items[at].length = n /\ (Ordered(d) => ~c2.items[at].open)
    BY <2>6
  <2>8. Placed(d, g0, r, bad, next, k + 1, c2)
    <3>1. c2 \in Clients /\ DOMAIN c2.items = DOMAIN c.items \cup {at}
      BY <2>3, <2>7 DEF GoesOn
    <3>2. IF x \in DOMAIN g0.calls THEN at \in DOMAIN c.items /\ c.items[at].of = x /\ g0.calls[x].at = at
          ELSE at \notin DOMAIN c.items /\ at = Free(g0, r, bad, next, k)
      BY <1>5, <2>1, <2>3
    <3> HIDE DEF at
    <3> QED
      BY <2>7, <3>1, <3>2, PlacedOneMore
  <2>9. Runs(d, c, << >> \o rest \o end, c2)
    <3> HIDE DEF rest, end
    <3>1. rest \in Seq(Frames) /\ end \in Seq(Frames)
      <4>1. \A b : \A f \in Frames : Optional(b, f) \in Seq(Frames)
        BY DEF Optional
      <4>2. Close(at) \in Frames
        BY <1>1, <2>3, ClientFields DEF Frames, Close
      <4>3. ASSUME n > sent PROVE Delta(at, n - sent) \in Frames
        <5>1. n - sent \in Nat /\ at \in Nat
          BY <1>1, <2>1, <2>3, <4>3, ClientFields
        <5> HIDE DEF n, sent, at
        <5> QED
          BY <5>1 DEF Frames, Delta
      <4>4. rest \in Seq(Frames)
        BY <2>1, <4>1, <4>3 DEF Rest, Optional, rest
      <4> QED
        BY <4>1, <4>2, <4>4 DEF end
    <3>2. << >> \o rest \o end = rest \o end
      BY <3>1
    <3> QED
      BY <2>7, <3>2
  <2> QED
    BY <2>4, <2>8, <2>9, Zenon
<1>6. CASE x \notin DOMAIN g0.calls
  <2>1. /\ at = Free(g0, r, bad, next, k) /\ at \in Nat /\ Sent(g0, x) = 0 /\ ~IsDone(g0, x)
    <3>1. x \in New(g0, r, bad)
      BY <1>6 DEF New
    <3> QED
      <4>1. at = Free(g0, r, bad, next, k)
        BY <3>1, FreeProperties
      <4>2. at \in Nat
        BY <4>1, FreeProperties
      <4> QED
        BY <1>6, <4>1, <4>2 DEF Sent, IsDone
  <2>2. end = Optional(closes, Close(at)) /\ rest = Rest(at, 0, n)
    BY <2>1 DEF Optional
  <2>3. Optional(x \notin DOMAIN g0.calls, Item(at, x)) = <<Item(at, x)>>
    BY <1>6 DEF Optional
  <2>4. at \notin DOMAIN c.items /\ (Ordered(d) => at = Cardinality(DOMAIN c.items))
    <3>1. CASE Ordered(d)
      <4>1. DOMAIN c.items = 0 .. at - 1
        BY <2>1, <3>1 DEF Placed
      <4> HIDE DEF at
      <4>2. at \notin 0 .. at - 1
        BY <2>1
      <4> QED
        BY <2>1, <4>1, <4>2, NumbersBelow
    <3>2. CASE ~Ordered(d)
      <4>1. \A i \in DOMAIN c.items : i < at /\ i \in Nat
        BY <1>1, <2>1, <3>2, ClientFields DEF Placed
      <4> HIDE DEF at
      <4> QED
        BY <2>1, <3>2, <4>1
    <3> QED
      BY <3>1, <3>2
  <2>5. NewItem(d, c, Item(at, x))
    <3>1. Item(at, x).at = at /\ Item(at, x).of = x
      BY DEF Item
    <3>2. \A i \in DOMAIN c.items : c.items[i].of # x
      <4>1. ~(x <= k)
        OBVIOUS
      <4> HIDE DEF x
      <4> QED
        BY <1>1, <1>6, <4>1 DEF Placed
    <3> QED
      BY <2>4, <3>1, <3>2 DEF NewItem
  <2> HIDE DEF at, rest, end
  <2>6. PICK c1 : /\ Runs(d, c, <<Item(at, x)>>, c1) /\ GoesOn(c, c1)
                  /\ c1.started /\ c1.text = c.text
                  /\ DOMAIN c1.items = DOMAIN c.items \cup {at}
                  /\ c1.items[at] = [of |-> x, open |-> TRUE, length |-> 0]
                  /\ OthersKept(c, c1, at)
    <3>1. x \in Nat
      OBVIOUS
    <3> HIDE DEF x
    <3> QED
      BY <1>1, <2>1, <2>5, <3>1, ItemStep
  <2>7. /\ c1 \in Clients /\ c1.ended = "no" /\ at \in DOMAIN c1.items /\ c1.items[at].open
        /\ c1.items[at].of = x /\ c1.items[at].length = 0
    BY <1>1, <2>6 DEF GoesOn
  <2> HIDE DEF x, n
  <2>8. PICK c2 : /\ Runs(d, c1, Rest(at, 0, n) \o Optional(closes, Close(at)), c2) /\ GoesOn(c1, c2)
                  /\ c2.started = c1.started /\ c2.text = c1.text
                  /\ DOMAIN c2.items = DOMAIN c1.items
                  /\ c2.items[at].of = c1.items[at].of
                  /\ c2.items[at].length = c1.items[at].length + (n - 0)
                  /\ (c2.items[at].open <=> ~closes)
                  /\ OthersKept(c1, c2, at)
    <3>1. c1.items[at].of # Prose /\ 0 \in Nat /\ 0 <= n
      BY <1>1, <2>7
    <3>2. c1 \in Clients /\ c1.ended = "no" /\ at \in DOMAIN c1.items /\ c1.items[at].open /\ n \in Nat
      BY <1>1, <2>7
    <3>3. \E c2 : /\ Runs(d, c1, Rest(at, 0, n) \o Optional(closes, Close(at)), c2)
                   /\ Extended(c1, c2, at, n - 0, closes)
      BY <3>1, <3>2, EndStep
    <3> QED
      BY <3>3, Zenon DEF Extended
  <2>9. Runs(d, c, <<Item(at, x)>> \o (rest \o end), c2)
    <3>1. Runs(d, c1, rest \o end, c2)
      BY <2>2, <2>8, Zenon
    <3> QED
      BY <2>6, <3>1, RunsConcat
  <2>10. Placed(d, g0, r, bad, next, k + 1, c2)
    <3>1. c2 \in Clients /\ GoesOn(c, c2) /\ c2.started /\ c2.text = c.text
      BY <2>6, <2>8 DEF GoesOn
    <3>2. DOMAIN c2.items = DOMAIN c.items \cup {at} /\ OthersKept(c, c2, at)
      BY <2>4, <2>6, <2>8 DEF OthersKept
    <3>3. c2.items[at].of = x /\ c2.items[at].length = n /\ (Ordered(d) => ~c2.items[at].open)
      BY <1>1, <2>7, <2>8
    <3>4. x = k + 1
      BY DEF x
    <3> QED
      BY <1>6, <2>1, <2>4, <3>1, <3>2, <3>3, <3>4, PlacedOneMore DEF n
  <2>11. <<Item(at, x)>> \o (rest \o end) = <<Item(at, x)>> \o rest \o end
    <3>1. Item(at, x) \in Frames /\ rest \in Seq(Frames) /\ end \in Seq(Frames)
      <4>1. \A b : \A f \in Frames : Optional(b, f) \in Seq(Frames)
        BY DEF Optional
      <4>2. Close(at) \in Frames /\ Item(at, x) \in Frames
        <5>1. x \in Nat
          BY DEF x
        <5> QED
          BY <2>1, <5>1 DEF Frames, Close, Item
      <4>3. Delta(at, n - 0) \in Frames
        <5>1. n - 0 \in Nat
          BY <1>1
        <5> QED
          BY <2>1, <5>1 DEF Frames, Delta
      <4> QED
        BY <2>2, <4>1, <4>2, <4>3 DEF Rest
    <3> QED
      BY <3>1
  <2> QED
    BY <1>4, <2>3, <2>9, <2>10, <2>11 DEF x
<1> QED
  BY <1>5, <1>6

\* The frames of a final call are frames.
LEMMA FinalCallFrames ==
    ASSUME NEW g0 \in Generators, NEW r \in Answers, NEW bad \in SUBSET Call, NEW next \in Nat,
           NEW x \in Good(r, bad), NEW closes
    PROVE  FinalCall(g0, r, x, next, closes) \in Seq(Frames)
<1> DEFINE at == PlaceOf(g0, r, x, next)
           n == r.calls[x]
           sent == Sent(g0, x)
<1>1. x \in Nat \ {0} /\ n \in Nat
  BY GoodNumbers, AnswerFields DEF Good
<1>2. at \in Nat /\ sent \in Nat
  <2>1. CASE x \in DOMAIN g0.calls
    BY <2>1, GeneratorFields DEF PlaceOf, Sent
  <2>2. CASE x \notin DOMAIN g0.calls
    <3> DEFINE k == x - 1
    <3>1. k \in Nat /\ x = k + 1
      BY <1>1
    <3> HIDE DEF k
    <3>2. k + 1 \in New(g0, r, bad)
      BY <2>2, <3>1 DEF New
    <3>3. PlaceOf(g0, r, k + 1, next) = Free(g0, r, bad, next, k) /\ Free(g0, r, bad, next, k) \in Nat
      BY <3>1, <3>2, FreeProperties
    <3> QED
      BY <2>2, <3>1, <3>3 DEF Sent
  <2> QED
    BY <2>1, <2>2
<1> HIDE DEF at, n, sent
<1>3. Item(at, x) \in Frames /\ Close(at) \in Frames
  BY <1>1, <1>2 DEF Frames, Item, Close
<1>4. \A b : \A f \in Frames : Optional(b, f) \in Seq(Frames)
  BY DEF Optional
<1>5. Rest(at, sent, n) \in Seq(Frames)
  <2>1. ASSUME n > sent PROVE Delta(at, n - sent) \in Frames
    <3>1. n - sent \in Nat
      BY <1>1, <1>2, <2>1
    <3> QED
      BY <1>2, <3>1 DEF Frames, Delta
  <2> QED
    BY <1>4, <2>1 DEF Rest, Optional
<1>6. /\ Optional(x \notin DOMAIN g0.calls, Item(at, x)) \in Seq(Frames)
      /\ Optional(closes /\ ~IsDone(g0, x), Close(at)) \in Seq(Frames)
  BY <1>3, <1>4
<1>7. FinalCall(g0, r, x, next, closes)
         = Optional(x \notin DOMAIN g0.calls, Item(at, x)) \o Rest(at, sent, n)
           \o Optional(closes /\ ~IsDone(g0, x), Close(at))
  BY Zenon DEF FinalCall, at, sent, n
<1> QED
  BY <1>5, <1>6, <1>7

\* When every call is sent the SDK has the answer.
LEMMA PlacedCarries ==
    ASSUME NEW d, NEW g0 \in Generators, NEW r \in Answers, NEW next \in Nat, Known(g0, r),
           NEW c, Placed(d, g0, r, {}, next, Cardinality(Call), c)
    PROVE  Carries(c, r) /\ (Ordered(d) => AllClosed(c))
<1> DEFINE n == Cardinality(Call)
<1>1. Good(r, {}) = DOMAIN r.calls
  BY DEF Good
<1>2. \A x \in DOMAIN r.calls : x <= n
  BY AnswerFields, CallAssumption, FS_CardinalityType
<1>3. \A i \in DOMAIN c.items : c.items[i].of \in DOMAIN g0.calls => c.items[i].of \in DOMAIN r.calls
  BY DEF Known
<1> HIDE DEF n
<1>4. \A i \in DOMAIN c.items : c.items[i].of \in DOMAIN r.calls
         => c.items[i].length = r.calls[c.items[i].of] /\ (Ordered(d) => ~c.items[i].open)
  BY <1>1, <1>2, Zenon DEF Placed, n
<1>5. \A i \in DOMAIN c.items :
         \/ c.items[i].of = Prose /\ (Ordered(d) => ~c.items[i].open)
         \/ c.items[i].of \in DOMAIN r.calls
  BY <1>1, <1>3, Zenon DEF Placed, n
<1>6. \A x \in DOMAIN r.calls : \E i \in DOMAIN c.items : c.items[i].of = x
  BY <1>1, <1>2, Zenon DEF Placed, n
<1>7. c.text = r.text
  BY DEF Placed
<1>8. Carries(c, r)
  <2>1. ASSUME NEW x \in DOMAIN r.calls
        PROVE  \E i \in DOMAIN c.items : c.items[i].of = x /\ c.items[i].length = r.calls[x]
    <3>1. PICK i \in DOMAIN c.items : c.items[i].of = x
      BY <1>6
    <3>2. c.items[i].length = r.calls[x]
      BY <1>4, <3>1
    <3> QED
      BY <3>1, <3>2
  <2>2. \A i \in DOMAIN c.items : c.items[i].of \in DOMAIN r.calls \cup {Prose}
    BY <1>5
  <2> QED
    BY <1>7, <2>1, <2>2 DEF Carries
<1>9. Ordered(d) => AllClosed(c)
  BY <1>4, <1>5 DEF AllClosed
<1> QED
  BY <1>8, <1>9

\* After the final calls the SDK has the whole answer, unless one of them was bad.
Complete(d, r, bad, c) ==
    /\ c \in Clients /\ c.ended = "no" /\ c.started /\ c.wellFormed
    /\ bad = {} => Carries(c, r) /\ (Ordered(d) => AllClosed(c))

\* The frames of the final calls, up to the first bad one.
LEMMA FinalCallsProperties ==
    ASSUME NEW d, NEW g0 \in Generators, NEW r \in Answers, NEW bad \in SUBSET Call, NEW next \in Nat,
           Shrunk(g0, r) \subseteq bad, Ordered(d) => Changed(g0, r) \subseteq bad, Known(g0, r),
           NEW c, Placed(d, g0, r, bad, next, 0, c),
           NEW closes \in BOOLEAN, closes <=> Ordered(d)
    PROVE  \E c2 : /\ Runs(d, c, FinalCalls(g0, r, next, closes, bad), c2)
                    /\ Complete(d, r, bad, c2)
<1> DEFINE n == Cardinality(Call)
           part(x) == IF x \in Good(r, bad) THEN FinalCall(g0, r, x, next, closes) ELSE << >>
           parts == [x \in 1 .. n |-> part(x)]
<1>1. n \in Nat /\ Call = 1 .. n
  BY CallAssumption, FS_CardinalityType
<1>2. FinalCalls(g0, r, next, closes, bad) = FlattenSeq(parts)
  BY <1>1 DEF FinalCalls, Good
<1>3. parts \in [1 .. n -> Seq(Frames)]
  <2>1. ASSUME NEW x \in 1 .. n PROVE part(x) \in Seq(Frames)
    BY FinalCallFrames
  <2> QED
    BY <2>1
<1> HIDE DEF n
<1>4. PICK f : /\ f[0] = << >> /\ f[n] = FlattenSeq(parts)
               /\ \A i \in 1 .. n : f[i] = f[i - 1] \o parts[i]
  <2> HIDE DEF parts
  <2> QED
    <3>1. PICK f : Builds(f, parts, n, Frames)
      BY <1>1, <1>3, FlattenProperties
    <3> QED
      BY <3>1 DEF Builds
<1> DEFINE Reached(k) == \E c2 : Runs(d, c, f[k], c2) /\ Placed(d, g0, r, bad, next, k, c2)
           T == {k \in 0 .. n : Reached(k)}
<1>5. 0 \in T
  <2>1. Runs(d, c, << >>, c)
    BY RunsEmpty DEF Placed
  <2>2. Reached(0)
    BY <1>4, <2>1
  <2> HIDE DEF Reached
  <2> QED
    BY <1>1, <2>2
<1>6. ASSUME NEW k \in 0 .. n, k \in T, k < n
      PROVE  k + 1 \in T
  <2>1. k \in Nat /\ k + 1 \in 1 .. n /\ (k + 1) - 1 = k /\ k + 1 \in 0 .. n
    BY <1>1, <1>6
  <2>2. PICK c1 : Runs(d, c, f[k], c1) /\ Placed(d, g0, r, bad, next, k, c1)
    BY <1>6
  <2>3. PICK c2 : Runs(d, c1, part(k + 1), c2) /\ Placed(d, g0, r, bad, next, k + 1, c2)
    <3>1. CASE k + 1 \in Good(r, bad)
      BY <2>1, <2>2, <3>1, PlacedStep
    <3>2. CASE k + 1 \notin Good(r, bad)
      <4>1. Runs(d, c1, << >>, c1)
        BY <2>2, RunsEmpty DEF Placed
      <4>2. Placed(d, g0, r, bad, next, k + 1, c1)
        BY <2>1, <2>2, <3>2, PlacedSkips
      <4> QED
        BY <3>2, <4>1, <4>2
    <3> QED
      BY <3>1, <3>2
  <2>4. f[k + 1] = f[k] \o part(k + 1)
    <3>1. parts[k + 1] = part(k + 1)
      BY <2>1
    <3> HIDE DEF part, parts
    <3> QED
      BY <1>4, <2>1, <3>1
  <2> HIDE DEF part
  <2>5. Runs(d, c, f[k + 1], c2)
    BY <2>2, <2>3, <2>4, RunsConcat
  <2>6. Reached(k + 1)
    BY <2>3, <2>5
  <2> HIDE DEF Reached
  <2> QED
    BY <2>1, <2>6
<1> HIDE DEF T, Reached
<1>7. n \in T
  <2>1. \A m \in 0 .. n : m \in T /\ m < n => m + 1 \in T
    BY <1>6
  <2>2. 0 .. n \subseteq T
    BY <1>1, <1>5, <2>1, UpTo, Zenon
  <2> QED
    BY <1>1, <2>2
<1>8. PICK c2 : Runs(d, c, f[n], c2) /\ Placed(d, g0, r, bad, next, n, c2)
  BY <1>7 DEF T, Reached
<1>9. c2 \in Clients /\ c2.ended = "no" /\ c2.started /\ c2.wellFormed
  BY <1>8, Zenon DEF Placed
<1>10. bad = {} => Carries(c2, r) /\ (Ordered(d) => AllClosed(c2))
  BY <1>8, PlacedCarries DEF n
<1>11. Complete(d, r, bad, c2)
  BY <1>9, <1>10, Zenon DEF Complete
<1> HIDE DEF parts
<1> QED
  BY <1>2, <1>4, <1>8, <1>11

\* Before the first of them the SDK has the text and what was announced.
LEMMA PlacedStart ==
    ASSUME NEW d, NEW h, NEW c, Agrees(d, h, c), c.started, NEW g0 \in Generators, g0.calls = h.calls,
           NEW r \in Answers, c.text = r.text, NEW bad, NEW next \in Nat,
           Ordered(d) => h.block = None /\ next = h.next,
           ~Ordered(d) => \A x \in DOMAIN g0.calls : g0.calls[x].at < next
    PROVE  Placed(d, g0, r, bad, next, 0, c)
<1>1. c \in Clients /\ c.ended = "no" /\ c.wellFormed /\ ItemsMatch(d, h, c.items)
  BY DEF Agrees
<1>2. Free(g0, r, bad, next, 0) = next
  BY FreeProperties
<1>3. CallsMatch(d, g0.calls, c.items)
  BY <1>1 DEF ItemsMatch
<1>4. \A x \in Good(r, bad) : ~(x <= 0)
  <2> SUFFICES ASSUME NEW x \in Good(r, bad) PROVE ~(x <= 0)
    OBVIOUS
  <2>1. x \in Nat \ {0}
    BY GoodNumbers
  <2> QED
    BY <2>1
<1>5. IF Ordered(d) THEN DOMAIN c.items = 0 .. next - 1 ELSE \A i \in DOMAIN c.items : i < next
  BY <1>1, <1>3 DEF ItemsMatch, PlacesMatch, CallsMatch
<1>6. \A i \in DOMAIN c.items : c.items[i].of = Prose => (Ordered(d) => ~c.items[i].open)
  <2>1. \A i \in DOMAIN c.items : i \in Nat /\ c.items[i].open \in BOOLEAN
    BY <1>1, ClientFields
  <2> QED
    BY <1>1, <2>1, NoneAssumption DEF ItemsMatch, PlacesMatch
<1>7. \A i \in DOMAIN c.items : c.items[i].of # Prose
         => c.items[i].of \in DOMAIN g0.calls /\ g0.calls[c.items[i].of].at = i
  BY <1>3 DEF CallsMatch
<1>8. \A i \in DOMAIN c.items : c.items[i].of \in DOMAIN g0.calls => c.items[i].of # Prose
  BY GeneratorFields, CallProperties
<1>9. \A x \in DOMAIN g0.calls :
          /\ g0.calls[x].at \in DOMAIN c.items
          /\ c.items[g0.calls[x].at].of = x /\ c.items[g0.calls[x].at].length = g0.calls[x].length
          /\ c.items[g0.calls[x].at].open <=> (Ordered(d) => ~g0.calls[x].done)
  BY <1>3, Zenon DEF CallsMatch
<1> QED
  BY <1>1, <1>2, <1>4, <1>5, <1>6, <1>7, <1>8, <1>9, Zenon DEF Placed

-----------------------------------------------------------------------------
(* A final response.                                                       *)

\* What ends a final response: the calls up to the first bad one and a throw, or all
\* of them and the end.
LEMMA LastFrames ==
    ASSUME NEW d, NEW g0 \in Generators, NEW r \in Answers, NEW bad \in SUBSET Call, NEW next \in Nat,
           Shrunk(g0, r) \subseteq bad, Ordered(d) => Changed(g0, r) \subseteq bad, Known(g0, r),
           NEW c, NEW c1, NEW shown, Runs(d, c, shown, c1), Placed(d, g0, r, bad, next, 0, c1),
           NEW closes \in BOOLEAN, closes <=> Ordered(d)
    PROVE  LET all == shown \o FinalCalls(g0, r, next, closes, bad) IN
           /\ Continues(d, c, Throws(g0, all), r)
           /\ bad = {} => Continues(d, c, Ends(g0, Append(all, Finish)), r)
<1> DEFINE calls == FinalCalls(g0, r, next, closes, bad)
           all == shown \o calls
<1>1. PICK c2 : /\ Runs(d, c1, calls, c2)
                /\ c2 \in Clients /\ c2.ended = "no" /\ c2.started /\ c2.wellFormed
                /\ bad = {} => Carries(c2, r) /\ (Ordered(d) => AllClosed(c2))
  <2>1. \E c2 : Runs(d, c1, calls, c2) /\ Complete(d, r, bad, c2)
    BY FinalCallsProperties
  <2> HIDE DEF calls
  <2> QED
    BY <2>1, Zenon DEF Complete
<1> HIDE DEF calls
<1>2. Runs(d, c, all, c2)
  BY <1>1, RunsConcat
<1> HIDE DEF all
<1>3. Continues(d, c, Throws(g0, all), r)
  BY <1>1, <1>2, Throw
<1>4. ASSUME bad = {}
      PROVE  Continues(d, c, Ends(g0, Append(all, Finish)), r)
  <2>1. PICK c3 \in Clients : /\ Runs(d, c2, <<Finish>>, c3)
                              /\ c3.ended = "finished" /\ c3.items = c2.items /\ c3.text = c2.text
                              /\ c3.wellFormed = c2.wellFormed
    BY <1>1, <1>4, FinishStep
  <2>2. Runs(d, c, all \o <<Finish>>, c3)
    BY <1>2, <2>1, RunsConcat
  <2>3. all \o <<Finish>> = Append(all, Finish)
    <3>1. all \in Seq(Frames)
      BY <1>2 DEF Runs
    <3> QED
      BY <3>1
  <2>4. Carries(c3, r)
    BY <1>1, <1>4, <2>1 DEF Carries
  <2> DEFINE step == Ends(g0, Append(all, Finish))
  <2>5. step.frames = Append(all, Finish) /\ step.then = "done"
    BY DEF Ends
  <2> HIDE DEF step
  <2>6. Continues(d, c, step, r)
    BY <1>1, <2>1, <2>2, <2>3, <2>4, <2>5 DEF Continues
  <2> QED
    BY <2>6 DEF step
<1> QED
  BY <1>3, <1>4 DEF all, calls

\* Where items are ordered: the rest of the text and the end of its item come first.
LEMMA TextShown ==
    ASSUME NEW d, Ordered(d), NEW h, NEW c, Agrees(d, h, c), c.started, NEW r \in Answers, r.text >= h.text,
           NEW g0 \in Generators, g0.text = h.text, g0.calls = h.calls, g0.block = h.block, g0.next = h.next,
           NEW shows \in BOOLEAN, r.text > h.text => shows,
           NEW text, text = IF shows THEN WithText(g0, r.text - g0.text) ELSE [g |-> g0, frames |-> << >>]
    PROVE  \E c1, c2 : /\ Runs(d, c, text.frames, c1) /\ Runs(d, c1, CloseText(text.g), c2)
                        /\ c2 \in Clients /\ c2.ended = "no" /\ c2.wellFormed
                        /\ text.g.next \in Nat
                        /\ \A bad : Placed(d, g0, r, bad, text.g.next, 0, c2)
<1> DEFINE n == r.text - g0.text
           t == IF shows THEN WithText(h, n) ELSE [g |-> h, frames |-> << >>]
<1>1. h \in Generators /\ c \in Clients /\ h.text = c.text
  BY DEF Agrees
<1>2. n \in Nat /\ h.text + n = r.text /\ (~shows => n = 0)
  BY <1>1, GeneratorFields, AnswerFields
<1>3. h.next \in Nat
  BY <1>1, GeneratorFields
<1> HIDE DEF n
<1>4. /\ t.g.calls = h.calls /\ t.g.text = r.text
      /\ text.frames = t.frames /\ text.g.block = t.g.block /\ text.g.next = t.g.next /\ t.g.next \in Nat
  <2>1. CASE shows
    <3> DEFINE i == IF h.block = None THEN h.next ELSE h.block
               next == IF h.block = None THEN h.next + 1 ELSE h.next
               a == WithText(h, n)
               b == WithText(g0, n)
    <3>1. a.g = [h EXCEPT !.block = i, !.text = h.text + n, !.next = next]
      BY DEF WithText
    <3>2. b.g = [g0 EXCEPT !.block = i, !.text = h.text + n, !.next = next]
      BY DEF WithText
    <3>3. a.frames = b.frames
      BY DEF WithText
    <3>4. next \in Nat
      BY <1>3
    <3>5. t = a /\ text = b
      BY <2>1 DEF n
    <3> HIDE DEF i, next, a, b, t
    <3>6. a.g.calls = h.calls /\ a.g.text = h.text + n /\ a.g.block = i /\ a.g.next = next
      BY <1>1, <3>1 DEF Generators
    <3>7. b.g.block = i /\ b.g.next = next
      BY <3>2 DEF Generators
    <3> QED
      BY <1>2, <3>3, <3>4, <3>5, <3>6, <3>7
  <2>2. CASE ~shows
    <3>1. t = [g |-> h, frames |-> << >>] /\ text = [g |-> g0, frames |-> << >>]
      BY <2>2
    <3>2. h.text = r.text
      BY <1>1, <1>2, <2>2, GeneratorFields
    <3> HIDE DEF t
    <3> QED
      BY <1>3, <3>1, <3>2
  <2> QED
    BY <2>1, <2>2
<1>5. PICK c1 : Runs(d, c, t.frames, c1) /\ Agrees(d, t.g, c1) /\ c1.started
  <2>1. CASE shows
    BY <1>2, <2>1, WithTextProperties
  <2>2. CASE ~shows
    BY <1>1, <2>2, RunsEmpty
  <2> QED
    BY <2>1, <2>2
<1> HIDE DEF t
<1> DEFINE g2 == [t.g EXCEPT !.block = None]
<1>6. PICK c2 : Runs(d, c1, CloseText(t.g), c2) /\ Agrees(d, g2, c2) /\ c2.started = c1.started
  <2>1. \E c2 : /\ Runs(d, c1, CloseText(t.g), c2)
                 /\ Agrees(d, [t.g EXCEPT !.block = None], c2) /\ c2.started = c1.started
    <3> DEFINE u == t.g
    <3>1. Agrees(d, u, c1)
      BY <1>5
    <3> HIDE DEF u
    <3>2. \E c2 : /\ Runs(d, c1, CloseText(u), c2)
                   /\ Agrees(d, [u EXCEPT !.block = None], c2) /\ c2.started = c1.started
      BY <3>1, CloseTextProperties
    <3> QED
      BY <3>2, Zenon DEF u
  <2> QED
    BY <2>1, Zenon
<1>7. g2.calls = h.calls /\ g2.text = r.text /\ g2.block = None /\ g2.next = t.g.next
  BY <1>4, <1>5 DEF Agrees, Generators
<1> HIDE DEF g2
<1>8. c2 \in Clients /\ c2.ended = "no" /\ c2.wellFormed /\ c2.text = r.text
  BY <1>6, <1>7 DEF Agrees
<1>9. CloseText(text.g) = CloseText(t.g)
  BY <1>4 DEF CloseText
<1>10. ASSUME NEW bad PROVE Placed(d, g0, r, bad, text.g.next, 0, c2)
  <2>1. g0.calls = g2.calls /\ text.g.next \in Nat /\ text.g.next = g2.next
    BY <1>4, <1>7
  <2> QED
    BY <1>5, <1>6, <1>7, <1>8, <2>1, PlacedStart
<1> QED
  BY <1>4, <1>5, <1>6, <1>8, <1>9, <1>10

\* The final response of the Responses endpoint.
LEMMA ResponsesCompletes ==
    ASSUME NEW d, d = "responses", NEW c, NEW g0, Agrees(d, g0, c), NEW r \in Answers
    PROVE  Continues(d, c, ResponsesCompleted(g0, r), r)
<1> DEFINE begin == Optional(~g0.started, Begin)
           h == Live(d, g0)
           empty == r.text = 0 /\ DOMAIN r.calls = {} /\ g0.block = None
           shows == r.text > g0.text \/ empty
           text == IF shows THEN WithText(g0, r.text - g0.text) ELSE [g |-> g0, frames |-> << >>]
           shown == begin \o text.frames \o Optional(text.g.block # None, Close(text.g.block))
           bad == Shrunk(g0, r)
           all == shown \o FinalCalls(g0, r, text.g.next, TRUE, bad)
<1>1. Ordered(d) /\ g0 \in Generators /\ bad \in SUBSET Call
  BY AnswerFields DEF Ordered, Agrees, Shrunk
<1>2. PICK c0 : Runs(d, c, begin, c0) /\ Agrees(d, h, c0) /\ c0.started
  <2>1. begin = Optional(~c.started, Begin)
    BY DEF Agrees
  <2> QED
    BY <2>1, StartProperties
<1>3. h.text = g0.text /\ h.calls = g0.calls /\ h.block = g0.block /\ h.next = g0.next
  BY <1>1 DEF Live, Generators
<1>4. c0 \in Clients /\ c0.ended = "no" /\ c0.wellFormed
  BY <1>2 DEF Agrees
<1>5. Continues(d, c, Throws(g0, begin), r)
  BY <1>2, <1>4, Throw
<1>6. Continues(d, c, Throws(g0, << >>), r)
  BY ThrowAtOnce
<1>7. ASSUME ~(r.text < g0.text)
      PROVE  /\ Continues(d, c, Throws(g0, shown), r)
             /\ Known(g0, r) /\ Changed(g0, r) = {} => Continues(d, c, Throws(g0, all), r)
             /\ Known(g0, r) /\ Changed(g0, r) = {} /\ bad = {} => Continues(d, c, Ends(g0, Append(all, Finish)), r)
  <2>1. r.text >= h.text /\ shows \in BOOLEAN /\ (r.text > h.text => shows)
    BY <1>1, <1>3, <1>7, AnswerFields, GeneratorFields
  <2> HIDE DEF begin, h, shows, bad, all
  <2>2. \E c1, c2 : /\ Runs(d, c0, text.frames, c1) /\ Runs(d, c1, CloseText(text.g), c2)
                    /\ c2 \in Clients /\ c2.ended = "no" /\ c2.wellFormed
                    /\ text.g.next \in Nat
                    /\ \A b : Placed(d, g0, r, b, text.g.next, 0, c2)
    BY <1>1, <1>2, <1>3, <2>1, TextShown
  <2> HIDE DEF text
  <2>3. PICK c1, c2 : /\ Runs(d, c0, text.frames, c1) /\ Runs(d, c1, CloseText(text.g), c2)
                      /\ c2 \in Clients /\ c2.ended = "no" /\ c2.wellFormed
                      /\ text.g.next \in Nat
                      /\ \A b : Placed(d, g0, r, b, text.g.next, 0, c2)
    BY <2>2, Zenon
  <2>4. Runs(d, c, begin \o text.frames, c1)
    BY <1>2, <2>3, RunsConcat
  <2>5. Runs(d, c, begin \o text.frames \o CloseText(text.g), c2)
    BY <2>3, <2>4, RunsConcat
  <2>6. Runs(d, c, shown, c2)
    BY <2>5 DEF CloseText
  <2> HIDE DEF shown
  <2>7. Continues(d, c, Throws(g0, shown), r)
    BY <2>3, <2>6, Throw
  <2>8. ASSUME Known(g0, r), Changed(g0, r) = {}
        PROVE  /\ Continues(d, c, Throws(g0, all), r)
               /\ bad = {} => Continues(d, c, Ends(g0, Append(all, Finish)), r)
    <3>1. Shrunk(g0, r) \subseteq bad /\ Changed(g0, r) \subseteq bad /\ TRUE \in BOOLEAN /\ (TRUE <=> Ordered(d))
      BY <1>1, <2>8 DEF bad
    <3>2. Placed(d, g0, r, bad, text.g.next, 0, c2) /\ text.g.next \in Nat
      BY <2>3
    <3> QED
      BY <1>1, <2>6, <2>8, <3>1, <3>2, LastFrames DEF all
  <2> QED
    BY <2>7, <2>8
<1>8. ResponsesCompleted(g0, r)
        = IF r.stop = "cancelled" THEN Throws(g0, << >>)
          ELSE IF r.text < g0.text THEN Throws(g0, begin)
          ELSE IF ~Known(g0, r) \/ Changed(g0, r) # {} THEN Throws(g0, shown)
          ELSE IF bad # {} \/ ~r.sound THEN Throws(g0, all)
          ELSE Ends(g0, Append(all, Finish))
  BY Zenon DEF ResponsesCompleted
<1> HIDE DEF begin, shown, bad, all
<1> QED
  BY <1>5, <1>6, <1>7, <1>8

\* The final response of the Messages endpoint.
LEMMA MessagesCompletes ==
    ASSUME NEW d, d = "messages", NEW c, NEW g0, Agrees(d, g0, c), NEW r \in Answers
    PROVE  Continues(d, c, MessagesCompleted(g0, r), r)
<1> DEFINE begin == EnsureStarted(g0)
           h == OnWire(g0)
           shows == r.text > g0.text
           text == IF shows THEN WithText(g0, r.text - g0.text) ELSE [g |-> g0, frames |-> << >>]
           shown == begin \o text.frames \o CloseText(text.g)
           bad == Shrunk(g0, r) \cup Changed(g0, r)
           all == shown \o FinalCalls(g0, r, text.g.next, TRUE, bad)
<1>1. Ordered(d) /\ g0 \in Generators /\ bad \in SUBSET Call
  BY AnswerFields DEF Ordered, Agrees, Shrunk, Changed
<1>2. PICK c0 : Runs(d, c, begin, c0) /\ Agrees(d, h, c0) /\ c0.started
  BY EnsureStartedProperties
<1>3. h.text = g0.text /\ h.calls = g0.calls /\ h.block = g0.block /\ h.next = g0.next
  BY <1>1 DEF OnWire, Generators
<1>4. c0 \in Clients /\ c0.ended = "no" /\ c0.wellFormed
  BY <1>2 DEF Agrees
<1>5. Continues(d, c, Throws(g0, begin), r)
  BY <1>2, <1>4, Throw
<1>6. Continues(d, c, Throws(g0, << >>), r)
  BY ThrowAtOnce
<1>7. ASSUME ~(r.text < g0.text)
      PROVE  /\ Continues(d, c, Throws(g0, shown), r)
             /\ Known(g0, r) => Continues(d, c, Throws(g0, all), r)
             /\ Known(g0, r) /\ bad = {} => Continues(d, c, Ends(g0, Append(all, Finish)), r)
  <2>1. r.text >= h.text /\ shows \in BOOLEAN /\ (r.text > h.text => shows)
    BY <1>1, <1>3, <1>7, AnswerFields, GeneratorFields
  <2> HIDE DEF begin, h, shows, bad, all
  <2>2. \E c1, c2 : /\ Runs(d, c0, text.frames, c1) /\ Runs(d, c1, CloseText(text.g), c2)
                    /\ c2 \in Clients /\ c2.ended = "no" /\ c2.wellFormed
                    /\ text.g.next \in Nat
                    /\ \A b : Placed(d, g0, r, b, text.g.next, 0, c2)
    BY <1>1, <1>2, <1>3, <2>1, TextShown
  <2> HIDE DEF text
  <2>3. PICK c1, c2 : /\ Runs(d, c0, text.frames, c1) /\ Runs(d, c1, CloseText(text.g), c2)
                      /\ c2 \in Clients /\ c2.ended = "no" /\ c2.wellFormed
                      /\ text.g.next \in Nat
                      /\ \A b : Placed(d, g0, r, b, text.g.next, 0, c2)
    BY <2>2, Zenon
  <2>4. Runs(d, c, begin \o text.frames, c1)
    BY <1>2, <2>3, RunsConcat
  <2>5. Runs(d, c, shown, c2)
    BY <2>3, <2>4, RunsConcat
  <2> HIDE DEF shown
  <2>6. Continues(d, c, Throws(g0, shown), r)
    BY <2>3, <2>5, Throw
  <2>7. ASSUME Known(g0, r)
        PROVE  /\ Continues(d, c, Throws(g0, all), r)
               /\ bad = {} => Continues(d, c, Ends(g0, Append(all, Finish)), r)
    <3>1. Shrunk(g0, r) \subseteq bad /\ Changed(g0, r) \subseteq bad /\ TRUE \in BOOLEAN /\ (TRUE <=> Ordered(d))
      BY <1>1 DEF bad
    <3>2. Placed(d, g0, r, bad, text.g.next, 0, c2) /\ text.g.next \in Nat
      BY <2>3
    <3> QED
      BY <1>1, <2>5, <2>7, <3>1, <3>2, LastFrames DEF all
  <2> QED
    BY <2>6, <2>7
<1>8. MessagesCompleted(g0, r)
        = IF r.stop = "cancelled" THEN Throws(g0, << >>)
          ELSE IF ~(g0.wire \/ g0.usage \/ r.usage) THEN Throws(g0, << >>)
          ELSE IF ~r.sound \/ r.text < g0.text THEN Throws(g0, begin)
          ELSE IF ~Known(g0, r) THEN Throws(g0, shown)
          ELSE IF bad # {} \/ ~r.usage THEN Throws(g0, all)
          ELSE Ends(g0, Append(all, Finish))
  BY Zenon DEF MessagesCompleted
<1> HIDE DEF begin, shown, bad, all
<1> QED
  BY <1>5, <1>6, <1>7, <1>8

\* The places of the announced calls are below the next free one.
LEMMA ChatNextPlace ==
    ASSUME NEW g0 \in Generators,
           NEW taken, taken = {g0.calls[x].at : x \in DOMAIN g0.calls},
           NEW next, next = IF taken = {} THEN 0 ELSE Max(taken) + 1
    PROVE  next \in Nat /\ \A x \in DOMAIN g0.calls : g0.calls[x].at < next
<1> DEFINE n == Cardinality(Call)
           Bounds(k, b) == \A x \in DOMAIN g0.calls : x <= k => g0.calls[x].at <= b
           T == {k \in 0 .. n : \E b \in Nat : Bounds(k, b)}
<1>1. n \in Nat /\ Call = 1 .. n
  BY CallAssumption, FS_CardinalityType
<1>2. DOMAIN g0.calls \subseteq Call /\ \A x \in DOMAIN g0.calls : g0.calls[x].at \in Nat
  BY GeneratorFields
<1>3. \A x \in DOMAIN g0.calls : x \in Nat \ {0} /\ x <= n
  BY <1>1, <1>2
<1> HIDE DEF n
<1>4. 0 \in T
  <2>1. Bounds(0, 0)
    BY <1>3
  <2> QED
    BY <1>1, <2>1
<1>5. ASSUME NEW k \in 0 .. n, k \in T, k < n
      PROVE  k + 1 \in T
  <2>1. PICK b \in Nat : Bounds(k, b)
    BY <1>5
  <2>2. \A x \in DOMAIN g0.calls : x <= k + 1 => x <= k \/ x = k + 1
    BY <1>3
  <2>3. \E m \in Nat : Bounds(k + 1, m)
    <3>1. CASE k + 1 \notin DOMAIN g0.calls
      BY <2>1, <2>2, <3>1
    <3>2. CASE k + 1 \in DOMAIN g0.calls
      <4> DEFINE a == g0.calls[k + 1].at
                 m == IF a <= b THEN b ELSE a
      <4>1. a \in Nat /\ m \in Nat /\ a <= m /\ b <= m
        BY <1>2, <3>2
      <4>2. ASSUME NEW x \in DOMAIN g0.calls, x <= k + 1 PROVE g0.calls[x].at <= m
        <5>1. CASE x = k + 1
          BY <4>1, <5>1
        <5>2. CASE x # k + 1
          <6>1. g0.calls[x].at <= b /\ g0.calls[x].at \in Nat
            BY <1>2, <2>1, <2>2, <4>2, <5>2
          <6> HIDE DEF m
          <6> QED
            BY <4>1, <6>1
        <5> QED
          BY <5>1, <5>2
      <4> QED
        BY <4>1, <4>2
    <3> QED
      BY <3>1, <3>2
  <2>4. k + 1 \in 0 .. n
    BY <1>1, <1>5
  <2> HIDE DEF Bounds
  <2> QED
    BY <2>3, <2>4
<1> HIDE DEF T
<1>6. n \in T
  <2>1. \A k \in 0 .. n : k \in T /\ k < n => k + 1 \in T
    BY <1>5
  <2>2. 0 .. n \subseteq T
    BY <1>1, <1>4, <2>1, UpTo, Zenon
  <2> QED
    BY <1>1, <2>2
<1>7. PICK b \in Nat : \A x \in DOMAIN g0.calls : g0.calls[x].at <= b
  BY <1>3, <1>6 DEF T
<1>8. taken \subseteq Nat /\ \A y \in taken : y <= b
  BY <1>2, <1>7
<1>9. CASE taken = {}
  BY <1>9
<1>10. CASE taken # {}
  <2>1. Max(taken) \in taken /\ \A y \in taken : Max(taken) >= y
    BY <1>8, <1>10, GreatestElement
  <2>2. next = Max(taken) + 1
    BY <1>10
  <2>3. \A x \in DOMAIN g0.calls : g0.calls[x].at \in taken
    OBVIOUS
  <2>4. \A x \in DOMAIN g0.calls : g0.calls[x].at \in Nat /\ Max(taken) >= g0.calls[x].at
    BY <1>8, <2>1, <2>3, Zenon
  <2>5. Max(taken) \in Nat
    BY <1>8, <2>1, Zenon
  <2>6. (\A z \in Nat : z + 1 \in Nat) /\ (\A y, z \in Nat : z >= y => y < z + 1)
    OBVIOUS
  <2>7. Max(taken) + 1 \in Nat /\ \A x \in DOMAIN g0.calls : g0.calls[x].at < Max(taken) + 1
    BY <2>4, <2>5, <2>6, Zenon
  <2> QED
    BY <2>2, <2>7, Zenon
<1> QED
  BY <1>9, <1>10

\* The final response of the Chat Completions endpoint.
LEMMA ChatCompletes ==
    ASSUME NEW d, ~Ordered(d), NEW c, NEW g0, Agrees(d, g0, c), NEW r \in Answers, NEW includeUsage
    PROVE  Continues(d, c, ChatCompleted(g0, r, includeUsage), r)
<1> DEFINE begin == Optional(~g0.started, Begin)
           h == Live(d, g0)
           n == r.text - g0.text
           taken == {g0.calls[x].at : x \in DOMAIN g0.calls}
           next == IF taken = {} THEN 0 ELSE Max(taken) + 1
           text == Optional(r.text > g0.text, Text(n))
           shown == begin \o text
           bad == Shrunk(g0, r)
           all == shown \o FinalCalls(g0, r, next, FALSE, bad)
<1>1. g0 \in Generators /\ bad \in SUBSET Call /\ d # "messages"
  BY AnswerFields DEF Ordered, Agrees, Shrunk
<1>2. PICK c0 : Runs(d, c, begin, c0) /\ Agrees(d, h, c0) /\ c0.started
  <2>1. begin = Optional(~c.started, Begin)
    BY <1>1 DEF Agrees
  <2> QED
    BY <2>1, StartProperties
<1>3. h.text = g0.text /\ h.calls = g0.calls /\ h.started = TRUE
  BY <1>1 DEF Live, Generators
<1>4. c0 \in Clients /\ c0.ended = "no" /\ c0.wellFormed /\ c0.text = g0.text /\ g0.text \in Nat
  BY <1>1, <1>2, <1>3, GeneratorFields DEF Agrees
<1>5. Continues(d, c, Throws(g0, begin), r)
  BY <1>2, <1>4, Throw
<1>6. next \in Nat /\ \A x \in DOMAIN g0.calls : g0.calls[x].at < next
  BY <1>1, ChatNextPlace
<1>7. ASSUME ~(r.text < g0.text)
      PROVE  /\ Continues(d, c, Throws(g0, shown), r)
             /\ Known(g0, r) => Continues(d, c, Throws(g0, all), r)
             /\ Known(g0, r) /\ bad = {} => Continues(d, c, Ends(g0, Append(all, Finish)), r)
  <2>1. n \in Nat /\ g0.text + n = r.text /\ (~(r.text > g0.text) => r.text = g0.text)
    BY <1>4, <1>7, AnswerFields
  <2> HIDE DEF begin, h, n, bad, all, next
  <2> DEFINE h2 == [h EXCEPT !.text = r.text]
  <2>2. PICK c2 : /\ Runs(d, c0, text, c2) /\ Agrees(d, h2, c2) /\ c2.started
    <3>1. PICK c2 : /\ Runs(d, c0, text, c2) /\ GoesOn(c0, c2)
                    /\ c2.started /\ c2.items = c0.items /\ c2.text = r.text
      <4>1. CASE r.text > g0.text
        <5>1. text = <<Text(n)>>
          BY <4>1 DEF Optional
        <5>2. PICK c2 : /\ Runs(d, c0, <<Text(n)>>, c2) /\ GoesOn(c0, c2)
                        /\ c2.started /\ c2.items = c0.items /\ c2.text = c0.text + n
          BY <1>2, <1>4, <2>1, TextStep
        <5> QED
          BY <1>4, <2>1, <5>1, <5>2
      <4>2. CASE ~(r.text > g0.text)
        <5>1. text = << >>
          BY <4>2 DEF Optional
        <5> QED
          BY <1>2, <1>4, <2>1, <4>2, <5>1, RunsEmpty DEF GoesOn
      <4> QED
        BY <4>1, <4>2
    <3>2. r.text \in Nat /\ h \in Generators
      BY <1>2, AnswerFields DEF Agrees
    <3>3. /\ h2 \in Generators /\ h2.text = r.text /\ h2.started = h.started /\ h2.calls = h.calls
          /\ h2.next = h.next /\ h2.block = h.block /\ h2.wire = h.wire
      BY <3>2 DEF Generators
    <3> HIDE DEF h2
    <3>4. c2.started = TRUE
      BY <3>1, ClientFields DEF GoesOn
    <3>5. Agrees(d, h2, c2)
      BY <1>1, <1>2, <1>3, <3>1, <3>3, <3>4 DEF Agrees, GoesOn, ItemsMatch
    <3> QED
      BY <3>1, <3>5
  <2>3. h2.calls = g0.calls /\ h2.text = r.text
    BY <1>2, <1>3 DEF Agrees, Generators
  <2> HIDE DEF h2, text
  <2>4. Runs(d, c, shown, c2)
    BY <1>2, <2>2, RunsConcat
  <2> HIDE DEF shown
  <2>5. c2 \in Clients /\ c2.ended = "no" /\ c2.wellFormed /\ c2.text = r.text
    BY <2>2, <2>3 DEF Agrees
  <2>6. Continues(d, c, Throws(g0, shown), r)
    BY <2>4, <2>5, Throw
  <2>7. ASSUME Known(g0, r)
        PROVE  /\ Continues(d, c, Throws(g0, all), r)
               /\ bad = {} => Continues(d, c, Ends(g0, Append(all, Finish)), r)
    <3>1. Shrunk(g0, r) \subseteq bad /\ FALSE \in BOOLEAN /\ (FALSE <=> Ordered(d))
      BY <1>1 DEF bad
    <3>2. Placed(d, g0, r, bad, next, 0, c2)
      BY <1>1, <1>6, <2>2, <2>3, <2>5, PlacedStart
    <3> QED
      BY <1>1, <1>6, <2>4, <2>7, <3>1, <3>2, LastFrames DEF all
  <2> QED
    BY <2>6, <2>7
<1>8. ChatCompleted(g0, r, includeUsage)
        = IF ~r.sound \/ r.text < g0.text THEN Throws(g0, begin)
          ELSE IF ~Known(g0, r) THEN Throws(g0, shown)
          ELSE IF bad # {} \/ (includeUsage /\ ~r.usage) THEN Throws(g0, all)
          ELSE Ends(g0, Append(all, Finish))
  BY Zenon DEF ChatCompleted
<1> HIDE DEF begin, shown, bad, all
<1> QED
  BY <1>5, <1>7, <1>8

-----------------------------------------------------------------------------
\* One turn of the loop of the request's endpoint, whatever the event is.
LEMMA TranslateContinues ==
    ASSUME NEW d \in {"responses", "chat", "chat with usage", "messages"}, NEW c, NEW g0, Agrees(d, g0, c),
           NEW e \in Events, NEW r, e.type = "completed" => r = e
    PROVE  Continues(d, c, Translate(d, g0, e), r)
<1>1. e.type = "completed" => e \in Answers
  BY EventFields
<1>2. ASSUME d = "responses" PROVE Continues(d, c, Responses(g0, e), r)
  <2>1. CASE e.type = "completed"
    <3>1. Responses(g0, e) = ResponsesCompleted(g0, r)
      BY <2>1 DEF Responses
    <3> QED
      BY <1>1, <1>2, <2>1, <3>1, ResponsesCompletes
  <2>2. CASE e.type # "completed"
    BY <1>2, <2>2, ResponsesContinues
  <2> QED
    BY <2>1, <2>2
<1>3. ASSUME NEW includeUsage, ~Ordered(d) PROVE Continues(d, c, Chat(g0, e, includeUsage), r)
  <2>1. CASE e.type = "completed"
    <3>1. Chat(g0, e, includeUsage) = ChatCompleted(g0, r, includeUsage)
      BY <2>1 DEF Chat
    <3> QED
      BY <1>1, <1>3, <2>1, <3>1, ChatCompletes
  <2>2. CASE e.type # "completed"
    BY <1>3, <2>2, ChatContinues
  <2> QED
    BY <2>1, <2>2
<1>4. ASSUME d = "messages" PROVE Continues(d, c, Messages(g0, e), r)
  <2>1. CASE e.type = "completed"
    <3>1. Messages(g0, e) = MessagesCompleted(g0, r)
      BY <2>1 DEF Messages
    <3> QED
      BY <1>1, <1>4, <2>1, <3>1, MessagesCompletes
  <2>2. CASE e.type # "completed"
    BY <1>4, <2>2, MessagesContinues
  <2> QED
    BY <2>1, <2>2
<1>5. d \in {"chat", "chat with usage"} => ~Ordered(d)
  BY DEF Ordered
<1> QED
  BY <1>2, <1>3, <1>4, <1>5, Zenon DEF Translate

-----------------------------------------------------------------------------
(* The wire.                                                               *)

\* What is queued is legal for the SDK and leads to a state that agrees with the
\* generator while its loop goes on, that has not ended when the loop throws, and
\* that is a success only with the whole answer.
Leads(d, c, q, do, g0, r) ==
    \E last \in Clients :
        /\ Runs(d, c, q, last) /\ last.wellFormed
        /\ do = "more" => Agrees(d, g0, last)
        /\ do = "throw" => last.ended = "no"
        /\ last.ended = "finished" => Carries(last, r)

\* A release that rejected may have made a loop throw that had ended.
Does == IF source = "failed" THEN "done" ELSE then

\* A frame reaches the SDK only while the request is not aborted.
WireInv ==
    /\ client \in Clients /\ client.wellFormed
    /\ client.ended = "finished" => Carries(client, answer)
    /\ client.ended = "broken" => source = "failed"
    /\ cancelling \/ pull = "return" => aborted
    /\ ~aborted => Leads(dialect, client, queue, Does, g, answer)

\* The SDK a sequence of frames starts from.
LEMMA RunsFrom ==
    ASSUME NEW d, NEW c, NEW q, NEW to, Runs(d, c, q, to)
    PROVE  c \in Clients
<1>1. PICK p : Path(d, q, p) /\ p[0] = c
  BY DEF Runs
<1>2. q \in Seq(Frames)
  BY DEF Runs
<1>3. p \in [0 .. Len(q) -> Clients] /\ 0 \in 0 .. Len(q)
  BY <1>1, <1>2 DEF Path
<1> QED
  BY <1>1, <1>3

\* Nothing follows the end of a stream.
LEMMA RunsEnded ==
    ASSUME NEW d, NEW c, NEW q, NEW to, Runs(d, c, q, to), c.ended # "no"
    PROVE  q = << >> /\ to = c
<1>1. q = << >>
  <2> SUFFICES ASSUME q # << >> PROVE FALSE
    OBVIOUS
  <2>1. Legal(d, c, Head(q))
    BY RunsHead
  <2> QED
    BY <2>1 DEF Legal
<1> QED
  BY <1>1, RunsNowhere

\* A legal frame leaves the SDK well-formed.
LEMMA StaysWellFormed ==
    ASSUME NEW c \in Clients, NEW f
    PROVE  Assembled(c, f).wellFormed = c.wellFormed
  BY DEF Assembled, Clients

\* Only an error frame after the end breaks a stream.
LEMMA AssembledEnds ==
    ASSUME NEW c \in Clients, NEW f, c.ended # "broken"
    PROVE  Assembled(c, f).ended # "broken"
  BY DEF Assembled, Clients

\* Whatever a loop does with an event, that is what its queue leads to.
LEMMA ContinuesLeads ==
    ASSUME NEW d, NEW c, NEW step, NEW r, Continues(d, c, step, r)
    PROVE  Leads(d, c, step.frames, step.then, step.g, r)
  BY DEF Continues, Leads

\* The next frame of a queue is legal, and the rest leads on.
LEMMA LeadsHead ==
    ASSUME NEW d, NEW c, NEW q, NEW do, NEW g0, NEW r, Leads(d, c, q, do, g0, r), q # << >>, c.wellFormed
    PROVE  /\ Legal(d, c, Head(q))
           /\ Assembled(c, Head(q)) \in Clients /\ Assembled(c, Head(q)).wellFormed
           /\ Assembled(c, Head(q)).ended = "finished" => Carries(Assembled(c, Head(q)), r)
           /\ Leads(d, Assembled(c, Head(q)), Tail(q), do, g0, r)
<1> DEFINE c1 == Assembled(c, Head(q))
<1>1. PICK last \in Clients :
         /\ Runs(d, c, q, last) /\ last.wellFormed
         /\ do = "more" => Agrees(d, g0, last)
         /\ do = "throw" => last.ended = "no"
         /\ last.ended = "finished" => Carries(last, r)
  BY DEF Leads
<1>2. Legal(d, c, Head(q)) /\ Runs(d, c1, Tail(q), last)
  BY <1>1, RunsHead
<1>3. c1 \in Clients /\ c1.wellFormed
  <2>1. c1 \in Clients /\ c \in Clients
    BY <1>1, <1>2, RunsFrom
  <2> QED
    BY <2>1, StaysWellFormed
<1> HIDE DEF c1
<1>4. c1.ended = "finished" => Carries(c1, r)
  <2> SUFFICES ASSUME c1.ended = "finished" PROVE Carries(c1, r)
    OBVIOUS
  <2>1. last = c1
    BY <1>2, RunsEnded
  <2> QED
    BY <1>1, <2>1
<1>5. Leads(d, c1, Tail(q), do, g0, r)
  BY <1>1, <1>2 DEF Leads
<1> QED
  BY <1>2, <1>3, <1>4, <1>5 DEF c1

\* A queue that is empty has led to where it leads.
LEMMA LeadsNowhere ==
    ASSUME NEW d, NEW c, NEW do, NEW g0, NEW r, Leads(d, c, << >>, do, g0, r)
    PROVE  /\ do = "more" => Agrees(d, g0, c)
           /\ do = "throw" => c.ended = "no"
<1>1. PICK last \in Clients :
         /\ Runs(d, c, << >>, last)
         /\ do = "more" => Agrees(d, g0, last)
         /\ do = "throw" => last.ended = "no"
  BY DEF Leads
<1>2. last = c
  BY <1>1, RunsNowhere
<1> QED
  BY <1>1, <1>2

\* A loop that goes on may still throw or end with nothing more.
LEMMA LeadsElsewhere ==
    ASSUME NEW d, NEW c, NEW do, NEW g0, NEW r, Leads(d, c, << >>, "more", g0, r),
           NEW do2 \in {"throw", "done"}, NEW g2, NEW r2
    PROVE  Leads(d, c, << >>, do2, g2, r2)
<1>1. Agrees(d, g0, c)
  BY LeadsNowhere
<1>2. c \in Clients /\ c.wellFormed /\ c.ended = "no"
  BY <1>1 DEF Agrees
<1>3. Runs(d, c, << >>, c)
  BY <1>2, RunsEmpty
<1> QED
  BY <1>2, <1>3 DEF Leads

\* Less may be claimed of where a queue leads.
LEMMA LeadsAnyway ==
    ASSUME NEW d, NEW c, NEW q, NEW do, NEW g0, NEW r, Leads(d, c, q, do, g0, r)
    PROVE  Leads(d, c, q, "done", g0, r)
  BY DEF Leads

\* A session that is released, with or without an error, or given up with the loop.
LEMMA DoesAfter ==
    ASSUME NEW d, NEW c, NEW q, NEW g0, NEW r, Leads(d, c, q, Does, g0, r),
           then' = then \/ then' = "done", source' = source \/ source' = "failed" \/ source # "failed"
    PROVE  Leads(d, c, q, Does', g0, r)
<1>1. Does' = Does \/ Does' = "done"
  BY DEF Does
<1> QED
  BY <1>1, LeadsAnyway

\* The generators and the SDK start with nothing.
LEMMA NothingAgrees ==
    ASSUME NEW d
    PROVE  Agrees(d, Fresh, Nothing)
<1> DEFINE items == Nothing.items
           calls == Fresh.calls
<1>1. DOMAIN items = {} /\ DOMAIN calls = {} /\ items = << >> /\ calls = << >>
  BY DEF Nothing, Fresh
<1>2. << >> \in [{} -> Progress] /\ << >> \in [{} -> Items]
  OBVIOUS
<1>3. << >> \in UNION {[S -> Progress] : S \in SUBSET Call} /\ << >> \in UNION {[S -> Items] : S \in SUBSET Nat}
  <2>1. {} \in SUBSET Call /\ {} \in SUBSET Nat
    OBVIOUS
  <2> QED
    BY <1>2, <2>1
<1>4. Fresh \in Generators
  BY <1>3 DEF Fresh, Generators
<1>5. Nothing \in Clients
  BY <1>3 DEF Nothing, Clients
<1>6. ItemsMatch(d, Fresh, items)
  <2>1. CallsMatch(d, calls, items)
    BY <1>1 DEF CallsMatch
  <2>2. PlacesMatch(Fresh.next, Fresh.block, items)
    <3>1. Fresh.next = 0 /\ Fresh.block = None /\ 0 .. 0 - 1 = {}
      BY DEF Fresh
    <3> QED
      BY <1>1, <3>1 DEF PlacesMatch
  <2> QED
    BY <1>1, <2>1, <2>2 DEF ItemsMatch
<1> QED
  BY <1>4, <1>5, <1>6 DEF Agrees, Fresh, Nothing

\* A request starts with nothing.
LEMMA WireInit == Init => WireInv
<1> SUFFICES ASSUME Init PROVE WireInv
  OBVIOUS
<1>1. Agrees(dialect, g, client) /\ queue = << >>
  BY NothingAgrees DEF Init
<1>2. client \in Clients /\ client.wellFormed /\ client.ended = "no"
  BY <1>1 DEF Agrees
<1>3. Runs(dialect, client, << >>, client)
  BY <1>2, RunsEmpty
<1>4. Does = "more" /\ ~cancelling /\ pull = "idle"
  BY DEF Init, Does
<1>5. Leads(dialect, client, queue, Does, g, answer)
  BY <1>1, <1>2, <1>3, <1>4 DEF Leads
<1> QED
  BY <1>2, <1>4, <1>5 DEF WireInv

\* handleFetch up to the backend's answer to a request that is not streamed.
LEMMA WireRequestSteps ==
    ASSUME StreamInductive, WireInv,
           \/ Unresolved \/ Parsed \/ Executed
           \/ \E r \in Answers : Completed(r)
           \/ \E next \in {"refused", "rejected"} : CompletionFails(next)
    PROVE  WireInv'
<1> USE DEF generator, callbacks
<1>1. CASE Unresolved \/ Parsed \/ Executed
  <2>1. UNCHANGED <<dialect, aborted, g, queue, then, answer, client, pull, cancelling>>
    BY <1>1 DEF Unresolved, Parsed, Executed
  <2>2. source' = source \/ source # "failed"
    BY <1>1 DEF Unresolved, Parsed, Executed, StreamInductive, RequestInv
  <2>3. source = "failed" => source' = "failed"
    BY <2>2
  <2>4. ~aborted => Leads(dialect, client, queue, Does', g, answer)
    BY <2>1, <2>2, DoesAfter DEF WireInv
  <2> QED
    BY <2>1, <2>3, <2>4 DEF WireInv
<1>2. ASSUME NEW r \in Answers, Completed(r)
      PROVE  WireInv'
  <2>1. UNCHANGED <<dialect, aborted, g, queue, then, client, pull, cancelling>> /\ source = "open"
    BY <1>2 DEF Completed
  <2>2. queue = << >> /\ client.ended = "no"
    BY <1>2 DEF StreamInductive, RequestInv, Completed
  <2>3. ASSUME ~aborted PROVE Leads(dialect, client, queue, Does', g, answer')
    <3>1. PICK last \in Clients :
             /\ Runs(dialect, client, queue, last) /\ last.wellFormed
             /\ Does = "more" => Agrees(dialect, g, last)
             /\ Does = "throw" => last.ended = "no"
      BY <2>3 DEF WireInv, Leads
    <3>2. last = client
      BY <2>2, <3>1, RunsNowhere
    <3>3. Does' = Does \/ Does' = "done"
      BY <2>1 DEF Does
    <3> QED
      BY <2>2, <3>1, <3>2, <3>3 DEF Leads
  <2> QED
    BY <2>1, <2>2, <2>3 DEF WireInv
<1>3. ASSUME NEW next \in {"refused", "rejected"}, CompletionFails(next)
      PROVE  WireInv'
  <2>1. UNCHANGED <<dialect, aborted, g, queue, then, answer, client, pull, cancelling>> /\ source = "open"
    BY <1>3 DEF CompletionFails
  <2>2. ~aborted => Leads(dialect, client, queue, Does', g, answer)
    BY <2>1, DoesAfter DEF WireInv
  <2> QED
    BY <2>1, <2>2 DEF WireInv
<1> QED
  BY <1>1, <1>2, <1>3

\* The steps of the body that give the SDK no frame and take no event.
LEMMA WireQuietSteps ==
    ASSUME StreamInductive, WireInv,
           Pull \/ SourceFails \/ Done \/ ReleaseRejects \/ Returned \/ Cancelled \/ Cancel \/ Abort
    PROVE  WireInv'
<1> USE DEF generator, callbacks
<1>1. UNCHANGED <<dialect, client, queue, g, answer>>
  BY DEF Pull, SourceFails, Done, ReleaseRejects, Returned, Cancelled, Cancel, Abort
<1>2. source = "failed" => source' = "failed"
  BY DEF Pull, SourceFails, Done, ReleaseRejects, Returned, Cancelled, Cancel, Abort, Release
<1>3. aborted => aborted'
  BY DEF Pull, SourceFails, Done, ReleaseRejects, Returned, Cancelled, Cancel, Abort, Catch
<1>4. cancelling' \/ pull' = "return" => aborted'
  BY DEF Pull, SourceFails, Done, ReleaseRejects, Returned, Cancelled, Cancel, Abort, Catch, WireInv
<1>5. ~aborted => Leads(dialect, client, queue, Does', g, answer)
  <2> SUFFICES ASSUME ~aborted PROVE Leads(dialect, client, queue, Does', g, answer)
    OBVIOUS
  <2>1. Leads(dialect, client, queue, Does, g, answer)
    BY DEF WireInv
  <2>2. CASE SourceFails
    <3>1. queue = << >> /\ Does = "more"
      BY <2>2 DEF SourceFails, Does
    <3>2. Does' \in {"throw", "done"}
      BY <2>2 DEF SourceFails, Does
    <3> QED
      BY <2>1, <3>1, <3>2, LeadsElsewhere
  <2>3. CASE ReleaseRejects
    <3>1. Does' = "done"
      BY <2>3 DEF ReleaseRejects, Does
    <3> QED
      BY <2>1, <3>1, LeadsAnyway
  <2>4. CASE Pull \/ Done \/ Returned \/ Cancelled \/ Cancel \/ Abort
    <3>1. then' = then \/ then' = "done"
      BY <2>4 DEF Pull, Done, Returned, Cancelled, Cancel, Abort
    <3> QED
      BY <1>2, <2>1, <3>1, DoesAfter
  <2> QED
    BY <2>2, <2>3, <2>4
<1> QED
  BY <1>1, <1>2, <1>3, <1>4, <1>5 DEF WireInv

\* The backend's next event is translated.
LEMMA WireEventStep ==
    ASSUME StreamInductive, WireInv, NEW e \in Events, Event(e)
    PROVE  WireInv'
<1> DEFINE step == Translate(dialect, g, e)
<1>1. /\ queue = << >> /\ then = "more" /\ source = "open"
      /\ queue' = step.frames /\ then' = step.then /\ g' = step.g
      /\ answer' = (IF e.type = "completed" THEN e ELSE answer)
      /\ UNCHANGED <<dialect, client, aborted, pull, cancelling, source>>
  BY DEF Event, callbacks
<1>2. client.ended # "finished" /\ Does = "more" /\ Does' = step.then
  BY <1>1 DEF StreamInductive, SuccessInv, Does
<1>3. ASSUME ~aborted
      PROVE  Leads(dialect, client, queue', Does', g', answer')
  <2>1. Agrees(dialect, g, client)
    BY <1>1, <1>2, <1>3, LeadsNowhere DEF WireInv
  <2>2. dialect \in {"responses", "chat", "chat with usage", "messages"}
    BY DialectAssumption DEF StreamInductive, RequestInv
  <2>3. e.type = "completed" => answer' = e
    BY <1>1
  <2>4. Continues(dialect, client, step, answer')
    BY <2>1, <2>2, <2>3, TranslateContinues, Zenon
  <2> HIDE DEF step
  <2> QED
    BY <1>1, <1>2, <2>4, ContinuesLeads
<1> HIDE DEF step
<1> QED
  BY <1>1, <1>2, <1>3 DEF WireInv

\* The frames that reach the SDK.
LEMMA WireFrameSteps ==
    ASSUME StreamInductive, WireInv, Frame \/ Thrown
    PROVE  WireInv'
<1> USE DEF generator, callbacks
<1>1. CASE Frame
  <2>1. /\ queue # << >> /\ queue' = Tail(queue)
        /\ UNCHANGED <<dialect, g, then, answer, cancelling, source, Does>>
    BY <1>1 DEF Frame, Does
  <2>2. CASE aborted
    BY <1>1, <2>1, <2>2 DEF Frame, Catch, WireInv
  <2>3. CASE ~aborted
    <3>1. pull' = "idle" /\ aborted' = aborted /\ Enqueue(Head(queue))
      BY <1>1, <2>3 DEF Frame
    <3>2. Leads(dialect, client, queue, Does, g, answer) /\ client.wellFormed /\ ~cancelling
      BY <2>3 DEF WireInv
    <3>3. /\ Legal(dialect, client, Head(queue))
          /\ Assembled(client, Head(queue)) \in Clients /\ Assembled(client, Head(queue)).wellFormed
          /\ Assembled(client, Head(queue)).ended = "finished" => Carries(Assembled(client, Head(queue)), answer)
          /\ Leads(dialect, Assembled(client, Head(queue)), Tail(queue), Does, g, answer)
      BY <2>1, <3>2, LeadsHead
    <3>4. client' = Assembled(client, Head(queue))
      BY <3>1, <3>3 DEF Enqueue
    <3>5. client'.ended # "broken"
      <4>1. client.ended = "no"
        BY <3>3 DEF Legal
      <4>2. client \in Clients
        BY DEF WireInv
      <4> QED
        BY <3>4, <4>1, <4>2, AssembledEnds
    <3> QED
      BY <2>1, <2>3, <3>1, <3>2, <3>3, <3>4, <3>5 DEF WireInv
  <2> QED
    BY <2>2, <2>3
<1>2. CASE Thrown
  <2>1. /\ queue = << >> /\ then = "throw" /\ aborted' = TRUE /\ pull' = "idle"
        /\ UNCHANGED <<answer>> /\ (source = "failed" => source' = "failed")
    BY <1>2 DEF Thrown, Release
  <2>2. CASE client' = client
    BY <2>1, <2>2 DEF WireInv
  <2>3. CASE client' # client
    <3>1. ~aborted /\ Enqueue(Error)
      BY <1>2, <2>3 DEF Thrown
    <3>2. client \in Clients /\ client.wellFormed /\ DOMAIN client = DOMAIN Nothing /\ Error.do = "error"
      BY DEF WireInv, StreamInductive, SuccessInv, Error
    <3>3. CASE client.ended = "no"
      <4>1. PICK c2 \in Clients : /\ Runs(dialect, client, <<Error>>, c2)
                                  /\ c2.ended = "error" /\ c2.wellFormed = client.wellFormed
        BY <3>2, <3>3, ErrorStep
      <4>2. Head(<<Error>>) = Error /\ Tail(<<Error>>) = << >> /\ <<Error>> # << >>
        OBVIOUS
      <4>3. Legal(dialect, client, Error) /\ Runs(dialect, Assembled(client, Error), << >>, c2)
        BY <4>1, <4>2, RunsHead, Zenon
      <4>4. client' = c2
        BY <3>1, <4>3, RunsNowhere DEF Enqueue
      <4> QED
        BY <2>1, <3>2, <4>1, <4>4 DEF WireInv
    <3>4. CASE client.ended # "no"
      <4>1. source = "failed"
        <5> SUFFICES ASSUME source # "failed" PROVE FALSE
          OBVIOUS
        <5>1. Leads(dialect, client, << >>, "throw", g, answer)
          BY <2>1, <3>1 DEF WireInv, Does
        <5> QED
          BY <3>4, <5>1, LeadsNowhere
      <4>2. client' = [client EXCEPT !.ended = "broken"]
        BY <3>1, <3>2, <3>4 DEF Enqueue, Legal
      <4>3. client' \in Clients /\ client'.wellFormed /\ client'.ended = "broken"
        BY <3>2, <4>2 DEF Clients
      <4> QED
        BY <2>1, <4>1, <4>3 DEF WireInv
    <3> QED
      BY <3>3, <3>4
  <2> QED
    BY <2>2, <2>3
<1> QED
  BY <1>1, <1>2

\* Every step keeps the invariant.
LEMMA WireStep == StreamInductive /\ WireInv /\ [Next]_vars => WireInv'
<1> SUFFICES ASSUME StreamInductive, WireInv, [Next]_vars PROVE WireInv'
  OBVIOUS
<1>1. CASE UNCHANGED vars
  BY <1>1 DEF vars, WireInv, Does
<1>2. CASE Next
  BY <1>2, WireRequestSteps, WireQuietSteps, WireEventStep, WireFrameSteps DEF Next, Deliver
<1> QED
  BY <1>1, <1>2

-----------------------------------------------------------------------------
(* The theorems.                                                           *)

\* The invariant holds of every request.
THEOREM StreamIsInductive == Spec => []StreamInductive
  BY StreamInit, StreamStep, PTL DEF Spec

\* The adapters take nothing that the protocol or the loaded model then refuses
\* for a reason the descriptor had already told.
THEOREM AcceptedAlwaysServable == Spec => []AcceptedIsServable
<1>1. StreamInductive => AcceptedIsServable
  BY DEF StreamInductive
<1> QED
  BY <1>1, StreamIsInductive, PTL

\* When the application learns that a request is over, the release of the session
\* behind it has settled, and when it learns of a success it has resolved, whatever
\* aborts, cancellations and failures came in between.
THEOREM OverAlwaysReleased == Spec => []OverMeansReleased
<1>1. StreamInductive => OverMeansReleased
  BY DEF StreamInductive
<1> QED
  BY <1>1, StreamIsInductive, PTL

\* After an abort the application gets no frame and no answer.
THEOREM AbortAlwaysSilences == Spec => AbortSilences
<1>1. StreamInductive /\ [Next]_vars
         => [aborted => client'.items = client.items /\ client'.ended = client.ended /\ phase' # "answered"]_vars
  <2> SUFFICES ASSUME StreamInductive, Next, aborted
               PROVE  client' = client /\ phase' # "answered"
    OBVIOUS
  <2>1. phase # "answered"
    BY DEF StreamInductive, RequestInv
  <2>2. ASSUME NEW r \in Answers, Completed(r) PROVE client' = client /\ phase' # "answered"
    BY <2>1, <2>2 DEF Completed
  <2>3. ASSUME NEW next \in {"refused", "rejected"}, CompletionFails(next)
        PROVE  client' = client /\ phase' # "answered"
    BY <2>3 DEF CompletionFails
  <2>4. CASE Unresolved \/ Parsed \/ Executed
    BY <2>4 DEF Unresolved, Parsed, Executed
  <2>5. CASE Pull \/ SourceFails \/ Deliver
    BY <2>1, <2>5 DEF Pull, SourceFails, Deliver, Frame, Done, ReleaseRejects, Thrown, Returned, Cancelled, generator, callbacks
  <2>6. ASSUME NEW e \in Events, Event(e) PROVE client' = client /\ phase' # "answered"
    BY <2>1, <2>6 DEF Event
  <2>7. CASE Cancel \/ Abort
    BY <2>1, <2>7 DEF Cancel, Abort
  <2> QED
    BY <2>2, <2>3, <2>4, <2>5, <2>6, <2>7 DEF Next
<1> QED
  BY <1>1, StreamIsInductive, PTL DEF Spec, AbortSilences

\* The Responses and the Messages endpoint never give a response that the
\* backend cancelled as a success, streamed or not.
THEOREM CancelledIsNoSuccess ==
    Spec => [](dialect \in {"responses", "messages"} => NoInventedSuccess)
<1>1. StreamInductive => (dialect \in {"responses", "messages"} => NoInventedSuccess)
  BY DEF StreamInductive, RequestInv, SuccessInv, NoInventedSuccess
<1> QED
  BY <1>1, StreamIsInductive, PTL

\* The wire invariant holds of every request.
THEOREM WireIsInductive == Spec => [](StreamInductive /\ WireInv)
<1>1. Init => StreamInductive /\ WireInv
  BY StreamInit, WireInit
<1>2. (StreamInductive /\ WireInv) /\ [Next]_vars => (StreamInductive /\ WireInv)'
  BY StreamStep, WireStep
<1> QED
  BY <1>1, <1>2, PTL DEF Spec

\* Whatever the backend streams, the frames an SDK is given follow the order the
\* endpoint documents; an error frame comes after the end only when the session
\* could not be released.
THEOREM WireAlwaysWellFormed == Spec => []WireIsWellFormed
<1>1. StreamInductive /\ WireInv => WireIsWellFormed
  BY DEF WireInv, WireIsWellFormed
<1> QED
  BY <1>1, WireIsInductive, PTL

\* A stream that finished carried the final response: its text and each of its
\* calls with all the arguments, and nothing else.
THEOREM FinishedAlwaysTheAnswer == Spec => []FinishedWireIsTheAnswer
<1>1. StreamInductive /\ WireInv => FinishedWireIsTheAnswer
  BY DEF WireInv, FinishedWireIsTheAnswer
<1> QED
  BY <1>1, WireIsInductive, PTL

===============================================================================
