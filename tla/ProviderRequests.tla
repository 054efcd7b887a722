------------------------- MODULE ProviderRequests -------------------------
(***************************************************************************)
(* What the adapters take: parse.ts of packages/provider-openai and of     *)
(* packages/provider-anthropic, the canonical rules behind them            *)
(* (packages/protocol/src/validation.ts) and what a loaded model can do    *)
(* (packages/runtime-llama-rn/src/mapping.ts).  A request body is the set  *)
(* of things it asks beyond plain text, a model descriptor the set of      *)
(* things it offers, a loaded context the set of things its template has.  *)
(***************************************************************************)
Template == {"jinja", "llama-chat", "tool calls", "parallel calls", "system role"}

-----------------------------------------------------------------------------
(* The openai adapter: each part of a body, then the two endpoints *)

ToolAsks == {"tools", "strict tool", "twin tools"}
ChoiceAsks == {"choice", "absent choice"}
ParallelAsks == {"parallel", "no parallel"}
FormatAsks == {"json_object", "json_schema", "loose schema"}
SamplingAsks == {"hot", "scorching", "topP"}
InputAsks == {"image", "garbled", "system", "tool history", "deep json"}

CommonAsks == UNION {ToolAsks, ChoiceAsks, ParallelAsks, FormatAsks, SamplingAsks, InputAsks, {"stream"}}

HasTools(asks) == asks \cap ToolAsks # {}

\* Only function tools of distinct names, of a model that calls tools.
ToolsTaken(asks, offers) ==
    /\ HasTools(asks) => "tools" \in offers
    /\ "strict tool" \in asks => "strict" \in offers
    /\ "twin tools" \notin asks

\* A choice is among the tools of the request.
ChoiceTaken(asks) ==
    /\ asks \cap (ChoiceAsks \cup ParallelAsks) # {} => HasTools(asks)
    /\ "absent choice" \notin asks

ParallelTaken(asks, offers) == "parallel" \in asks => "parallel" \in offers

\* A mutant: the descriptor's grammar support is not asked.
FormatTakenUnchecked(asks, offers) == "loose schema" \notin asks

\* A schema needs constrained decoding and an object at its root.
FormatTaken(asks, offers) ==
    /\ "json_object" \in asks => "json_object" \in offers
    /\ "json_schema" \in asks => {"json_schema", "structured-output"} \subseteq offers
    /\ "loose schema" \notin asks

\* "hot" is a temperature above 1, "scorching" one above 2.
SamplingTaken(asks, offers) ==
    /\ "hot" \in asks => "temperature" \in offers
    /\ "scorching" \notin asks
    /\ "topP" \in asks => "topP" \in offers

\* Text parts, calls with JSON arguments and their results.
InputTaken(asks) == asks \cap {"image", "garbled"} = {}

ResponsesFields == CommonAsks \cup {"metadata", "blank key"}

ResponsesTaken(asks, offers) ==
    /\ asks \subseteq ResponsesFields
    /\ "text" \in offers
    /\ "stream" \in asks => "streaming" \in offers
    /\ ToolsTaken(asks, offers) /\ ChoiceTaken(asks) /\ ParallelTaken(asks, offers)
    /\ FormatTaken(asks, offers) /\ SamplingTaken(asks, offers) /\ InputTaken(asks)

\* An assistant turn has text or calls.
ChatMessagesTaken(asks) == asks \cap {"image", "garbled", "empty turn"} = {}

ChatFields == CommonAsks \cup {"stop", "usage option", "empty turn"}

ChatTaken(asks, offers) ==
    /\ asks \subseteq ChatFields
    /\ "text" \in offers
    /\ "stream" \in asks => "streaming" \in offers
    /\ "stop" \in asks => "stop" \in offers
    /\ ToolsTaken(asks, offers) /\ ChoiceTaken(asks) /\ ParallelTaken(asks, offers)
    /\ "usage option" \in asks => "stream" \in asks
    /\ FormatTaken(asks, offers) /\ SamplingTaken(asks, offers) /\ ChatMessagesTaken(asks)

-----------------------------------------------------------------------------
(* The anthropic adapter *)

\* Results may share a message with text and with each other.
MessageContentTaken(asks) == "image" \notin asks

MessagesToolsTaken(asks, offers) == ToolsTaken(asks, offers)

\* Parallelism is a field of the choice.
MessagesChoiceTaken(asks, offers) == ChoiceTaken(asks) /\ ParallelTaken(asks, offers)

MessagesFormatTaken(asks, offers) ==
    /\ "json_schema" \in asks => {"structured-output", "json_schema"} \subseteq offers
    /\ "loose schema" \notin asks

MessagesSamplingTaken(asks, offers) ==
    /\ asks \cap {"hot", "scorching"} = {}
    /\ \A a \in {"topP", "stop", "topK"} : a \in asks => a \in offers

MessagesFields == (CommonAsks \ {"json_object", "garbled"}) \cup {"stop", "topK", "bundled results"}

MessagesTaken(asks, offers) ==
    /\ asks \subseteq MessagesFields
    /\ "text" \in offers
    /\ "stream" \in asks => "streaming" \in offers
    /\ MessagesToolsTaken(asks, offers) /\ MessagesChoiceTaken(asks, offers)
    /\ MessagesFormatTaken(asks, offers) /\ MessagesSamplingTaken(asks, offers)
    /\ MessageContentTaken(asks)

-----------------------------------------------------------------------------
(* The canonical request *)

\* No JSON value is nested more than 64 levels deep.
JsonIsShallow(asks) == "deep json" \notin asks

\* Messages, tools and formats have the fields of the protocol and no others.
StructureIsKnown(asks) == asks \cap {"garbled", "empty turn"} = {}

Canonical(asks) ==
    /\ StructureIsKnown(asks) /\ JsonIsShallow(asks)
    /\ "twin tools" \notin asks
    /\ asks \cap ChoiceAsks # {} => HasTools(asks)
    /\ "absent choice" \notin asks
    /\ "scorching" \notin asks
    /\ "blank key" \notin asks

-----------------------------------------------------------------------------
(* The loaded model *)

\* reportCapabilities: what the context's template can do.
Reported(template) ==
    [tools |-> {"jinja", "tool calls"} \subseteq template,
     parallel |-> {"jinja", "tool calls", "parallel calls"} \subseteq template,
     grammar |-> template \cap {"jinja", "llama-chat"} # {},
     systemRole |-> {"jinja", "system role"} \subseteq template,
     fallback |-> template \cap {"jinja", "llama-chat"} = {}]

\* One result to a message, alone; no image without a projector.
MessageMaps(asks) == asks \cap {"image", "bundled results"} = {}

\* The transcript of a model without a template has text only.
TranscriptMaps(asks) == asks \cap {"image", "tool history", "bundled results"} = {}

\* completionParams: what a context executes.
Executes(asks, reported) ==
    /\ HasTools(asks) \/ asks \cap {"tool history", "bundled results"} # {} => reported.tools
    /\ asks \cap FormatAsks # {} => reported.grammar
    /\ "system" \in asks => reported.fallback \/ reported.systemRole
    /\ IF reported.fallback THEN TranscriptMaps(asks) ELSE MessageMaps(asks)

\* What a descriptor of this runtime may offer: the mapping passes neither a
\* strict flag nor top_k on.
Servable(reported) ==
    {"text", "streaming", "stop", "temperature", "topP"}
    \cup (IF reported.tools THEN {"tools"} ELSE {})
    \cup (IF reported.parallel THEN {"parallel"} ELSE {})
    \cup (IF reported.grammar THEN {"json_object", "json_schema", "structured-output"} ELSE {})

-----------------------------------------------------------------------------
(* Requests against models *)

Ask == UNION {ResponsesFields, ChatFields, MessagesFields, {"unknown"}}
Asks == {{}} \cup {{a, b} : a, b \in Ask}  \* bound: one or two things beyond plain text
Reports == {Reported(template) : template \in SUBSET Template}

\* Descriptors are honest, they offer nothing the loaded model has not, but may
\* leave a thing out.
Offers(reported) == {Servable(reported) \ {x} : x \in Servable(reported) \cup {"nothing"}}

Taken(dialect, asks, offers) ==
    CASE dialect = "responses" -> ResponsesTaken(asks, offers)
      [] dialect = "messages"  -> MessagesTaken(asks, offers)
      [] dialect = "chat"      -> ChatTaken(asks \ {"usage option"}, offers)
      [] dialect = "chat with usage" -> ChatTaken(asks \cup {"usage option"}, offers)

\* Known only when the model is loaded: nothing in a descriptor stands for them.
Late(asks, reported) ==
    \/ asks \cap {"tool history", "bundled results"} # {}
    \/ "system" \in asks /\ ~reported.systemRole
=============================================================================
