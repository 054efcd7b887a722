-------------------------- MODULE ProviderDialects --------------------------
(***************************************************************************)
(* The three translations of a canonical stream into server-sent events:   *)
(* responsesEventStream and chatEventStream of packages/provider-openai,   *)
(* anthropicEventStream of packages/provider-anthropic.  Each operator is  *)
(* one branch of a generator's loop: from the generator's variables g and  *)
(* one canonical event it gives the frames to yield, the variables after,  *)
(* and what the loop does then.  A text or an argument string is its       *)
(* length: every string is a prefix of the longer ones.                    *)
(***************************************************************************)
EXTENDS Naturals, FiniteSets, SequencesExt

CONSTANTS
    Call,   \* tool-call identifiers 1 .. n, in the order of the final response
    None

\* The variables of a generator.  block is the open text item, calls maps each
\* announced call to its place on the wire and what was sent of it.
Fresh == [started |-> FALSE, wire |-> FALSE, usage |-> FALSE, text |-> 0,
          block |-> None, next |-> 0, calls |-> << >>]

Prose == 0      \* what a text item carries, in place of a call

Begin           == [do |-> "begin"]
Item(i, what)   == [do |-> "item", at |-> i, of |-> what]
Delta(i, n)     == [do |-> "delta", at |-> i, length |-> n]
Text(n)         == [do |-> "text", length |-> n]
Close(i)        == [do |-> "close", at |-> i]
Finish          == [do |-> "finish"]
Error           == [do |-> "error"]

Yields(g, frames) == [g |-> g, frames |-> frames, then |-> "more"]
Ends(g, frames)   == [g |-> g, frames |-> frames, then |-> "done"]
Throws(g, frames) == [g |-> g, frames |-> frames, then |-> "throw"]

Optional(condition, frame) == IF condition THEN <<frame>> ELSE << >>

-----------------------------------------------------------------------------
(* What the three loops share *)

\* The event names a call that was announced under this index and is not complete.
Matches(g, e) ==
    /\ g.started /\ e.call \in DOMAIN g.calls
    /\ g.calls[e.call].event = e.index /\ ~g.calls[e.call].done

\* The event announces a call under an index that is free.
Announces(g, e) ==
    /\ g.started /\ e.call \notin DOMAIN g.calls
    /\ \A c \in DOMAIN g.calls : g.calls[c].event # e.index

\* A map with one more entry.
With(f, x, v) == [y \in DOMAIN f \cup {x} |-> IF y = x THEN v ELSE f[y]]

Announce(g, e, i) ==
    [g EXCEPT !.calls = With(@, e.call, [at |-> i, event |-> e.index, length |-> 0, done |-> FALSE])]

\* A mutant: the index of the text item is not used up.
WithTextUncounted(g, n) ==
    LET i == IF g.block = None THEN g.next ELSE g.block IN
    [g |-> [g EXCEPT !.block = i, !.text = @ + n],
     frames |-> Optional(g.block = None, Item(i, Prose)) \o Optional(n > 0, Delta(i, n))]

\* The text item, opened when there is none, and n characters more of text.
WithText(g, n) ==
    LET i == IF g.block = None THEN g.next ELSE g.block IN
    [g |-> [g EXCEPT !.block = i, !.text = @ + n,
                     !.next = IF g.block = None THEN @ + 1 ELSE @],
     frames |-> Optional(g.block = None, Item(i, Prose)) \o Optional(n > 0, Delta(i, n))]

Arguments(g, e) ==
    IF Matches(g, e)
    THEN Yields([g EXCEPT !.calls[e.call].length = @ + 1], <<Delta(g.calls[e.call].at, 1)>>)
    ELSE Throws(g, << >>)

\* A mutant: the arguments are sent again from the start.
RestAgain(at, sent, n) == Optional(n > sent, Delta(at, n))

\* What was not sent yet of a call that is n characters long.
Rest(at, sent, n) == Optional(n > sent, Delta(at, n - sent))

Called(g, e, closes) ==
    IF Matches(g, e) /\ e.length >= g.calls[e.call].length
    THEN LET c == g.calls[e.call] IN
         Yields([g EXCEPT !.calls[e.call] = [c EXCEPT !.length = e.length, !.done = TRUE]],
                Rest(c.at, c.length, e.length) \o Optional(closes, Close(c.at)))
    ELSE Throws(g, << >>)

\* The place of a final call: the announced one, or the next free one.
PlaceOf(g, r, c, next) ==
    IF c \in DOMAIN g.calls THEN g.calls[c].at
    ELSE next + Cardinality({d \in DOMAIN r.calls \ DOMAIN g.calls : d < c})

Sent(g, c) == IF c \in DOMAIN g.calls THEN g.calls[c].length ELSE 0
IsDone(g, c) == c \in DOMAIN g.calls /\ g.calls[c].done

\* The frames of one final call: its item unless it was announced, the rest of
\* its arguments, its end.
FinalCall(g, r, c, next, closes) ==
    LET at == PlaceOf(g, r, c, next) IN
    Optional(c \notin DOMAIN g.calls, Item(at, c))
    \o Rest(at, Sent(g, c), r.calls[c])
    \o Optional(closes /\ ~IsDone(g, c), Close(at))

\* The frames of the final calls in order, up to the first of the bad ones, which
\* contradict what was sent.
FinalCalls(g, r, next, closes, bad) ==
    LET good == {c \in DOMAIN r.calls : \A b \in bad : c < b} IN
    FlattenSeq([c \in Call |-> IF c \in good THEN FinalCall(g, r, c, next, closes) ELSE << >>])

Known(g, r) == DOMAIN g.calls \subseteq DOMAIN r.calls
Shrinks(g, r, c) == r.calls[c] < Sent(g, c)
Changes(g, r, c) == IsDone(g, c) /\ r.calls[c] # Sent(g, c)

Shrunk(g, r) == {c \in DOMAIN r.calls : Shrinks(g, r, c)}
Changed(g, r) == {c \in DOMAIN r.calls : Changes(g, r, c)}

-----------------------------------------------------------------------------
(* OpenAI Responses *)

ResponsesStarted(g) ==
    IF g.started THEN Throws(g, << >>)
    ELSE Yields([g EXCEPT !.started = TRUE], <<Begin>>)

ResponsesText(g) ==
    IF ~g.started THEN Throws(g, << >>)
    ELSE Yields(WithText(g, 1).g, WithText(g, 1).frames)

ResponsesCall(g, e) ==
    IF ~Announces(g, e) THEN Throws(g, << >>)
    ELSE Yields(Announce([g EXCEPT !.next = @ + 1], e, g.next), <<Item(g.next, e.call)>>)

ResponsesArguments(g, e) == Arguments(g, e)
ResponsesCalled(g, e) == Called(g, e, TRUE)

ResponsesCompleted(g, r) ==
    LET begin == Optional(~g.started, Begin)
        empty == r.text = 0 /\ DOMAIN r.calls = {} /\ g.block = None
        text  == IF r.text > g.text \/ empty
                 THEN WithText(g, r.text - g.text) ELSE [g |-> g, frames |-> << >>]
        shown == begin \o text.frames \o Optional(text.g.block # None, Close(text.g.block))
        all   == shown \o FinalCalls(g, r, text.g.next, TRUE, Shrunk(g, r))
    IN IF r.stop = "cancelled" THEN Throws(g, << >>)
       ELSE IF r.text < g.text THEN Throws(g, begin)
       ELSE IF ~Known(g, r) \/ Changed(g, r) # {} THEN Throws(g, shown)
       ELSE IF Shrunk(g, r) # {} \/ ~r.sound THEN Throws(g, all)
       ELSE Ends(g, Append(all, Finish))

ResponsesUsage(g) == IF g.started THEN Yields(g, << >>) ELSE Throws(g, << >>)

Failed(g) == Ends(g, <<Error>>)

-----------------------------------------------------------------------------
(* OpenAI Chat Completions: a call's place is the index the backend gave it *)

ChatStarted(g) ==
    IF g.started THEN Throws(g, << >>)
    ELSE Yields([g EXCEPT !.started = TRUE], <<Begin>>)

ChatText(g) ==
    IF ~g.started THEN Throws(g, << >>)
    ELSE Yields([g EXCEPT !.text = @ + 1], <<Text(1)>>)

ChatCall(g, e) ==
    IF ~Announces(g, e) THEN Throws(g, << >>)
    ELSE Yields(Announce(g, e, e.index), <<Item(e.index, e.call)>>)

ChatArguments(g, e) == Arguments(g, e)
ChatCalled(g, e) == Called(g, e, FALSE)
ChatUsage(g) == IF g.started THEN Yields(g, << >>) ELSE Throws(g, << >>)

ChatCompleted(g, r, includeUsage) ==
    LET begin == Optional(~g.started, Begin)
        taken == {g.calls[c].at : c \in DOMAIN g.calls}
        next  == IF taken = {} THEN 0 ELSE Max(taken) + 1
        shown == begin \o Optional(r.text > g.text, Text(r.text - g.text))
        all   == shown \o FinalCalls(g, r, next, FALSE, Shrunk(g, r))
    IN IF ~r.sound \/ r.text < g.text THEN Throws(g, begin)
       ELSE IF ~Known(g, r) THEN Throws(g, shown)
       ELSE IF Shrunk(g, r) # {} \/ (includeUsage /\ ~r.usage) THEN Throws(g, all)
       ELSE Ends(g, Append(all, Finish))

-----------------------------------------------------------------------------
(* Anthropic Messages: message_start waits for the input-token count *)

MessagesStarted(g) ==
    IF g.started THEN Throws(g, << >>)
    ELSE Yields([g EXCEPT !.started = TRUE], << >>)

\* ensureStarted: it throws unless the count is known.
CanStart(g) == g.wire \/ (g.started /\ g.usage)
OnWire(g) == [g EXCEPT !.wire = TRUE]
EnsureStarted(g) == Optional(~g.wire, Begin)

MessagesUsage(g) ==
    IF ~g.started THEN Throws(g, << >>)
    ELSE Yields(OnWire([g EXCEPT !.usage = TRUE]), EnsureStarted(g))

MessagesText(g) ==
    IF ~CanStart(g) THEN Throws(g, << >>)
    ELSE LET h == WithText(OnWire(g), 1) IN Yields(h.g, EnsureStarted(g) \o h.frames)

CloseText(g) == Optional(g.block # None, Close(g.block))

MessagesCall(g, e) ==
    IF ~Announces(g, e) \/ ~CanStart(g) THEN Throws(g, << >>)
    ELSE Yields(Announce([OnWire(g) EXCEPT !.next = @ + 1, !.block = None], e, g.next),
                EnsureStarted(g) \o CloseText(g) \o <<Item(g.next, e.call)>>)

MessagesArguments(g, e) == Arguments(g, e)
MessagesCalled(g, e) == Called(g, e, TRUE)

MessagesCompleted(g, r) ==
    LET begin == EnsureStarted(g)
        text  == IF r.text > g.text
                 THEN WithText(g, r.text - g.text) ELSE [g |-> g, frames |-> << >>]
        shown == begin \o text.frames \o CloseText(text.g)
        wrong == Shrunk(g, r) \cup Changed(g, r)
        all   == shown \o FinalCalls(g, r, text.g.next, TRUE, wrong)
    IN IF r.stop = "cancelled" THEN Throws(g, << >>)
       ELSE IF ~(g.wire \/ g.usage \/ r.usage) THEN Throws(g, << >>)
       ELSE IF ~r.sound \/ r.text < g.text THEN Throws(g, begin)
       ELSE IF ~Known(g, r) THEN Throws(g, shown)
       ELSE IF wrong # {} \/ ~r.usage THEN Throws(g, all)
       ELSE Ends(g, Append(all, Finish))

-----------------------------------------------------------------------------
\* One turn of the loop.  "foreign" stands for every event that names another
\* response, model or tool, and for a stream that ends without a terminal event.
Responses(g, e) ==
    CASE e.type = "started"   -> ResponsesStarted(g)
      [] e.type = "text"      -> ResponsesText(g)
      [] e.type = "usage"     -> ResponsesUsage(g)
      [] e.type = "call"      -> ResponsesCall(g, e)
      [] e.type = "arguments" -> ResponsesArguments(g, e)
      [] e.type = "called"    -> ResponsesCalled(g, e)
      [] e.type = "completed" -> ResponsesCompleted(g, e)
      [] e.type = "failed"    -> Failed(g)
      [] e.type = "foreign"   -> Throws(g, << >>)

Chat(g, e, includeUsage) ==
    CASE e.type = "started"   -> ChatStarted(g)
      [] e.type = "text"      -> ChatText(g)
      [] e.type = "usage"     -> ChatUsage(g)
      [] e.type = "call"      -> ChatCall(g, e)
      [] e.type = "arguments" -> ChatArguments(g, e)
      [] e.type = "called"    -> ChatCalled(g, e)
      [] e.type = "completed" -> ChatCompleted(g, e, includeUsage)
      [] e.type = "failed"    -> Failed(g)
      [] e.type = "foreign"   -> Throws(g, << >>)

Messages(g, e) ==
    CASE e.type = "started"   -> MessagesStarted(g)
      [] e.type = "text"      -> MessagesText(g)
      [] e.type = "usage"     -> MessagesUsage(g)
      [] e.type = "call"      -> MessagesCall(g, e)
      [] e.type = "arguments" -> MessagesArguments(g, e)
      [] e.type = "called"    -> MessagesCalled(g, e)
      [] e.type = "completed" -> MessagesCompleted(g, e)
      [] e.type = "failed"    -> Failed(g)
      [] e.type = "foreign"   -> Throws(g, << >>)

Translate(dialect, g, e) ==
    CASE dialect = "responses" -> Responses(g, e)
      [] dialect = "chat"      -> Chat(g, e, FALSE)
      [] dialect = "chat with usage" -> Chat(g, e, TRUE)
      [] dialect = "messages"  -> Messages(g, e)
=============================================================================
