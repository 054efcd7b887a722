-------------------------- MODULE CanonicalStream --------------------------
(***************************************************************************)
(* What one consumer of a canonical stream may observe, whoever produces   *)
(* it: the event union of packages/protocol/src/inference.ts and the       *)
(* checks every transport repeats (validateStreamEvent of the client and   *)
(* of AndroidHubClient.kt).  One response.started, then content, then at   *)
(* most one terminal event, and silence.  A broken stream ended with a     *)
(* thrown error instead of a terminal event.                               *)
(***************************************************************************)
EXTENDS Sequences

CONSTANT Consumer

VARIABLES
    view,       \* the events each consumer received: started, deltas, terminal
    broken      \* an error was thrown at the consumer

Init ==
    /\ view = [c \in Consumer |-> << >>]
    /\ broken = [c \in Consumer |-> FALSE]

Open(c) ==
    view[c] # << >> /\ view[c][Len(view[c])] # "terminal" /\ ~broken[c]

Receives(c, event) ==
    view' = [view EXCEPT ![c] = Append(@, event)] /\ UNCHANGED broken

Started(c)  == view[c] = << >> /\ ~broken[c] /\ Receives(c, "started")
Content(c)  == Open(c) /\ Receives(c, "delta")
Finished(c) == Open(c) /\ Receives(c, "terminal")

Broken(c) ==
    /\ Open(c) \/ view[c] = << >>
    /\ broken' = [broken EXCEPT ![c] = TRUE] /\ UNCHANGED view

\* The same consumer asks for another response.
Again(c) ==
    /\ view' = [view EXCEPT ![c] = << >>]
    /\ broken' = [broken EXCEPT ![c] = FALSE]

Next ==
    \E c \in Consumer : Started(c) \/ Content(c) \/ Finished(c) \/ Broken(c) \/ Again(c)

Spec == Init /\ [][Next]_<<view, broken>>
=============================================================================
