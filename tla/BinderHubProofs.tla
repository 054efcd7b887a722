--------------------------- MODULE BinderHubProofs ---------------------------
(***************************************************************************)
(* For any number of clients, streams, events and faults: one native run   *)
(* in the Hub's process, a session that stays known as long as it works,   *)
(* scripts that go on only after the Hub has drained, no session left      *)
(* behind by a client that disconnected, and a canonical stream for every  *)
(* consumer.                                                               *)
(***************************************************************************)
EXTENDS BinderHub, SequenceTheorems, TLAPS

\* Events appended, taken and made are events.
LEMMA Queues ==
    ASSUME NEW q \in Seq(Messages), NEW e \in Messages, NEW f \in Messages
    PROVE  /\ Append(q, e) \in Seq(Messages)
           /\ q \o <<e>> \in Seq(Messages) /\ q \o <<f, e>> \in Seq(Messages)
           /\ q \o (<< >> \o <<e>>) \in Seq(Messages)
           /\ q # << >> => Head(q) \in Messages /\ Tail(q) \in Seq(Messages)
<1>1. <<e>> \in Seq(Messages) /\ <<f, e>> \in Seq(Messages)
  OBVIOUS
<1> QED
  BY <1>1

\* A queue of events stays one when another is appended to it.
LEMMA Concatenated ==
    ASSUME NEW q \in Seq(Messages), NEW r \in Seq(Messages)
    PROVE  q \o r \in Seq(Messages)
  OBVIOUS

\* What the client makes up itself.
LEMMA LocalEvents ==
    ASSUME NativeTypes, NEW c \in Client, NEW kind \in Kinds
    PROVE  Local(c, kind) \in Messages
  BY DEF NativeTypes, Local, Event, Messages, Kinds, Terminals

\* An operation that fails in the client leaves well-typed queues.
LEMMA FailedLocally ==
    ASSUME NativeTypes, NEW c \in Client, FailLocally(c)
    PROVE  /\ native' \in [Client -> [live : BOOLEAN, req : Nat, started : BOOLEAN, next : Nat]]
           /\ credit' \in [Client -> Nat \cup {None}]
           /\ main' \in [Client -> Seq(Messages)]
<1>1. Local(c, "started") \in Messages /\ Local(c, "failed") \in Messages
  BY LocalEvents DEF Kinds, Terminals
<1>2. main[c] \in Seq(Messages)
  BY DEF NativeTypes
<1>3. << >> \in Seq(Messages) /\ <<Local(c, "started")>> \in Seq(Messages) /\ <<Local(c, "failed")>> \in Seq(Messages)
  BY <1>1
<1>4. main[c] \o (IF native[c].started THEN << >> ELSE <<Local(c, "started")>>) \o <<Local(c, "failed")>> \in Seq(Messages)
  BY <1>2, <1>3, Concatenated
<1>5. main' \in [Client -> Seq(Messages)]
  <2> DEFINE longer == main[c] \o (IF native[c].started THEN << >> ELSE <<Local(c, "started")>>) \o <<Local(c, "failed")>>
  <2>1. main' = main \/ main' = [main EXCEPT ![c] = longer]
    BY DEF FailLocally
  <2>2. longer \in Seq(Messages)
    BY <1>4
  <2> HIDE DEF longer
  <2> QED
    BY <2>1, <2>2 DEF NativeTypes
<1>6. native' \in [Client -> [live : BOOLEAN, req : Nat, started : BOOLEAN, next : Nat]]
  <2>1. native' = native \/ native' = [native EXCEPT ![c].live = FALSE]
    BY DEF FailLocally
  <2> QED
    BY <2>1 DEF NativeTypes
<1>7. credit' \in [Client -> Nat \cup {None}]
  BY DEF FailLocally, NativeTypes
<1> QED
  BY <1>5, <1>6, <1>7

\* What an arriving event leaves behind.
LEMMA Arrivals ==
    ASSUME NativeTypes, NEW c \in Client, NEW e \in Messages, NEW b \in BOOLEAN
    PROVE  /\ [credit EXCEPT ![c] = e.seq] \in [Client -> Nat \cup {None}]
           /\ [main EXCEPT ![c] = Append(@, e)] \in [Client -> Seq(Messages)]
           /\ [native EXCEPT ![c].live = b, ![c].started = TRUE, ![c].next = e.seq + 1]
                \in [Client -> [live : BOOLEAN, req : Nat, started : BOOLEAN, next : Nat]]
<1>1. e.seq \in Nat /\ e.seq + 1 \in Nat
  BY DEF Messages
<1>2. Append(main[c], e) \in Seq(Messages)
  BY DEF NativeTypes
<1> QED
  BY <1>1, <1>2 DEF NativeTypes

\* An event that leaves the wire is an event, and the wire that is left is one.
LEMMA Taken ==
    ASSUME NativeTypes, NEW c \in Client, wire[c] # << >>
    PROVE  Head(wire[c]) \in Messages /\ [wire EXCEPT ![c] = Tail(@)] \in [Client -> Seq(Messages)]
<1>1. wire[c] \in Seq(Messages)
  BY DEF NativeTypes
<1>2. Head(wire[c]) \in Messages /\ Tail(wire[c]) \in Seq(Messages)
  BY <1>1
<1> QED
  BY <1>2 DEF NativeTypes

\* A process that ends leaves empty queues and no operation.
LEMMA Emptied ==
    ASSUME NativeTypes, NEW c \in Client
    PROVE  /\ [wire EXCEPT ![c] = << >>] \in [Client -> Seq(Messages)]
           /\ [main EXCEPT ![c] = << >>] \in [Client -> Seq(Messages)]
           /\ [native EXCEPT ![c] = Gone] \in [Client -> [live : BOOLEAN, req : Nat, started : BOOLEAN, next : Nat]]
           /\ [credit EXCEPT ![c] = None] \in [Client -> Nat \cup {None}]
<1>1. << >> \in Seq(Messages) /\ Gone \in [live : BOOLEAN, req : Nat, started : BOOLEAN, next : Nat]
  BY DEF Gone
<1> QED
  BY <1>1 DEF NativeTypes

\* The worker and the callback thread.
LEMMA WorkerTypes ==
    ASSUME TypeOK, NEW c \in Client, Works(c)
    PROVE  TypeOK'
<1> USE DEF Works, Emit, RunFails, Credited, WaitFails, Finish, Worker, AfterFailure
<1>1. UNCHANGED <<world, wire, nativeVars, script, monitor>>
  OBVIOUS
<1>2. NativeTypes' /\ ScriptTypes'
  BY <1>1 DEF world, nativeVars, script, reader, monitor, TypeOK, NativeTypes, ScriptTypes
<1>3. op' \in [Client -> Operations]
  <2> USE DEF TypeOK, HubTypes, Operations, Kinds, Terminals
  <2>1. ASSUME NEW kind \in Kinds, Emit(c, kind) PROVE op' \in [Client -> Operations]
    BY <2>1
  <2>2. CASE RunFails(c) \/ Credited(c) \/ WaitFails(c)
    BY <2>2
  <2>3. CASE Finish(c)
    BY <2>3 DEF NoOp
  <2> QED
    BY <2>1, <2>2, <2>3
<1>4. delivery' \in [to : Client, kind : Kinds, seq : Nat, req : Nat] \cup {None}
  BY DEF TypeOK, HubTypes, Operations, Kinds, Terminals
<1>5. gate' \in Client \cup {Others, None} /\ session' \in [Client -> {"absent", "open", "closed"}]
  BY DEF TypeOK, HubTypes
<1> QED
  BY <1>1, <1>2, <1>3, <1>4, <1>5 DEF TypeOK, HubTypes, world

\* Everything a client's script does.
LEMMA ScriptTypesKept ==
    ASSUME TypeOK, NEW c \in Client, Script(c)
    PROVE  TypeOK'
<1> USE DEF Script, HubCreates, CreateReturns, Stream, HubGenerates, GenerateReturns, ListenerGets, Take, TakeFailure,
        Resume, Abandon, Cancel, Cleanup, Release, ReleaseCalled, Drained, DrainFails, Goto, Close, Stopped, HubCancels,
        Throws, Yields, Forget
<1>1. UNCHANGED <<world, wire, linked, delivery>>
  BY DEF hub, nativeVars, world
<1>2. gate' \in {gate, c}
  BY DEF hub
<1>3. session' \in {session} \cup {[session EXCEPT ![c] = v] : v \in {"absent", "open", "closed"}}
  BY DEF hub
<1>4. op' \in [Client -> Operations]
  <2>1. op' = op \/ op' = Stopped(c) \/ op' = [op EXCEPT ![c].acked = TRUE]
        \/ op' = [op EXCEPT ![c] = [NoOp EXCEPT !.at = "queued", !.req = native[c].req]]
    BY DEF hub
  <2>2. Stopped(c) \in [Client -> Operations] /\ [op EXCEPT ![c].acked = TRUE] \in [Client -> Operations]
    BY DEF TypeOK, HubTypes, Operations, Busy
  <2>3. [NoOp EXCEPT !.at = "queued", !.req = native[c].req] \in Operations
    BY DEF TypeOK, NativeTypes, Operations, NoOp, Kinds
  <2> QED
    BY <2>1, <2>2, <2>3 DEF TypeOK, HubTypes
<1>5. /\ native' \in [Client -> [live : BOOLEAN, req : Nat, started : BOOLEAN, next : Nat]]
      /\ credit' \in [Client -> Nat \cup {None}]
      /\ main' \in [Client -> Seq(Messages)]
  <2>1. CASE FailLocally(c)
    BY <2>1, FailedLocally DEF TypeOK
  <2>2. CASE ~FailLocally(c)
    <3>1. native' \in [Client -> [live : BOOLEAN, req : Nat, started : BOOLEAN, next : Nat]]
      <4>1. \/ native' = native \/ native' = [native EXCEPT ![c].live = FALSE]
            \/ native' = [native EXCEPT ![c] = [live |-> TRUE, req |-> streams + 1, started |-> FALSE, next |-> 0]]
        BY <2>2 DEF nativeVars
      <4>2. streams + 1 \in Nat
        BY DEF TypeOK, ScriptTypes
      <4>3. [live |-> TRUE, req |-> streams + 1, started |-> FALSE, next |-> 0]
               \in [live : BOOLEAN, req : Nat, started : BOOLEAN, next : Nat]
        BY <4>2
      <4>4. [native EXCEPT ![c].live = FALSE] \in [Client -> [live : BOOLEAN, req : Nat, started : BOOLEAN, next : Nat]]
        BY DEF TypeOK, NativeTypes
      <4> QED
        BY <4>1, <4>3, <4>4 DEF TypeOK, NativeTypes
    <3>2. credit' \in [Client -> Nat \cup {None}]
      BY <2>2 DEF TypeOK, NativeTypes, nativeVars
    <3>3. main' \in [Client -> Seq(Messages)]
      <4>1. main' = main \/ (main[c] # << >> /\ main' = [main EXCEPT ![c] = Tail(@)])
        BY <2>2 DEF nativeVars
      <4>2. main[c] # << >> => Tail(main[c]) \in Seq(Messages)
        BY DEF TypeOK, NativeTypes
      <4> QED
        BY <4>1, <4>2 DEF TypeOK, NativeTypes
    <3> QED
      BY <3>1, <3>2, <3>3
  <2> QED
    BY <2>1, <2>2
<1>6. js' \in [Client -> Places]
  BY DEF script, TypeOK, ScriptTypes, Places, Streaming
<1>7. pending' \in [Client -> Messages \cup {None}]
  <2>1. \A d \in Client : main[d] # << >> => Head(main[d]) \in Messages
    BY Queues DEF TypeOK, NativeTypes
  <2> QED
    BY <2>1 DEF script, reader, TypeOK, ScriptTypes
<1>8. failure' \in [Client -> BOOLEAN] /\ completed' \in [Client -> BOOLEAN] /\ broken' \in [Client -> BOOLEAN]
  BY DEF script, reader, TypeOK, ScriptTypes
<1>9. view' \in [Client -> Seq({"started", "delta", "terminal"})]
  <2> DEFINE shown(e) == IF e.kind \in Terminals THEN "terminal" ELSE e.kind
  <2>1. \A e \in Messages : shown(e) \in {"started", "delta", "terminal"}
    BY DEF Messages, Kinds, Terminals
  <2>2. pending[c] # None => Append(view[c], shown(pending[c])) \in Seq({"started", "delta", "terminal"})
    BY <2>1 DEF TypeOK, ScriptTypes
  <2>3. \/ view' = view \/ view' = [view EXCEPT ![c] = << >>]
        \/ pending[c] # None /\ view' = [view EXCEPT ![c] = Append(@, shown(pending[c]))]
    BY DEF script, reader
  <2>4. << >> \in Seq({"started", "delta", "terminal"})
    OBVIOUS
  <2> HIDE DEF shown
  <2> QED
    BY <2>2, <2>3, <2>4 DEF TypeOK, ScriptTypes
<1>10. streams' \in {streams, streams + 1} /\ faults' \in {faults, faults + 1}
  BY DEF script, reader, monitor, Fails, Maybe
<1>11. accused' \in [Client -> BOOLEAN]
  BY DEF monitor, TypeOK, ScriptTypes
<1>12. session' \in [Client -> {"absent", "open", "closed"}]
  BY <1>3 DEF TypeOK, HubTypes
<1>13. HubTypes'
  BY <1>1, <1>2, <1>4, <1>12 DEF TypeOK, HubTypes, world
<1>14. NativeTypes'
  BY <1>1, <1>5 DEF TypeOK, NativeTypes, world
<1>15. ScriptTypes'
  BY <1>6, <1>7, <1>8, <1>9, <1>10, <1>11 DEF TypeOK, ScriptTypes
<1> QED
  BY <1>13, <1>14, <1>15 DEF TypeOK

\* What is stopped remains an operation.
LEMMA StoppedTypes == ASSUME HubTypes, NEW c \in Client PROVE Stopped(c) \in [Client -> Operations]
  BY DEF HubTypes, Stopped, Busy, Operations

\* The clock, events that arrive, connections and processes that end.
LEMMA AroundTypes ==
    ASSUME TypeOK, NEW c \in Client, Around(c)
    PROVE  TypeOK'
<1>1. UNCHANGED <<alive, elsewhere, gate, delivery, failure, completed, view, broken, streams>>
  BY DEF Around, Sweep, TooOld, EventArrives, TransportDies, Disconnect, ClientDies, Revoke, Close, hub, world, script, reader
<1>2. /\ session' \in {session} \cup {[session EXCEPT ![c] = v] : v \in {"absent", "open", "closed"}}
      /\ op' \in {op, Stopped(c)}
  BY DEF Around, Sweep, TooOld, EventArrives, TransportDies, Disconnect, ClientDies, Revoke, Close, hub
<1>3. /\ authorized' \in {authorized, [authorized EXCEPT ![c] = FALSE]}
      /\ present' \in {present, [present EXCEPT ![c] = FALSE]}
      /\ linked' \in {linked, [linked EXCEPT ![c] = FALSE]}
  BY DEF Around, Sweep, TooOld, EventArrives, TransportDies, Disconnect, ClientDies, Revoke, world, nativeVars
<1>4. /\ js' \in {js, [js EXCEPT ![c] = "dead"]}
      /\ pending' \in {pending, [pending EXCEPT ![c] = None]}
      /\ accused' \in {accused, [accused EXCEPT ![c] = TRUE]}
      /\ faults' \in {faults, faults + 1}
  BY DEF Around, Sweep, TooOld, EventArrives, TransportDies, Disconnect, ClientDies, Revoke, Goto,
         script, reader, monitor, Fails, Maybe
<1>5. \/ wire' = wire \/ wire' = [wire EXCEPT ![c] = << >>]
      \/ wire[c] # << >> /\ wire' = [wire EXCEPT ![c] = Tail(@)]
  BY DEF Around, Sweep, TooOld, EventArrives, TransportDies, Disconnect, ClientDies, Revoke
<1>6. \/ UNCHANGED <<native, credit, main>> \/ FailLocally(c)
      \/ EventArrives(c)
      \/ credit' = [credit EXCEPT ![c] = None] /\ UNCHANGED <<native, main>>
      \/ /\ native' = [native EXCEPT ![c] = Gone] /\ credit' = [credit EXCEPT ![c] = None]
         /\ main' = [main EXCEPT ![c] = << >>]
  BY DEF Around, Sweep, TooOld, TransportDies, Disconnect, ClientDies, Revoke, nativeVars
<1>7. ASSUME EventArrives(c)
      PROVE  /\ native' \in [Client -> [live : BOOLEAN, req : Nat, started : BOOLEAN, next : Nat]]
             /\ credit' \in [Client -> Nat \cup {None}]
             /\ main' \in [Client -> Seq(Messages)]
  <2> DEFINE e == Head(wire[c])
  <2>1. wire[c] # << >>
    BY <1>7 DEF EventArrives
  <2>2. \/ UNCHANGED <<native, credit, main>> \/ FailLocally(c)
        \/ /\ credit' = [credit EXCEPT ![c] = e.seq] /\ main' = [main EXCEPT ![c] = Append(@, e)]
           /\ native' = [native EXCEPT ![c].live = e.kind \notin Terminals, ![c].started = TRUE, ![c].next = e.seq + 1]
    BY <1>7 DEF EventArrives
  <2>3. e \in Messages
    BY <2>1, Taken DEF TypeOK
  <2>4. CASE UNCHANGED <<native, credit, main>>
    BY <2>4 DEF TypeOK, NativeTypes
  <2>5. CASE FailLocally(c)
    BY <2>5, FailedLocally DEF TypeOK
  <2>6. CASE /\ credit' = [credit EXCEPT ![c] = e.seq] /\ main' = [main EXCEPT ![c] = Append(@, e)]
             /\ native' = [native EXCEPT ![c].live = e.kind \notin Terminals, ![c].started = TRUE, ![c].next = e.seq + 1]
    <3>1. NativeTypes /\ (e.kind \notin Terminals) \in BOOLEAN
      BY DEF TypeOK
    <3> HIDE DEF e
    <3> QED
      BY <2>3, <2>6, <3>1, Arrivals
  <2> QED
    BY <2>2, <2>4, <2>5, <2>6
<1>8. /\ native' \in [Client -> [live : BOOLEAN, req : Nat, started : BOOLEAN, next : Nat]]
      /\ credit' \in [Client -> Nat \cup {None}]
      /\ main' \in [Client -> Seq(Messages)]
  <2>1. CASE FailLocally(c)
    BY <2>1, FailedLocally DEF TypeOK
  <2>2. NativeTypes
    BY DEF TypeOK
  <2>3. CASE UNCHANGED <<native, credit, main>>
    BY <2>2, <2>3 DEF NativeTypes
  <2>4. CASE credit' = [credit EXCEPT ![c] = None] /\ UNCHANGED <<native, main>>
    BY <2>2, <2>4 DEF NativeTypes
  <2>5. CASE /\ native' = [native EXCEPT ![c] = Gone] /\ credit' = [credit EXCEPT ![c] = None]
             /\ main' = [main EXCEPT ![c] = << >>]
    BY <2>2, <2>5, Emptied
  <2> QED
    BY <1>6, <1>7, <2>1, <2>3, <2>4, <2>5
<1>9. HubTypes'
  <2>1. op' \in [Client -> Operations]
    BY <1>2, StoppedTypes DEF TypeOK, HubTypes
  <2>2. session' \in [Client -> {"absent", "open", "closed"}]
    BY <1>2 DEF TypeOK, HubTypes
  <2>3. authorized' \in [Client -> BOOLEAN]
    BY <1>3 DEF TypeOK, HubTypes
  <2> QED
    BY <1>1, <2>1, <2>2, <2>3 DEF TypeOK, HubTypes
<1>10. wire' \in [Client -> Seq(Messages)]
  <2>1. NativeTypes
    BY DEF TypeOK
  <2>2. wire \in [Client -> Seq(Messages)] /\ [wire EXCEPT ![c] = << >>] \in [Client -> Seq(Messages)]
    BY <2>1, Emptied DEF NativeTypes
  <2>3. wire[c] # << >> => [wire EXCEPT ![c] = Tail(@)] \in [Client -> Seq(Messages)]
    BY <2>1, Taken
  <2> QED
    BY <1>5, <2>2, <2>3
<1>11. NativeTypes'
  BY <1>3, <1>8, <1>10 DEF TypeOK, NativeTypes
<1>12. js' \in [Client -> Places]
  BY <1>4 DEF TypeOK, ScriptTypes, Places
<1>13. ScriptTypes'
  <2>1. pending' \in [Client -> Messages \cup {None}]
    BY <1>4 DEF TypeOK, ScriptTypes
  <2>2. accused' \in [Client -> BOOLEAN]
    BY <1>4 DEF TypeOK, ScriptTypes
  <2>3. faults \in Nat
    BY DEF TypeOK, ScriptTypes
  <2>4. faults' \in Nat
    BY <1>4, <2>3
  <2> QED
    BY <1>1, <1>12, <2>1, <2>2, <2>4 DEF TypeOK, ScriptTypes
<1> QED
  BY <1>9, <1>11, <1>13 DEF TypeOK

\* The callback thread, the other clients, the end of the Hub's process.
LEMMA HubTypesKept ==
    ASSUME TypeOK, Deliver \/ OthersRun \/ HubDies
    PROVE  TypeOK'
<1>1. CASE Deliver
  <2> USE <1>1 DEF Deliver
  <2>1. HubTypes' /\ ScriptTypes'
    BY DEF TypeOK, HubTypes, ScriptTypes, world, script, reader, monitor
  <2>2. delivery.to \in Client /\ [kind |-> delivery.kind, req |-> delivery.req, seq |-> delivery.seq, local |-> FALSE] \in Messages
    BY DEF TypeOK, HubTypes, Messages
  <2>3. wire' \in [Client -> Seq(Messages)]
    <3> DEFINE c == delivery.to
               e == [kind |-> delivery.kind, req |-> delivery.req, seq |-> delivery.seq, local |-> FALSE]
    <3>1. wire' = wire \/ wire' = [wire EXCEPT ![c] = Append(@, e)]
      OBVIOUS
    <3>2. c \in Client /\ Append(wire[c], e) \in Seq(Messages)
      BY <2>2 DEF TypeOK, NativeTypes
    <3> HIDE DEF c, e
    <3> QED
      BY <3>1, <3>2 DEF TypeOK, NativeTypes
  <2> QED
    BY <2>1, <2>3 DEF TypeOK, NativeTypes, world, nativeVars
<1>2. CASE OthersRun
  BY <1>2 DEF OthersRun, TypeOK, HubTypes, NativeTypes, ScriptTypes, nativeVars, script, reader, monitor
<1>3. CASE HubDies
  <2>1. NoOp \in Operations
    BY DEF NoOp, Operations, Kinds
  <2>2. HubTypes'
    BY <1>3, <2>1 DEF HubDies, TypeOK, HubTypes
  <2>3. NativeTypes'
    BY <1>3 DEF HubDies, TypeOK, NativeTypes, nativeVars
  <2>4. faults' = faults + 1 /\ UNCHANGED <<js, pending, failure, completed, view, broken, streams, accused>>
    BY <1>3 DEF HubDies, Fails, script, reader
  <2>5. ScriptTypes'
    BY <2>4 DEF TypeOK, ScriptTypes
  <2> QED
    BY <2>2, <2>3, <2>5 DEF TypeOK
<1> QED
  BY <1>1, <1>2, <1>3

-----------------------------------------------------------------------------
(* One native run, and what the script knows of it *)

\* A session's operation, the gate and what the script knows, of one client.
LEMMA WorkerKeeps ==
    ASSUME BinderInductive, NEW c \in Client, Works(c)
    PROVE  OneNativeRun' /\ ScriptInv'
<1> USE DEF BinderInductive
<1>1. UNCHANGED <<alive, elsewhere, authorized, present, linked, js>>
  BY DEF Works, Emit, RunFails, Credited, WaitFails, Finish, world, nativeVars, script
<1>2. \A d \in Client \ {c} : op'[d] = op[d] /\ session'[d] = session[d]
  BY DEF Works, Emit, RunFails, Credited, WaitFails, Finish, Worker, TypeOK, HubTypes
<1>3. Busy(c) /\ gate = c
  BY DEF Works, Emit, Says, RunFails, Credited, WaitFails, Finish, Busy, OneNativeRun
<1>4. c # Others /\ c # None /\ None # Others
  BY NamesAssumption
<1>5. CASE Finish(c)
  <2>1. op'[c].at = "none" /\ gate' = None /\ session'[c] = IF session[c] = "closed" THEN "absent" ELSE session[c]
    BY <1>3, <1>5 DEF Finish, NoOp, TypeOK, HubTypes
  <2>2. OneNativeRun'
    BY <1>1, <1>2, <1>3, <1>4, <2>1, NamesAssumption DEF OneNativeRun, Busy
  <2>3. ScriptInv'
    BY <1>1, <1>2, <2>1 DEF ScriptInv, Busy
  <2> QED
    BY <2>2, <2>3
<1>6. CASE ~Finish(c)
  <2>1. UNCHANGED <<gate, session>>
    BY <1>6 DEF Works, Emit, RunFails, Credited, WaitFails
  <2>2. op'[c].at # "none"
    <3> USE DEF Worker, AfterFailure, TypeOK, HubTypes
    <3>1. ASSUME NEW kind \in Kinds, Emit(c, kind) PROVE op'[c].at # "none"
      BY <3>1 DEF Emit, Operations
    <3>2. CASE RunFails(c)
      BY <3>2 DEF RunFails
    <3>3. CASE Credited(c)
      BY <3>3 DEF Credited
    <3>4. CASE WaitFails(c)
      BY <3>4 DEF WaitFails
    <3> QED
      BY <1>6, <3>1, <3>2, <3>3, <3>4 DEF Works, Kinds, Terminals
  <2>3. OneNativeRun'
    BY <1>1, <1>2, <1>3, <2>1, <2>2 DEF OneNativeRun, Busy
  <2>4. ScriptInv'
    BY <1>1, <1>2, <1>3, <2>1, <2>2 DEF ScriptInv, Busy
  <2> QED
    BY <2>3, <2>4
<1> QED
  BY <1>5, <1>6

\* What every other step does to one client's session and operation: an operation
\* goes on or is told to stop, a session stays or is closed.
Kept(c) ==
    /\ UNCHANGED <<gate, elsewhere>>
    /\ op'[c].at = op[c].at
    /\ session'[c] \in {session[c], IF Busy(c) THEN "closed" ELSE "absent"}
    /\ \A d \in Client \ {c} : op'[d] = op[d] /\ session'[d] = session[d]

\* A step that does only what Kept says keeps the one native run, begins or ends no
\* operation, and opens no session.
LEMMA KeptRun ==
    ASSUME OneNativeRun, NEW c \in Client, Kept(c)
    PROVE  OneNativeRun' /\ \A d \in Client : (Busy(d)' <=> Busy(d)) /\ (session[d] = "absent" => session'[d] = "absent")
<1>1. ASSUME NEW d \in Client
      PROVE  (Busy(d)' <=> Busy(d)) /\ (session[d] = "absent" => session'[d] = "absent")
             /\ (session'[d] = session[d] \/ session'[d] = IF Busy(d) THEN "closed" ELSE "absent")
  BY DEF Kept, Busy, OneNativeRun
<1> QED
  BY <1>1 DEF Kept, OneNativeRun

\* Closing a session, with nothing else at work changed, does only what Kept says.
LEMMA Closed ==
    ASSUME TypeOK, NEW c \in Client, Close(c), UNCHANGED <<gate, elsewhere>>
    PROVE  Kept(c) /\ session'[c] # "open"
  BY DEF TypeOK, HubTypes, Operations, Close, Stopped, Kept

\* Where a script may be while its Hub is at work.
Settling == {"calling", "waiting", "yielded", "cleanup", "draining", "releasing", "closing", "stale", "gone"}

\* The calls of a client's script, one by one: only generate begins native work.
LEMMA ScriptKeeps ==
    ASSUME BinderInductive, NEW c \in Client, Script(c)
    PROVE  OneNativeRun' /\ ScriptInv'
<1> USE DEF BinderInductive
<1>1. UNCHANGED <<alive, elsewhere, authorized, present, linked>> /\ \A d \in Client \ {c} : js'[d] = js[d]
  BY DEF Script, HubCreates, CreateReturns, Stream, HubGenerates, GenerateReturns, ListenerGets, Take, TakeFailure,
         Resume, Abandon, Cancel, Cleanup, Release, ReleaseCalled, Drained, DrainFails, Goto, Throws, Yields,
         world, nativeVars, script, TypeOK, ScriptTypes
<1>2. CASE HubCreates(c)
  <2>1. /\ gate' = gate /\ op' = op /\ session'[c] = "open" /\ \A d \in Client \ {c} : session'[d] = session[d]
        /\ js[c] = "none" /\ js'[c] = "creating" /\ alive /\ linked[c]
    BY <1>2 DEF HubCreates, Goto, Connected, TypeOK, HubTypes, ScriptTypes
  <2>2. OneNativeRun'
    BY <1>1, <2>1 DEF OneNativeRun, Busy
  <2>3. ScriptInv'
    BY <1>1, <2>1 DEF ScriptInv, Busy
  <2> QED
    BY <2>2, <2>3
<1>3. CASE CreateReturns(c)
  <2>1. js[c] = "creating" /\ js'[c] = (IF Connected(c) THEN "idle" ELSE "gone") /\ UNCHANGED <<gate, elsewhere>>
    BY <1>1, <1>3 DEF CreateReturns, Goto, TypeOK, ScriptTypes
  <2>2. Kept(c) /\ (Connected(c) \/ Owned(c) => Connected(c) \/ session'[c] # "open") /\ (~Owned(c) => session' = session)
    <3>1. CASE Close(c)
      BY <1>3, <2>1, <3>1, Closed DEF CreateReturns
    <3>2. CASE ~Close(c)
      BY <1>3, <2>1, <3>2 DEF CreateReturns, Kept
    <3> QED
      BY <3>1, <3>2
  <2>3. OneNativeRun' /\ \A d \in Client : (Busy(d)' <=> Busy(d)) /\ (session[d] = "absent" => session'[d] = "absent")
    BY <2>2, KeptRun
  <2>4. ~linked[c] /\ authorized[c] => session'[c] # "open"
    BY <2>2, <2>3 DEF Connected, Owned, ScriptInv
  <2>5. ScriptInv'
    BY <1>1, <2>1, <2>2, <2>3, <2>4 DEF ScriptInv, Kept, Connected
  <2> QED
    BY <2>3, <2>5
<1>4. CASE HubGenerates(c)
  <2>1. session' = session /\ js[c] = "calling" /\ js'[c] \in {"accepted", "refused"}
    BY <1>4 DEF HubGenerates, Goto, TypeOK, ScriptTypes
  <2>2. ScriptInv'
    <3>1. \A d \in Client \ {c} : op'[d] = op[d]
      BY <1>4 DEF HubGenerates, TypeOK, HubTypes
    <3> QED
      BY <1>1, <2>1, <3>1 DEF ScriptInv, Busy
  <2>3. CASE Admits(c)
    <3>1. /\ gate = None /\ gate' = c /\ op'[c].at = "queued" /\ \A d \in Client \ {c} : op'[d] = op[d]
          /\ session[c] = "open"
      BY <1>4, <2>3 DEF HubGenerates, Admits, NoOp, TypeOK, HubTypes
    <3>2. OneNativeRun'
      BY <1>1, <2>1, <3>1, NamesAssumption DEF OneNativeRun, Busy
    <3> QED
      BY <2>2, <3>2
  <2>4. CASE ~Admits(c)
    <3>1. gate' = gate /\ op' = op
      BY <1>4, <2>4 DEF HubGenerates
    <3>2. OneNativeRun'
      BY <1>1, <2>1, <3>1 DEF OneNativeRun, Busy
    <3> QED
      BY <2>2, <3>2
  <2> QED
    BY <2>3, <2>4
<1>5. CASE ReleaseCalled(c)
  <2>1. js[c] = "releasing" /\ js'[c] = "closing" /\ UNCHANGED <<gate, elsewhere>>
    BY <1>1, <1>5 DEF ReleaseCalled, Goto, TypeOK, ScriptTypes
  <2>2. Kept(c) /\ (session'[c] = "open" => session[c] = "open")
    <3>1. CASE Close(c)
      BY <2>1, <3>1, Closed
    <3>2. CASE ~Close(c)
      BY <1>5, <2>1, <3>2 DEF ReleaseCalled, Kept
    <3> QED
      BY <3>1, <3>2
  <2>3. OneNativeRun' /\ \A d \in Client : (Busy(d)' <=> Busy(d)) /\ (session[d] = "absent" => session'[d] = "absent")
    BY <2>2, KeptRun
  <2>4. ScriptInv'
    BY <1>1, <2>1, <2>2, <2>3 DEF ScriptInv, Kept
  <2> QED
    BY <2>3, <2>4
<1>6. CASE Drained(c)
  <2>1. UNCHANGED <<gate, op, session>> /\ ~Busy(c) /\ linked[c] /\ js'[c] \in {"idle", "released"} /\ js[c] \notin {"creating", "dead"}
    BY <1>6 DEF Drained, IsDrained, Connected, hub, Goto, OneNativeRun, TypeOK, ScriptTypes
  <2>2. OneNativeRun'
    BY <1>1, <2>1 DEF OneNativeRun, Busy
  <2>3. ScriptInv'
    BY <1>1, <2>1 DEF ScriptInv, Busy
  <2> QED
    BY <2>2, <2>3
<1>7. CASE ~(HubCreates(c) \/ CreateReturns(c) \/ HubGenerates(c) \/ ReleaseCalled(c) \/ Drained(c))
  <2>1. UNCHANGED <<gate, session>>
    BY <1>7 DEF Script, Stream, GenerateReturns, ListenerGets, Take, TakeFailure, Resume, Abandon, Cancel, Cleanup,
                Release, DrainFails, hub
  <2>2. op' \in {op, Stopped(c), [op EXCEPT ![c].acked = TRUE]}
    BY <1>7 DEF Script, Stream, GenerateReturns, ListenerGets, Take, TakeFailure, Resume, Abandon, Cancel, Cleanup,
                Release, DrainFails, HubCancels, hub
  <2>3. js' = js \/ (js[c] \notin {"creating", "dead"} /\ js'[c] \in Settling)
    BY <1>7 DEF Script, Stream, GenerateReturns, ListenerGets, Take, TakeFailure, Resume, Abandon, Cancel, Cleanup,
                Release, DrainFails, Throws, Yields, Goto, Settling, script, Streaming, TypeOK, ScriptTypes
  <2>4. Kept(c)
    BY <1>1, <2>1, <2>2 DEF Kept, Stopped, TypeOK, HubTypes, Operations
  <2>5. OneNativeRun' /\ \A d \in Client : Busy(d)' <=> Busy(d)
    BY <2>4, KeptRun
  <2>6. ScriptInv'
    BY <1>1, <2>1, <2>3, <2>5 DEF ScriptInv, Settling
  <2> QED
    BY <2>5, <2>6
<1> QED
  BY <1>2, <1>3, <1>4, <1>5, <1>6, <1>7

\* What happens around a client: the clock, events that arrive, disconnection, deaths
\* and revocation close sessions and stop operations, and begin none.
LEMMA AroundKeeps ==
    ASSUME BinderInductive, NEW c \in Client, Around(c)
    PROVE  OneNativeRun' /\ ScriptInv'
<1> USE DEF BinderInductive
<1>1. UNCHANGED <<alive, elsewhere, gate>>
  BY DEF Around, Sweep, TooOld, EventArrives, TransportDies, Disconnect, ClientDies, Revoke, Close, hub, world
<1>2. \/ js' = js
      \/ js'[c] = "dead" /\ \A d \in Client \ {c} : js'[d] = js[d]
  BY DEF Around, Sweep, TooOld, EventArrives, TransportDies, Disconnect, ClientDies, Revoke, Goto, script, TypeOK, ScriptTypes
<1>3. /\ \A d \in Client \ {c} : linked'[d] = linked[d] /\ authorized'[d] = authorized[d]
      /\ linked'[c] = linked[c] \/ ~linked'[c]
      /\ authorized'[c] = authorized[c] \/ ~authorized'[c]
  BY DEF Around, Sweep, TooOld, EventArrives, TransportDies, Disconnect, ClientDies, Revoke, world, nativeVars,
         TypeOK, HubTypes, NativeTypes
<1>4. Kept(c) /\ (session'[c] = "open" => session[c] = "open")
  <2>1. CASE Close(c)
    BY <1>1, <2>1, Closed
  <2>2. CASE ~Close(c)
    <3>1. session' = session /\ op' \in {op, Stopped(c)}
      BY <2>2 DEF Around, Sweep, TooOld, EventArrives, TransportDies, Disconnect, ClientDies, Revoke, hub
    <3> QED
      BY <1>1, <3>1 DEF Kept, Stopped, TypeOK, HubTypes, Operations
  <2> QED
    BY <2>1, <2>2
<1>5. OneNativeRun' /\ \A d \in Client : (Busy(d)' <=> Busy(d)) /\ (session[d] = "absent" => session'[d] = "absent")
  BY <1>4, KeptRun
<1>6. linked[c] /\ ~linked'[c] /\ authorized'[c] /\ js'[c] \notin {"creating", "dead"} => session'[c] # "open"
  <2>1. CASE TransportDies(c)
    BY <2>1, <1>5 DEF TransportDies, ScriptInv
  <2>2. CASE ClientDies(c)
    BY <2>2, <1>2 DEF ClientDies, Goto, TypeOK, ScriptTypes
  <2>3. CASE Disconnect(c)
    <3>1. CASE Owned(c) /\ js[c] # "creating"
      <4>1. Close(c)
        BY <2>3, <3>1 DEF Disconnect
      <4> QED
        BY <1>1, <4>1, Closed
    <3>2. CASE ~Owned(c) \/ js[c] = "creating"
      <4>1. js' = js /\ session' = session /\ authorized' = authorized
        BY <2>3, <3>2 DEF Disconnect, script, world
      <4> QED
        BY <3>2, <4>1 DEF Owned, ScriptInv
    <3> QED
      BY <3>1, <3>2
  <2>4. CASE Sweep(c) \/ TooOld(c) \/ EventArrives(c) \/ Revoke(c)
    BY <2>4 DEF Sweep, TooOld, EventArrives, Revoke, nativeVars
  <2> QED
    BY <2>1, <2>2, <2>3, <2>4 DEF Around
<1>7. ScriptInv'
  <2>1. ASSUME NEW d \in Client
        PROVE  /\ js'[d] \in {"none", "creating", "idle", "released"} => ~Busy(d)'
               /\ session'[d] # "absent" => alive'
               /\ ~linked'[d] /\ authorized'[d] /\ js'[d] \notin {"creating", "dead"} => session'[d] # "open"
    <3>1. CASE d = c
      BY <1>1, <1>2, <1>3, <1>4, <1>5, <1>6, <3>1 DEF ScriptInv, TypeOK, HubTypes, NativeTypes
    <3>2. CASE d # c
      BY <1>1, <1>2, <1>3, <1>4, <1>5, <3>2 DEF ScriptInv, Kept
    <3> QED
      BY <3>1, <3>2
  <2> QED
    BY <2>1 DEF ScriptInv
<1> QED
  BY <1>5, <1>7

\* A delivery, an inference of another client, and the death of the Hub's process.
LEMMA HubKeeps ==
    ASSUME BinderInductive, Deliver \/ OthersRun \/ HubDies
    PROVE  OneNativeRun' /\ ScriptInv'
<1> USE DEF BinderInductive
<1>1. CASE Deliver
  BY <1>1 DEF Deliver, OneNativeRun, ScriptInv, Busy, world, nativeVars, script
<1>2. CASE OthersRun
  <2>1. UNCHANGED <<alive, authorized, session, op, linked, js>>
    BY <1>2 DEF OthersRun, nativeVars, script
  <2>2. \/ elsewhere /\ ~elsewhere' /\ gate = Others /\ gate' = None
        \/ ~elsewhere /\ elsewhere' /\ gate = None /\ gate' = Others
    BY <1>2 DEF OthersRun, OneNativeRun, TypeOK, HubTypes
  <2>3. OneNativeRun'
    BY <2>1, <2>2, NamesAssumption DEF OneNativeRun, Busy
  <2>4. ScriptInv'
    BY <2>1 DEF ScriptInv, Busy
  <2> QED
    BY <2>3, <2>4
<1>3. CASE HubDies
  <2>1. /\ gate' = None /\ ~elsewhere' /\ ~alive' /\ js' = js
        /\ \A d \in Client : session'[d] = "absent" /\ op'[d].at = "none"
    BY <1>3 DEF HubDies, NoOp, script
  <2> QED
    BY <2>1, NamesAssumption DEF OneNativeRun, ScriptInv, Busy
<1> QED
  BY <1>1, <1>2, <1>3

-----------------------------------------------------------------------------
(* Where the events of a stream are *)

\* What an event at the end of a queue changes.
LEMMA Appended ==
    ASSUME NEW q \in Seq(Messages), NEW e \in Messages, NEW r \in Nat
    PROVE  /\ NoneOf(Append(q, e), r) <=> NoneOf(q, r) /\ e.req # r
           /\ NoStarted(Append(q, e), r) <=> NoStarted(q, r) /\ ~(e.req = r /\ e.kind = "started")
           /\ OnlyStarts(q, r) /\ e.req # r => OnlyStarts(Append(q, e), r)
           /\ NoneOf(q, r) /\ e.req = r /\ e.kind = "started" =>
                StartsWith(Append(q, e), r) /\ (e.seq = 0 => OnlyStarts(Append(q, e), r))
           /\ StartsWith(q, r) /\ ~(e.req = r /\ e.kind = "started") => StartsWith(Append(q, e), r)
<1> DEFINE p == Append(q, e)
<1>1. Len(q) \in Nat /\ Len(p) = Len(q) + 1 /\ p[Len(q) + 1] = e /\ \A i \in 1 .. Len(q) : p[i] = q[i]
  OBVIOUS
<1>2. 1 .. Len(p) = (1 .. Len(q)) \cup {Len(q) + 1}
  BY <1>1
<1> HIDE DEF p
<1>3. NoneOf(p, r) <=> NoneOf(q, r) /\ e.req # r
  BY <1>1, <1>2 DEF NoneOf
<1>4. NoStarted(p, r) <=> NoStarted(q, r) /\ ~(e.req = r /\ e.kind = "started")
  BY <1>1, <1>2 DEF NoStarted
<1>5. OnlyStarts(q, r) /\ e.req # r => OnlyStarts(p, r)
  BY <1>1, <1>2 DEF OnlyStarts
<1>6. NoneOf(q, r) /\ e.req = r /\ e.kind = "started" =>
         StartsWith(p, r) /\ (e.seq = 0 => OnlyStarts(p, r))
  BY <1>1, <1>2 DEF NoneOf, StartsWith, OnlyStarts
<1>7. StartsWith(q, r) /\ ~(e.req = r /\ e.kind = "started") => StartsWith(p, r)
  <2> SUFFICES ASSUME StartsWith(q, r), ~(e.req = r /\ e.kind = "started") PROVE StartsWith(p, r)
    OBVIOUS
  <2>1. PICK i \in 1 .. Len(q) :
           /\ q[i].req = r /\ q[i].kind = "started"
           /\ \A j \in 1 .. Len(q) : q[j].req = r => j = i \/ (j > i /\ q[j].kind # "started")
    BY DEF StartsWith
  <2>2. \A j \in 1 .. Len(p) : p[j].req = r => j = i \/ (j > i /\ p[j].kind # "started")
    BY <1>1, <1>2, <2>1
  <2> QED
    BY <1>1, <1>2, <2>1, <2>2 DEF StartsWith
<1> QED
  BY <1>3, <1>4, <1>5, <1>6, <1>7 DEF p

\* What is left of a queue whose first event is taken.
LEMMA TakenOff ==
    ASSUME NEW q \in Seq(Messages), q # << >>, NEW r \in Nat
    PROVE  /\ NoneOf(q, r) => Head(q).req # r /\ NoneOf(Tail(q), r)
           /\ NoStarted(q, r) => NoStarted(Tail(q), r) /\ (Head(q).req = r => Head(q).kind # "started")
           /\ OnlyStarts(q, r) => IF Head(q).req = r
                                  THEN Head(q).kind = "started" /\ Head(q).seq = 0 /\ NoneOf(Tail(q), r)
                                  ELSE OnlyStarts(Tail(q), r)
           /\ StartsWith(q, r) => IF Head(q).req = r
                                  THEN Head(q).kind = "started" /\ NoStarted(Tail(q), r)
                                  ELSE StartsWith(Tail(q), r)
<1> DEFINE t == Tail(q)
<1>1. /\ Len(q) \in Nat /\ Len(q) >= 1 /\ Len(t) = Len(q) - 1
      /\ \A i \in 1 .. Len(t) : t[i] = q[i + 1]
      /\ Head(q) = q[1]
  OBVIOUS
<1>2. /\ \A i \in 1 .. Len(t) : i + 1 \in 1 .. Len(q)
      /\ \A i \in 1 .. Len(q) : i # 1 => i - 1 \in 1 .. Len(t) /\ t[i - 1] = q[i]
      /\ 1 \in 1 .. Len(q)
  BY <1>1
<1> HIDE DEF t
<1>3. NoneOf(q, r) => q[1].req # r /\ NoneOf(t, r)
  BY <1>1, <1>2 DEF NoneOf
<1>4. NoStarted(q, r) => NoStarted(t, r) /\ (q[1].req = r => q[1].kind # "started")
  BY <1>1, <1>2 DEF NoStarted
<1>5. ASSUME OnlyStarts(q, r)
      PROVE  IF q[1].req = r THEN q[1].kind = "started" /\ q[1].seq = 0 /\ NoneOf(t, r) ELSE OnlyStarts(t, r)
  <2>1. PICK i \in 1 .. Len(q) :
           /\ q[i].req = r /\ q[i].kind = "started" /\ q[i].seq = 0
           /\ \A j \in 1 .. Len(q) : q[j].req = r => j = i
    BY <1>5 DEF OnlyStarts
  <2>2. CASE q[1].req = r
    BY <1>1, <1>2, <2>1, <2>2 DEF NoneOf
  <2>3. CASE q[1].req # r
    <3>1. i - 1 \in 1 .. Len(t) /\ t[i - 1] = q[i]
      BY <1>2, <2>1, <2>3
    <3>2. \A j \in 1 .. Len(t) : t[j].req = r => j = i - 1
      BY <1>1, <1>2, <2>1
    <3>3. OnlyStarts(t, r)
      BY <2>1, <3>1, <3>2 DEF OnlyStarts
    <3> QED
      BY <2>3, <3>3
  <2> QED
    BY <2>2, <2>3
<1>6. ASSUME StartsWith(q, r)
      PROVE  IF q[1].req = r THEN q[1].kind = "started" /\ NoStarted(t, r) ELSE StartsWith(t, r)
  <2>1. PICK i \in 1 .. Len(q) :
           /\ q[i].req = r /\ q[i].kind = "started"
           /\ \A j \in 1 .. Len(q) : q[j].req = r => j = i \/ (j > i /\ q[j].kind # "started")
    BY <1>6 DEF StartsWith
  <2>2. CASE q[1].req = r
    <3>1. i = 1
      BY <1>2, <2>1, <2>2
    <3> QED
      BY <1>1, <1>2, <2>1, <2>2, <3>1 DEF NoStarted
  <2>3. CASE q[1].req # r
    <3>1. i - 1 \in 1 .. Len(t) /\ t[i - 1] = q[i]
      BY <1>2, <2>1, <2>3
    <3>2. \A j \in 1 .. Len(t) : t[j].req = r => j = i - 1 \/ (j > i - 1 /\ t[j].kind # "started")
      BY <1>1, <1>2, <2>1
    <3>3. StartsWith(t, r)
      BY <2>1, <3>1, <3>2 DEF StartsWith
    <3> QED
      BY <2>3, <3>3
  <2> QED
    BY <2>2, <2>3
<1> QED
  BY <1>1, <1>3, <1>4, <1>5, <1>6 DEF t

\* One event that starts a response is before all others.
LEMMA OnlyIsFirst ==
    ASSUME NEW q, NEW r
    PROVE  /\ OnlyStarts(q, r) => StartsWith(q, r)
           /\ NoneOf(q, r) => NoStarted(q, r)
  BY DEF OnlyStarts, StartsWith, NoneOf, NoStarted


\* What the client makes up when an operation fails there: the response begins, if it
\* has not, and fails.
LEMMA MadeUp ==
    ASSUME NativeTypes, NEW c \in Client, FailLocally(c), native[c].live
    PROVE  /\ native' = [native EXCEPT ![c].live = FALSE] /\ credit' = [credit EXCEPT ![c] = None]
           /\ \A d \in Client \ {c} : main'[d] = main[d]
           /\ native[c].started /\ NoStarted(main[c], native[c].req) => NoStarted(main'[c], native[c].req)
           /\ native[c].started /\ StartsWith(main[c], native[c].req) => StartsWith(main'[c], native[c].req)
           /\ ~native[c].started /\ NoneOf(main[c], native[c].req) => StartsWith(main'[c], native[c].req)
<1> DEFINE q == main[c]
           r == native[c].req
           s == Local(c, "started")
           f == Local(c, "failed")
<1>1. q \in Seq(Messages) /\ r \in Nat
  BY DEF NativeTypes
<1>2. s \in Messages /\ f \in Messages
  BY LocalEvents DEF Kinds, Terminals
<1>3. s.req = r /\ s.kind = "started" /\ f.req = r /\ f.kind = "failed"
  BY DEF Local, Event
<1>4. /\ native' = [native EXCEPT ![c].live = FALSE] /\ credit' = [credit EXCEPT ![c] = None]
      /\ main' = [main EXCEPT ![c] = q \o (IF native[c].started THEN << >> ELSE <<s>>) \o <<f>>]
  BY DEF FailLocally
<1> HIDE DEF s, f
<1>5. q \o << >> \o <<f>> = Append(q, f) /\ q \o <<s>> \o <<f>> = Append(Append(q, s), f)
  BY <1>1, <1>2
<1>6. main'[c] = IF native[c].started THEN Append(q, f) ELSE Append(Append(q, s), f)
  <2>1. main'[c] = q \o (IF native[c].started THEN << >> ELSE <<s>>) \o <<f>>
    BY <1>4 DEF NativeTypes
  <2> QED
    BY <1>5, <2>1
<1>7. Append(q, s) \in Seq(Messages)
  BY <1>1, <1>2
<1> HIDE DEF q
<1>8. /\ NoStarted(q, r) => NoStarted(Append(q, f), r)
      /\ StartsWith(q, r) => StartsWith(Append(q, f), r)
  BY <1>1, <1>2, <1>3, Appended
<1>9. NoneOf(q, r) => StartsWith(Append(Append(q, s), f), r)
  <2>1. NoneOf(q, r) => StartsWith(Append(q, s), r)
    BY <1>1, <1>2, <1>3, Appended
  <2>2. StartsWith(Append(q, s), r) => StartsWith(Append(Append(q, s), f), r)
    BY <1>1, <1>2, <1>3, <1>7, Appended
  <2> QED
    BY <2>1, <2>2
<1>10. \A d \in Client \ {c} : main'[d] = main[d]
  BY <1>4 DEF NativeTypes
<1> QED
  BY <1>4, <1>6, <1>8, <1>9, <1>10 DEF q

\* What a step leaves alone that does not concern a client's request.
Apart(d) ==
    /\ native'[d] = native[d] /\ credit'[d] = credit[d] /\ main'[d] = main[d] /\ wire'[d] = wire[d]
    /\ js'[d] = js[d] /\ pending'[d] = pending[d] /\ view'[d] = view[d] /\ broken'[d] = broken[d]
    /\ session'[d] = session[d] /\ op'[d] = op[d] /\ authorized'[d] = authorized[d] /\ present'[d] = present[d]
    /\ linked'[d] = linked[d] /\ (alive' => alive)
    /\ delivery' = delivery \/ delivery' = None \/ delivery'.to # d

\* All that is said of one client's stream.
Told(d) == PlaceInv(d) /\ CallingInv(d) /\ AcceptedInv(d) /\ StreamingInv(d)

\* What does not concern a client changes nothing that is said of its stream.
LEMMA ApartTold == ASSUME NEW d \in Client, Told(d), Apart(d) PROVE Told(d)'
<1>1. PlaceInv(d)'
  BY DEF Told, Apart, PlaceInv, Ended
<1>2. StreamingInv(d)'
  BY DEF Told, Apart, StreamingInv, Ended
<1>3. (Connected(d)' => Connected(d)) /\ (Submitted(d)' => Submitted(d) /\ delivery' = delivery) /\ (Fresh(d)' <=> Fresh(d))
      /\ (Busy(d)' <=> Busy(d))
  BY DEF Apart, Connected, Submitted, Fresh, Busy
<1>4. CallingInv(d)'
  BY <1>3 DEF Told, Apart, CallingInv
<1>5. AcceptedInv(d)'
  BY <1>3 DEF Told, Apart, AcceptedInv
<1> QED
  BY <1>1, <1>2, <1>4, <1>5 DEF Told

\* What is said of a stream depends on its own state and on what the client made of the
\* events that came.
LEMMA StreamKept ==
    ASSUME NEW d \in Client, PlaceInv(d), StreamingInv(d), js'[d] = js[d], view'[d] = view[d], broken'[d] = broken[d],
           present'[d] = present[d], native'[d] = native[d], main'[d] = main[d], pending'[d] = pending[d]
    PROVE  PlaceInv(d)' /\ StreamingInv(d)'
  BY DEF PlaceInv, StreamingInv, Ended

\* The worker says response.started once, and nothing more until its credit is back.
LEMMA WorkerTells ==
    ASSUME TypeOK, NEW c \in Client, Told(c), Works(c)
    PROVE  Told(c)'
<1>1. UNCHANGED <<alive, elsewhere, authorized, present, wire, linked, native, credit, main>>
      /\ UNCHANGED <<js, pending, failure, completed, view, broken, streams>>
  BY DEF Works, Emit, RunFails, Credited, WaitFails, Finish, world, nativeVars, script, reader
<1>2. PlaceInv(c)' /\ StreamingInv(c)'
  BY <1>1, StreamKept DEF Told
<1>3. (Connected(c)' <=> Connected(c)) /\ (Fresh(c)' <=> Fresh(c))
  BY <1>1 DEF Connected, Fresh
<1>4. Busy(c) /\ op[c] \in Operations
  BY DEF Works, Emit, Says, RunFails, Credited, WaitFails, Finish, Busy, TypeOK, HubTypes
<1>5. delivery' = delivery \/ delivery' = None \/ delivery'.req = op[c].req
  <2>1. ASSUME NEW kind \in Kinds, Emit(c, kind) PROVE delivery' = delivery \/ delivery'.req = op[c].req
    BY <2>1 DEF Emit
  <2> QED
    BY <2>1 DEF Works, Kinds, RunFails, Credited, WaitFails, Finish
<1>6. CallingInv(c)'
  <2>1. js[c] = "calling" /\ Connected(c) => ~Submitted(c)'
    BY <1>1, <1>4, <1>5 DEF Told, CallingInv, Submitted
  <2>2. op'[c].req = op[c].req \/ ~Busy(c)'
    <3>1. ASSUME NEW kind \in Kinds, Emit(c, kind) PROVE op'[c].req = op[c].req
      BY <3>1 DEF Emit, Worker, TypeOK, HubTypes, Operations
    <3>2. CASE RunFails(c) \/ Credited(c) \/ WaitFails(c)
      BY <3>2 DEF RunFails, Credited, WaitFails, Worker, TypeOK, HubTypes, Operations
    <3>3. CASE Finish(c)
      BY <3>3 DEF Finish, Busy, NoOp, TypeOK, HubTypes
    <3> QED
      BY <3>1, <3>2, <3>3 DEF Works, Kinds
  <2> QED
    BY <1>1, <1>3, <1>4, <2>1, <2>2 DEF Told, CallingInv
<1>7. AcceptedInv(c)'
  <2> SUFFICES ASSUME js[c] = "accepted", Connected(c) PROVE AcceptedInv(c)'
    BY <1>1, <1>3 DEF AcceptedInv
  <2>1. /\ op[c].req = native[c].req /\ ~op[c].acked /\ op[c].at \in {"queued", "await", "failing", "finish"}
        /\ op[c].at = "queued" => op[c].next = 0
        /\ op[c].next <= 1
        /\ op[c].at = "failing" => session[c] # "open" \/ ~authorized[c]
    BY <1>4 DEF Told, AcceptedInv
  <2>2. ASSUME NEW kind \in Kinds, Emit(c, kind), Emits(c, kind) PROVE AcceptedInv(c)'
    <3>1. kind = "started" /\ op[c].at = "queued"
      BY <2>1, <2>2 DEF Emit, Says, Emits
    <3>2. /\ op'[c].at = "await" /\ op'[c].req = op[c].req /\ op'[c].next = 1 /\ ~op'[c].acked /\ session' = session
          /\ delivery' = [to |-> c, kind |-> "started", seq |-> 0, req |-> op[c].req]
      BY <2>1, <2>2, <3>1 DEF Emit, TypeOK, HubTypes, Operations
    <3> QED
      BY <1>1, <1>3, <2>1, <3>1, <3>2 DEF Told, AcceptedInv, Submitted, Busy
  <2>3. ASSUME /\ delivery' \in {delivery, None}
               /\ session' = session /\ op'[c].req = op[c].req /\ op'[c].next = op[c].next /\ ~op'[c].acked
               /\ op'[c].at \in {"failing", "finish"} /\ (op'[c].at = "failing" => session[c] # "open" \/ ~authorized[c])
        PROVE  AcceptedInv(c)'
    BY <1>1, <1>3, <1>4, <2>1, <2>3 DEF Told, AcceptedInv, Submitted, Busy
  <2>4. ASSUME NEW kind \in Kinds, Emit(c, kind), ~Emits(c, kind) PROVE AcceptedInv(c)'
    <3>1. (op[c].at = "failing" /\ op'[c].at = "finish") \/ (op[c].at = "queued" /\ ~(session[c] = "open" /\ authorized[c]))
      BY <2>1, <2>4 DEF Emit, Says, Emits, Worker, TypeOK, HubTypes, Operations, Terminals
    <3>2. /\ delivery' = delivery /\ session' = session /\ op'[c].req = op[c].req /\ op'[c].next = op[c].next
          /\ ~op'[c].acked /\ op'[c].at \in {"failing", "finish"}
      BY <2>1, <2>4 DEF Emit, Worker, AfterFailure, TypeOK, HubTypes, Operations
    <3> QED
      BY <2>3, <3>1, <3>2
  <2>5. CASE RunFails(c) \/ Credited(c)
    BY <2>1, <2>5 DEF RunFails, Credited
  <2>6. CASE WaitFails(c)
    <3>1. op[c].at = "await" /\ session[c] = "closed"
      BY <1>4, <2>1, <2>6 DEF WaitFails, Silent, GivesUp, Told, PlaceInv, Operations
    <3>2. /\ delivery' = None /\ session' = session /\ op'[c].req = op[c].req /\ op'[c].next = op[c].next
          /\ ~op'[c].acked /\ op'[c].at \in {"failing", "finish"}
      BY <2>1, <2>6 DEF WaitFails, AfterFailure, TypeOK, HubTypes, Operations
    <3> QED
      BY <2>3, <3>1, <3>2
  <2>7. CASE Finish(c)
    <3>1. op'[c].at = "none" /\ delivery' = delivery
      BY <2>7 DEF Finish, NoOp, TypeOK, HubTypes
    <3> QED
      BY <1>1, <1>3, <3>1 DEF Told, AcceptedInv, Submitted, Busy
  <2> QED
    BY <2>2, <2>4, <2>5, <2>6, <2>7 DEF Works, Kinds
<1> QED
  BY <1>2, <1>6, <1>7 DEF Told

\* Stopping an operation, closing a session and revoking a caller say nothing of a stream.
LEMMA StoppedTold ==
    ASSUME NEW c \in Client, Told(c),
           native'[c] = native[c], credit'[c] = credit[c], main'[c] = main[c], wire'[c] = wire[c],
           js'[c] = js[c], pending'[c] = pending[c], view'[c] = view[c], broken'[c] = broken[c],
           present'[c] = present[c], linked'[c] = linked[c], alive' = alive, delivery' = delivery,
           op'[c].at = op[c].at, op'[c].req = op[c].req, op'[c].next = op[c].next, op'[c].acked = op[c].acked,
           session'[c] = "open" => session[c] = "open", authorized'[c] => authorized[c]
    PROVE  Told(c)'
<1>1. PlaceInv(c)' /\ StreamingInv(c)'
  BY StreamKept DEF Told
<1>2. /\ Connected(c)' <=> Connected(c) /\ TRUE
      /\ Fresh(c)' <=> Fresh(c)
      /\ Submitted(c)' <=> Submitted(c)
      /\ Busy(c)' <=> Busy(c)
  BY DEF Connected, Fresh, Submitted, Busy
<1>3. CallingInv(c)'
  BY <1>2 DEF Told, CallingInv
<1>4. AcceptedInv(c)'
  BY <1>2 DEF Told, AcceptedInv
<1> QED
  BY <1>1, <1>3, <1>4 DEF Told

\* A stream that waits for nothing, or a connection that is lost: nothing is promised
\* any more of what the Hub may say.
LEMMA NotPromised ==
    ASSUME NEW c \in Client, PlaceInv(c)', StreamingInv(c)', js'[c] \notin {"calling", "accepted"} \/ ~Connected(c)'
    PROVE  Told(c)'
  BY DEF Told, CallingInv, AcceptedInv

\* A failure that the client makes up begins the response first.
LEMMA MadeUpTold ==
    ASSUME TypeOK, NEW c \in Client, PlaceInv(c), StreamingInv(c), FailLocally(c),
           js'[c] = js[c], pending'[c] = pending[c], view'[c] = view[c], broken'[c] = broken[c], present'[c] = present[c]
    PROVE  PlaceInv(c)' /\ StreamingInv(c)'
<1>1. PlaceInv(c)'
  BY DEF PlaceInv, Ended
<1>2. CASE ~native[c].live
  <2>1. native' = native /\ main' = main
    BY <1>2 DEF FailLocally
  <2> QED
    BY <2>1, StreamKept
<1>3. CASE native[c].live
  <2>1. /\ native'[c].req = native[c].req /\ native'[c].started = native[c].started /\ ~native'[c].live
        /\ native[c].started /\ NoStarted(main[c], native[c].req) => NoStarted(main'[c], native[c].req)
        /\ native[c].started /\ StartsWith(main[c], native[c].req) => StartsWith(main'[c], native[c].req)
        /\ ~native[c].started /\ NoneOf(main[c], native[c].req) => StartsWith(main'[c], native[c].req)
    BY <1>3, MadeUp DEF TypeOK, NativeTypes
  <2> QED
    BY <1>1, <1>3, <2>1 DEF StreamingInv, Ended
<1> QED
  BY <1>2, <1>3

\* onEvent: what comes for another request is dropped, what comes in order goes on to
\* the main thread, and the rest fails the operation.
LEMMA ArrivalTold ==
    ASSUME TypeOK, NEW c \in Client, Told(c), EventArrives(c)
    PROVE  Told(c)'
<1> DEFINE e == Head(wire[c])
           r == native[c].req
<1>1. UNCHANGED <<alive, authorized, present, session, op, delivery, linked, js, pending, view, broken>>
      /\ wire[c] # << >> /\ wire'[c] = Tail(wire[c])
  BY DEF EventArrives, hub, world, script, reader, TypeOK, NativeTypes
<1>2. e \in Messages /\ wire[c] \in Seq(Messages) /\ main[c] \in Seq(Messages) /\ r \in Nat
  BY <1>1 DEF TypeOK, NativeTypes
<1>3. /\ NoneOf(wire[c], r) => e.req # r /\ NoneOf(wire'[c], r)
      /\ OnlyStarts(wire[c], r) => IF e.req = r THEN e.kind = "started" /\ e.seq = 0 /\ NoneOf(wire'[c], r)
                                   ELSE OnlyStarts(wire'[c], r)
  BY <1>1, <1>2, TakenOff
<1>4. /\ Connected(c)' <=> Connected(c) /\ TRUE
      /\ Busy(c)' <=> Busy(c)
  BY <1>1 DEF Connected, Busy
<1>5. CASE ~native[c].live \/ e.req # r
  <2>1. UNCHANGED <<native, credit, main>>
    BY <1>5 DEF EventArrives
  <2>2. PlaceInv(c)' /\ StreamingInv(c)'
    BY <1>1, <2>1, StreamKept DEF Told
  <2>3. (Fresh(c)' <=> Fresh(c)) /\ (Submitted(c)' <=> Submitted(c))
    BY <1>1, <2>1 DEF Fresh, Submitted
  <2>4. CallingInv(c)'
    BY <1>1, <1>3, <1>4, <2>1, <2>3 DEF Told, CallingInv
  <2>5. AcceptedInv(c)'
    BY <1>1, <1>3, <1>4, <1>5, <2>1, <2>3 DEF Told, AcceptedInv, Fresh
  <2> QED
    BY <2>2, <2>4, <2>5 DEF Told
<1>6. CASE native[c].live /\ e.req = r /\ InOrder(c, e)
  <2>1. /\ credit'[c] = e.seq /\ main'[c] = Append(main[c], e)
        /\ native'[c].live = (e.kind \notin Terminals) /\ native'[c].started /\ native'[c].req = r
    BY <1>6 DEF EventArrives, TypeOK, NativeTypes
  <2>2. /\ NoStarted(main[c], r) /\ e.kind # "started" => NoStarted(main'[c], r)
        /\ StartsWith(main[c], r) /\ e.kind # "started" => StartsWith(main'[c], r)
        /\ NoneOf(main[c], r) /\ e.kind = "started" =>
             StartsWith(main'[c], r) /\ (e.seq = 0 => OnlyStarts(main'[c], r))
    BY <1>2, <1>6, <2>1, Appended
  <2>3. e.kind = "started" <=> ~native[c].started
    BY <1>6 DEF InOrder
  <2>4. PlaceInv(c)'
    BY <1>1 DEF Told, PlaceInv, Ended
  <2>5. StreamingInv(c)'
    BY <1>1, <1>6, <2>1, <2>2, <2>3 DEF Told, StreamingInv, Ended
  <2>6. CallingInv(c)'
    BY <1>1, <1>3, <1>4, <1>6 DEF Told, CallingInv
  <2>7. AcceptedInv(c)'
    <3> SUFFICES ASSUME js[c] = "accepted", Connected(c) PROVE AcceptedInv(c)'
      BY <1>1, <1>4 DEF AcceptedInv
    <3>1. OnlyStarts(wire[c], r) /\ ~Submitted(c) /\ op[c].at # "queued" /\ Fresh(c)
      BY <1>3, <1>6 DEF Told, AcceptedInv
    <3>2. e.kind = "started" /\ NoneOf(wire'[c], r) /\ OnlyStarts(main'[c], r) /\ native'[c].live
      BY <1>3, <1>6, <2>1, <2>2, <3>1 DEF Fresh, Terminals
    <3>3. ~Submitted(c)' /\ pending'[c] = None
      BY <1>1, <2>1, <3>1 DEF Submitted, Fresh
    <3> QED
      BY <1>1, <1>4, <2>1, <3>1, <3>2, <3>3 DEF Told, AcceptedInv
  <2> QED
    BY <2>4, <2>5, <2>6, <2>7 DEF Told
<1>7. CASE native[c].live /\ e.req = r /\ ~InOrder(c, e)
  <2>1. FailLocally(c)
    BY <1>7 DEF EventArrives
  <2>2. PlaceInv(c)' /\ StreamingInv(c)'
    BY <1>1, <2>1, MadeUpTold DEF Told
  <2>3. ~(js[c] \in {"calling", "accepted"} /\ Connected(c))
    BY <1>3, <1>7 DEF Told, CallingInv, AcceptedInv, Fresh, InOrder
  <2> QED
    BY <1>1, <1>4, <2>2, <2>3, NotPromised
<1> QED
  BY <1>5, <1>6, <1>7

\* The clock, connections and processes that end, and callers that are revoked.
LEMMA SurroundingsTell ==
    ASSUME TypeOK, NEW c \in Client, Told(c), Around(c)
    PROVE  Told(c)'
<1>1. CASE Sweep(c) \/ TooOld(c) \/ Revoke(c)
  <2>1. /\ UNCHANGED <<alive, present, delivery, wire, linked, native, credit, main, js, pending, view, broken>>
        /\ op' \in {op, Stopped(c)}
        /\ session' = session \/ session' = [session EXCEPT ![c] = IF Busy(c) THEN "closed" ELSE "absent"]
        /\ authorized' = authorized \/ authorized' = [authorized EXCEPT ![c] = FALSE]
    BY <1>1 DEF Sweep, TooOld, Revoke, Close, world, nativeVars, script, reader
  <2>2. op'[c].at = op[c].at /\ op'[c].req = op[c].req /\ op'[c].next = op[c].next /\ op'[c].acked = op[c].acked
    BY <2>1 DEF Stopped, TypeOK, HubTypes, Operations
  <2>3. (session'[c] = "open" => session[c] = "open") /\ (authorized'[c] => authorized[c])
    BY <2>1 DEF TypeOK, HubTypes
  <2> QED
    BY <2>1, <2>2, <2>3, StoppedTold
<1>2. CASE EventArrives(c)
  BY <1>2, ArrivalTold
<1>3. CASE TransportDies(c) \/ Disconnect(c)
  <2>1. /\ UNCHANGED <<js, pending, view, broken, present>>
        /\ ~linked'[c]
        /\ FailLocally(c) \/ UNCHANGED <<native, main>>
    BY <1>3 DEF TransportDies, Disconnect, world, script, reader, TypeOK, NativeTypes
  <2>2. PlaceInv(c)' /\ StreamingInv(c)'
    BY <2>1, StreamKept, MadeUpTold DEF Told
  <2> QED
    BY <2>1, <2>2, NotPromised DEF Connected
<1>4. CASE ClientDies(c)
  <2>1. js'[c] = "dead"
    BY <1>4 DEF ClientDies, Goto, TypeOK, ScriptTypes
  <2> QED
    BY <2>1, NotPromised DEF PlaceInv, StreamingInv
<1> QED
  BY <1>1, <1>2, <1>3, <1>4 DEF Around

\* Nothing is promised of a script that is not in a stream.
LEMMA OutOfStream ==
    ASSUME NEW c \in Client, js'[c] \notin Streaming, js'[c] # "dead" => present'[c]
    PROVE  Told(c)'
<1>1. PlaceInv(c)' /\ StreamingInv(c)'
  BY DEF PlaceInv, StreamingInv, Streaming
<1> QED
  BY <1>1, NotPromised DEF Streaming

\* A new request: no event of it can be anywhere.
LEMMA StreamTold ==
    ASSUME TypeOK, RequestInv, NEW c \in Client, Told(c), Stream(c)
    PROVE  Told(c)'
<1>1. /\ UNCHANGED <<hub, world, wire, linked, credit, main>>
      /\ js'[c] = "calling" /\ view'[c] = << >> /\ ~broken'[c] /\ pending'[c] = None
      /\ native'[c] = [live |-> TRUE, req |-> streams + 1, started |-> FALSE, next |-> 0]
      /\ credit[c] = None /\ js[c] # "dead"
  BY DEF Stream, Goto, TypeOK, NativeTypes, ScriptTypes
<1>2. PlaceInv(c)'
  BY <1>1 DEF Told, PlaceInv, world
<1>3. StreamingInv(c)'
  BY <1>1 DEF StreamingInv
<1>4. AcceptedInv(c)'
  BY <1>1 DEF AcceptedInv
<1>5. CallingInv(c)'
  <2>1. /\ \A i \in 1 .. Len(main[c]) : main[c][i].req \in Nat /\ main[c][i].req <= streams
        /\ \A i \in 1 .. Len(wire[c]) : wire[c][i].req \in Nat /\ wire[c][i].req <= streams
    <3>1. main[c] \in Seq(Messages) /\ wire[c] \in Seq(Messages) /\ \A m \in Messages : m.req \in Nat
      BY DEF TypeOK, NativeTypes, Messages
    <3> QED
      BY <3>1 DEF RequestInv
  <2>2. streams \in Nat /\ op[c].req \in Nat /\ op[c].req <= streams
    BY DEF RequestInv, TypeOK, HubTypes, ScriptTypes, Operations
  <2>3. delivery # None => delivery.req \in Nat /\ delivery.req <= streams
    BY DEF RequestInv, TypeOK, HubTypes
  <2>4. NoneOf(main[c], streams + 1) /\ NoneOf(wire[c], streams + 1)
    BY <2>1, <2>2 DEF NoneOf
  <2>5. Fresh(c)'
    BY <1>1, <2>4 DEF Fresh
  <2>6. ~Submitted(c)'
    BY <1>1, <2>2, <2>3 DEF Submitted, hub
  <2>7. op'[c].req # native'[c].req
    BY <1>1, <2>2 DEF hub
  <2> QED
    BY <1>1, <2>4, <2>5, <2>6, <2>7 DEF CallingInv
<1> QED
  BY <1>2, <1>3, <1>4, <1>5 DEF Told

\* generate() reaches the Hub: an operation that has said nothing yet, or a refusal.
LEMMA HubGeneratesTold ==
    ASSUME TypeOK, NEW c \in Client, Told(c), HubGenerates(c)
    PROVE  Told(c)'
<1>1. /\ UNCHANGED <<world, session, delivery, wire, nativeVars, reader>> /\ js[c] = "calling"
      /\ js'[c] = IF Admits(c) THEN "accepted" ELSE "refused"
  BY DEF HubGenerates, Goto, TypeOK, ScriptTypes
<1>2. PlaceInv(c)' /\ StreamingInv(c)' /\ CallingInv(c)'
  BY <1>1 DEF Told, PlaceInv, StreamingInv, CallingInv, world, reader
<1>3. AcceptedInv(c)'
  <2> SUFFICES ASSUME js'[c] = "accepted", Connected(c)' PROVE AcceptedInv(c)'
    BY DEF AcceptedInv
  <2>1. op'[c] = [NoOp EXCEPT !.at = "queued", !.req = native[c].req]
    BY <1>1 DEF HubGenerates, TypeOK, HubTypes
  <2>2. Fresh(c) /\ ~Submitted(c) /\ NoneOf(wire[c], native[c].req)
    BY <1>1 DEF Told, CallingInv, Connected, world, nativeVars
  <2>3. Fresh(c)' /\ ~Submitted(c)' /\ NoneOf(wire'[c], native'[c].req)
    BY <1>1, <2>2 DEF Fresh, Submitted, nativeVars, reader
  <2>4. op'[c].at = "queued" /\ op'[c].req = native'[c].req /\ ~op'[c].acked /\ op'[c].next = 0
    BY <1>1, <2>1 DEF NoOp, nativeVars
  <2> QED
    BY <2>3, <2>4 DEF AcceptedInv
<1> QED
  BY <1>2, <1>3 DEF Told

\* generate() returns.
LEMMA GenerateReturnsTold ==
    ASSUME TypeOK, NEW c \in Client, Told(c), GenerateReturns(c)
    PROVE  Told(c)'
<1>1. UNCHANGED <<alive, linked, present, pending, view>> /\ js[c] \in {"calling", "accepted", "refused"}
  BY DEF GenerateReturns, hub, world
<1>2. CASE js[c] = "accepted" /\ Connected(c)
  <2>1. js'[c] = "waiting" /\ native' = native /\ main' = main /\ broken' = broken
    BY <1>2 DEF GenerateReturns, Goto, TypeOK, ScriptTypes
  <2>2. view[c] = << >> /\ ~broken[c] /\ present[c]
    BY <1>2 DEF Told, PlaceInv
  <2>3. PlaceInv(c)'
    BY <1>1, <2>1, <2>2 DEF PlaceInv, Ended
  <2>4. \/ Fresh(c)
        \/ /\ native[c].live /\ native[c].started
           /\ IF pending[c] = None THEN OnlyStarts(main[c], native[c].req)
              ELSE pending[c].kind = "started" /\ NoneOf(main[c], native[c].req)
    BY <1>2 DEF Told, AcceptedInv
  <2>5. StreamingInv(c)'
    BY <1>1, <2>1, <2>2, <2>4, OnlyIsFirst DEF StreamingInv, Ended, Fresh
  <2> QED
    BY <2>1, <2>3, <2>5, NotPromised
<1>3. CASE ~(js[c] = "accepted" /\ Connected(c))
  <2>1. js'[c] = "cleanup"
    BY <1>3 DEF GenerateReturns, Goto, TypeOK, ScriptTypes
  <2> QED
    BY <1>1, <2>1, OutOfStream DEF Told, PlaceInv, Streaming
<1> QED
  BY <1>2, <1>3

\* The listener takes the events of its request one by one; only one that the client
\* made up takes the place of another.
LEMMA ListenerTold ==
    ASSUME TypeOK, NEW c \in Client, Told(c), ListenerGets(c)
    PROVE  Told(c)'
<1> DEFINE e == Head(main[c])
           r == native[c].req
<1>1. /\ UNCHANGED <<world, gate, session, delivery, wire, linked, native, credit, js, view, broken>>
      /\ main[c] # << >> /\ main'[c] = Tail(main[c])
      /\ ~(js[c] = "waiting" /\ (pending[c] # None \/ failure[c]))
      /\ op' \in {op, Stopped(c)}
  BY DEF ListenerGets, HubCancels, TypeOK, NativeTypes
<1>2. e \in Messages /\ main[c] \in Seq(Messages) /\ r \in Nat
  BY <1>1 DEF TypeOK, NativeTypes
<1>3. \/ e.req # r /\ pending' = pending
      \/ js[c] \notin Streaming /\ pending' = pending
      \/ e.req = r /\ pending[c] # None /\ pending' = pending
      \/ e.req = r /\ pending[c] = None /\ pending'[c] = e
      \/ e.req = r /\ e.local /\ pending'[c] = e
  BY DEF ListenerGets, TypeOK, ScriptTypes
<1>4. /\ NoneOf(main[c], r) => e.req # r /\ NoneOf(main'[c], r)
      /\ NoStarted(main[c], r) => NoStarted(main'[c], r) /\ (e.req = r => e.kind # "started")
      /\ OnlyStarts(main[c], r) => IF e.req = r THEN e.kind = "started" /\ e.seq = 0 /\ NoneOf(main'[c], r)
                                   ELSE OnlyStarts(main'[c], r)
      /\ StartsWith(main[c], r) => IF e.req = r THEN e.kind = "started" /\ NoStarted(main'[c], r)
                                   ELSE StartsWith(main'[c], r)
  BY <1>1, <1>2, TakenOff
<1>5. op'[c].at = op[c].at /\ op'[c].req = op[c].req /\ op'[c].next = op[c].next /\ op'[c].acked = op[c].acked
  BY <1>1 DEF Stopped, TypeOK, HubTypes, Operations
<1>6. /\ Connected(c)' <=> Connected(c) /\ TRUE
      /\ Busy(c)' <=> Busy(c)
      /\ Submitted(c)' <=> Submitted(c)
  BY <1>1, <1>5 DEF Connected, Busy, Submitted, world
<1>7. Fresh(c) => (e.req # r /\ pending' = pending) \/ js[c] \notin Streaming
  BY <1>3, <1>4 DEF Fresh
<1>8. Fresh(c) /\ js[c] \in Streaming => Fresh(c)'
  BY <1>1, <1>4, <1>7 DEF Fresh
<1>9. e # None
  BY <1>2, NoMessageAssumption
<1>10. PlaceInv(c)'
  BY <1>1 DEF Told, PlaceInv, Ended, world
<1>11. CallingInv(c)'
  BY <1>1, <1>5, <1>6, <1>8 DEF Told, CallingInv, Streaming
<1>12. AcceptedInv(c)'
  <2> SUFFICES ASSUME js[c] = "accepted", Connected(c) PROVE AcceptedInv(c)'
    BY <1>1, <1>6 DEF AcceptedInv
  <2>1. CASE Fresh(c)
    BY <1>1, <1>5, <1>6, <1>8, <2>1 DEF Told, AcceptedInv, Streaming, world
  <2>2. CASE ~Fresh(c)
    <3>1. /\ native[c].live /\ native[c].started
          /\ ~Submitted(c) /\ NoneOf(wire[c], native[c].req)
          /\ IF pending[c] = None THEN OnlyStarts(main[c], native[c].req)
             ELSE pending[c].kind = "started" /\ NoneOf(main[c], native[c].req)
      BY <2>2 DEF Told, AcceptedInv
    <3>2. IF pending'[c] = None THEN OnlyStarts(main'[c], r) ELSE pending'[c].kind = "started" /\ NoneOf(main'[c], r)
      BY <1>3, <1>4, <1>9, <3>1 DEF Streaming
    <3>3. op[c].at # "queued"
      BY <2>2 DEF Told, AcceptedInv
    <3> QED
      BY <1>1, <1>5, <1>6, <3>1, <3>2, <3>3 DEF Told, AcceptedInv, world
  <2> QED
    BY <2>1, <2>2
<1>13. StreamingInv(c)'
  BY <1>1, <1>3, <1>4, <1>9 DEF Told, PlaceInv, StreamingInv, Ended, Streaming
<1> QED
  BY <1>10, <1>11, <1>12, <1>13 DEF Told

\* The generator takes what the listener has put down: it yields it, or throws and
\* leaves the stream.
LEMMA TakeTold ==
    ASSUME TypeOK, NEW c \in Client, Told(c), Take(c)
    PROVE  Told(c)'
<1> DEFINE e == pending[c]
<1>1. js[c] = "waiting" /\ e # None /\ pending'[c] = None /\ UNCHANGED <<world, native, main>>
  BY DEF Take, TypeOK, ScriptTypes
<1>2. Throws(c) \/ Yields(c, e)
  BY DEF Take
<1>3. CASE Throws(c)
  <2>1. js'[c] = "cleanup"
    BY <1>3 DEF Throws, Goto, TypeOK, ScriptTypes
  <2> QED
    BY <1>1, <2>1, OutOfStream DEF Told, PlaceInv, Streaming, world
<1>4. CASE Yields(c, e)
  <2> DEFINE shown == IF e.kind \in Terminals THEN "terminal" ELSE e.kind
  <2>1. js'[c] = "yielded" /\ view'[c] = Append(view[c], shown) /\ broken' = broken
    BY <1>4 DEF Yields, Goto, TypeOK, ScriptTypes
  <2>2. view'[c] # << >>
    <3>1. view[c] \in Seq({"started", "delta", "terminal"}) /\ e \in Messages
      BY <1>1 DEF TypeOK, ScriptTypes
    <3>2. shown \in {"started", "delta", "terminal"}
      BY <3>1 DEF Messages, Kinds, Terminals
    <3> HIDE DEF shown
    <3>3. Append(view[c], shown) # << >>
      BY <3>1, <3>2
    <3> QED
      BY <2>1, <3>3 DEF shown
  <2>3. PlaceInv(c)'
    BY <1>1, <2>1, <2>2 DEF Told, PlaceInv, world
  <2>4. /\ native[c].started \/ ~native[c].live
        /\ NoStarted(main[c], native[c].req)
    BY <1>1 DEF Told, PlaceInv, StreamingInv
  <2>5. StreamingInv(c)'
    BY <1>1, <2>1, <2>2, <2>4 DEF StreamingInv
  <2> QED
    BY <2>1, <2>3, <2>5, NotPromised
<1> QED
  BY <1>2, <1>3, <1>4

\* The consumer goes on, or leaves.
LEMMA ResumeTold ==
    ASSUME TypeOK, NEW c \in Client, Told(c), Resume(c)
    PROVE  Told(c)'
<1>1. js[c] = "yielded" /\ js'[c] = (IF Ended(c) THEN "cleanup" ELSE "waiting")
      /\ UNCHANGED <<world, native, main, pending, view, broken>>
  BY DEF Resume, Goto, nativeVars, reader, TypeOK, ScriptTypes
<1>2. CASE Ended(c)
  BY <1>1, <1>2, OutOfStream DEF Told, PlaceInv, Streaming, world
<1>3. CASE ~Ended(c)
  <2>1. PlaceInv(c)' /\ StreamingInv(c)'
    BY <1>1, <1>3 DEF Told, PlaceInv, StreamingInv, Ended, world
  <2> QED
    BY <1>1, <1>3, <2>1, NotPromised
<1> QED
  BY <1>2, <1>3

\* The calls of a script, one by one.
LEMMA ScriptTells ==
    ASSUME TypeOK, RequestInv, NEW c \in Client, Told(c), Script(c)
    PROVE  Told(c)'
<1>1. CASE Stream(c) \/ HubGenerates(c) \/ GenerateReturns(c) \/ ListenerGets(c) \/ Take(c) \/ Resume(c)
  BY <1>1, StreamTold, HubGeneratesTold, GenerateReturnsTold, ListenerTold, TakeTold, ResumeTold
<1>2. CASE Cancel(c)
  <2>1. UNCHANGED <<world, gate, session, delivery, wire, nativeVars, js, pending, view, broken>> /\ op' \in {op, Stopped(c)}
    BY <1>2 DEF Cancel, HubCancels
  <2>2. op'[c].at = op[c].at /\ op'[c].req = op[c].req /\ op'[c].next = op[c].next /\ op'[c].acked = op[c].acked
    BY <2>1 DEF Stopped, TypeOK, HubTypes, Operations
  <2> QED
    BY <2>1, <2>2, StoppedTold DEF world, nativeVars
<1>3. CASE \/ HubCreates(c) \/ CreateReturns(c) \/ TakeFailure(c) \/ Abandon(c) \/ Cleanup(c)
           \/ Release(c) \/ ReleaseCalled(c) \/ Drained(c) \/ DrainFails(c)
  <2>1. /\ js[c] # "dead" /\ present' = present
        /\ js'[c] \in {"creating", "idle", "gone", "cleanup", "draining", "releasing", "closing", "released", "stale"}
    BY <1>3 DEF HubCreates, CreateReturns, TakeFailure, Abandon, Cleanup, Release, ReleaseCalled, Drained, DrainFails,
                Throws, Goto, world, TypeOK, ScriptTypes
  <2> QED
    BY <2>1, OutOfStream DEF Told, PlaceInv, Streaming
<1> QED
  BY <1>1, <1>2, <1>3 DEF Script

\* Steps of a client leave all others alone, whatever they say of the Hub's callback.
LEMMA OthersApart ==
    ASSUME TypeOK, NEW c \in Client, NEW d \in Client \ {c}, Works(c) \/ Script(c) \/ Around(c)
    PROVE  Apart(d)
<1>1. alive' = alive
  BY DEF Works, Emit, RunFails, Credited, WaitFails, Finish, Script, HubCreates, CreateReturns, Stream, HubGenerates,
         GenerateReturns, ListenerGets, Take, TakeFailure, Resume, Abandon, Cancel, Cleanup, Release, ReleaseCalled,
         Drained, DrainFails, Around, Sweep, TooOld, EventArrives, TransportDies, Disconnect, ClientDies, Revoke, world
<1>2. CASE Works(c)
  <2>1. UNCHANGED <<alive, authorized, present, wire, linked, native, credit, main, js, pending, view, broken>>
    BY <1>2 DEF Works, Emit, RunFails, Credited, WaitFails, Finish, world, nativeVars, script, reader
  <2>2. op'[d] = op[d] /\ session'[d] = session[d]
    BY <1>2 DEF Works, Emit, RunFails, Credited, WaitFails, Finish, Worker, TypeOK, HubTypes
  <2>3. delivery' = delivery \/ delivery' = None \/ delivery'.to # d
    <3>1. ASSUME NEW kind \in Kinds, Emit(c, kind) PROVE delivery' = delivery \/ delivery'.to # d
      BY <3>1 DEF Emit
    <3> QED
      BY <1>2, <3>1 DEF Works, Kinds, RunFails, Credited, WaitFails, Finish
  <2> QED
    BY <2>1, <2>2, <2>3 DEF Apart
<1>3. CASE Script(c)
  <2>1. UNCHANGED <<authorized, present, wire, linked, delivery>>
    BY <1>3 DEF Script, HubCreates, CreateReturns, Stream, HubGenerates, GenerateReturns, ListenerGets, Take, TakeFailure,
                Resume, Abandon, Cancel, Cleanup, Release, ReleaseCalled, Drained, DrainFails, hub, world, nativeVars
  <2>2. op'[d] = op[d] /\ session'[d] = session[d]
    BY <1>3 DEF Script, HubCreates, CreateReturns, Stream, HubGenerates, GenerateReturns, ListenerGets, Take, TakeFailure,
                Resume, Abandon, Cancel, Cleanup, Release, ReleaseCalled, Drained, DrainFails, hub, HubCancels, Stopped,
                Close, TypeOK, HubTypes
  <2>3. native'[d] = native[d] /\ credit'[d] = credit[d] /\ main'[d] = main[d]
    BY <1>3 DEF Script, HubCreates, CreateReturns, Stream, HubGenerates, GenerateReturns, ListenerGets, Take, TakeFailure,
                Resume, Abandon, Cancel, Cleanup, Release, ReleaseCalled, Drained, DrainFails, nativeVars, FailLocally, Forget,
                TypeOK, NativeTypes
  <2>4. js'[d] = js[d] /\ pending'[d] = pending[d] /\ view'[d] = view[d] /\ broken'[d] = broken[d]
    BY <1>3 DEF Script, HubCreates, CreateReturns, Stream, HubGenerates, GenerateReturns, ListenerGets, Take, TakeFailure,
                Resume, Abandon, Cancel, Cleanup, Release, ReleaseCalled, Drained, DrainFails, script, reader, Goto, Throws,
                Yields, TypeOK, ScriptTypes
  <2> QED
    BY <1>1, <2>1, <2>2, <2>3, <2>4 DEF Apart
<1>4. CASE Around(c)
  <2>1. delivery' = delivery /\ UNCHANGED <<view, broken>>
    BY <1>4 DEF Around, Sweep, TooOld, EventArrives, TransportDies, Disconnect, ClientDies, Revoke, hub, script, reader
  <2>2. op'[d] = op[d] /\ session'[d] = session[d] /\ authorized'[d] = authorized[d] /\ present'[d] = present[d]
    BY <1>4 DEF Around, Sweep, TooOld, EventArrives, TransportDies, Disconnect, ClientDies, Revoke, hub, world, Close, Stopped,
                TypeOK, HubTypes, NativeTypes
  <2>3. native'[d] = native[d] /\ credit'[d] = credit[d] /\ main'[d] = main[d] /\ wire'[d] = wire[d] /\ linked'[d] = linked[d]
    BY <1>4 DEF Around, Sweep, TooOld, EventArrives, TransportDies, Disconnect, ClientDies, Revoke, nativeVars, FailLocally,
                TypeOK, NativeTypes
  <2>4. js'[d] = js[d] /\ pending'[d] = pending[d]
    BY <1>4 DEF Around, Sweep, TooOld, EventArrives, TransportDies, Disconnect, ClientDies, Revoke, script, reader, Goto,
                TypeOK, ScriptTypes
  <2> QED
    BY <1>1, <2>1, <2>2, <2>3, <2>4 DEF Apart
<1> QED
  BY <1>2, <1>3, <1>4

\* The Hub's callback thread puts an event on the wire, other clients use the gate,
\* and a Hub that dies takes its promises along.
LEMMA HubTells ==
    ASSUME TypeOK, NEW c \in Client, Told(c), Deliver \/ OthersRun \/ HubDies
    PROVE  Told(c)'
<1>1. CASE OthersRun
  <2>1. Apart(c)
    BY <1>1 DEF OthersRun, Apart, nativeVars, script, reader
  <2> QED
    BY <2>1, ApartTold
<1>2. CASE HubDies
  <2>1. ~alive' /\ UNCHANGED <<present, linked, native, main, js, pending, view, broken>>
    BY <1>2 DEF HubDies, nativeVars, script, reader
  <2> QED
    BY <2>1, StreamKept, NotPromised DEF Told, Connected
<1>3. CASE Deliver /\ delivery.to # c
  <2>1. wire'[c] = wire[c]
    BY <1>3 DEF Deliver, TypeOK, NativeTypes
  <2>2. Apart(c)
    BY <1>3, <2>1 DEF Deliver, Apart, world, nativeVars, script, reader
  <2> QED
    BY <2>2, ApartTold
<1>4. CASE Deliver /\ delivery.to = c
  <2> DEFINE e == [kind |-> delivery.kind, req |-> delivery.req, seq |-> delivery.seq, local |-> FALSE]
             r == native[c].req
  <2>1. /\ delivery # None /\ delivery' = None
        /\ UNCHANGED <<alive, authorized, present, session, op, linked, native, credit, main, js, pending, view, broken>>
        /\ wire'[c] = wire[c] \/ wire'[c] = Append(wire[c], e)
    BY <1>4 DEF Deliver, world, nativeVars, script, reader, TypeOK, NativeTypes
  <2>2. e \in Messages /\ wire[c] \in Seq(Messages) /\ r \in Nat
    BY <2>1 DEF TypeOK, HubTypes, NativeTypes, Messages
  <2>3. e.req = delivery.req /\ e.kind = delivery.kind /\ e.seq = delivery.seq
    OBVIOUS
  <2>4. ~Submitted(c)' /\ (Submitted(c) <=> e.req = r)
    BY <1>4, <2>1, <2>3 DEF Submitted
  <2>5. /\ (Connected(c)' <=> Connected(c)) /\ (Fresh(c)' <=> Fresh(c)) /\ (Busy(c)' <=> Busy(c))
    BY <2>1 DEF Connected, Fresh, Busy
  <2> HIDE DEF e
  <2>6. /\ NoneOf(wire[c], r) /\ e.req # r => NoneOf(wire'[c], r)
        /\ OnlyStarts(wire[c], r) /\ e.req # r => OnlyStarts(wire'[c], r)
        /\ NoneOf(wire[c], r) /\ e.req = r /\ e.kind = "started" /\ e.seq = 0 =>
             NoneOf(wire'[c], r) \/ OnlyStarts(wire'[c], r)
    <3>1. CASE wire'[c] = wire[c]
      BY <3>1
    <3>2. CASE wire'[c] = Append(wire[c], e)
      <4>1. /\ NoneOf(Append(wire[c], e), r) <=> NoneOf(wire[c], r) /\ e.req # r
            /\ OnlyStarts(wire[c], r) /\ e.req # r => OnlyStarts(Append(wire[c], e), r)
            /\ NoneOf(wire[c], r) /\ e.req = r /\ e.kind = "started" /\ e.seq = 0 => OnlyStarts(Append(wire[c], e), r)
        BY <2>2, Appended
      <4> QED
        BY <3>2, <4>1
    <3> QED
      BY <2>1, <3>1, <3>2
  <2>7. PlaceInv(c)' /\ StreamingInv(c)'
    BY <2>1, StreamKept DEF Told
  <2>8. CallingInv(c)'
    BY <2>1, <2>4, <2>5, <2>6 DEF Told, CallingInv
  <2>9. AcceptedInv(c)'
    BY <2>1, <2>3, <2>4, <2>5, <2>6 DEF Told, AcceptedInv
  <2> QED
    BY <2>7, <2>8, <2>9 DEF Told
<1> QED
  BY <1>1, <1>2, <1>3, <1>4

\* No event of a request precedes it.
Within(q, n) == \A i \in 1 .. Len(q) : q[i].req <= n

\* Events taken, a limit that grows.
LEMMA WithinKept ==
    ASSUME NEW q \in Seq(Messages), NEW m \in Nat, NEW n \in Nat, Within(q, m), m <= n
    PROVE  /\ Within(q, n) /\ Within(<< >>, n)
           /\ q # << >> => Within(Tail(q), n) /\ Head(q).req <= n
<1>0. \A x \in Messages : x.req \in Nat
  BY DEF Messages
<1>1. Within(q, n)
  BY <1>0 DEF Within
<1>2. q # << >> => Within(Tail(q), n) /\ Head(q).req <= n
  BY <1>1 DEF Within
<1>3. Within(<< >>, n)
  BY DEF Within
<1> QED
  BY <1>1, <1>2, <1>3

\* An event of a known request, at the end of a queue.
LEMMA WithinAppended ==
    ASSUME NEW q \in Seq(Messages), NEW e \in Messages, NEW n \in Nat, Within(q, n), e.req <= n
    PROVE  Within(Append(q, e), n)
  BY DEF Within

\* What the client makes up is of its request.
LEMMA MadeUpWithin ==
    ASSUME NativeTypes, NEW c \in Client, FailLocally(c), NEW n \in Nat, native[c].req <= n, Within(main[c], n)
    PROVE  Within(main'[c], n) /\ native'[c].req = native[c].req
<1> DEFINE q == main[c]
           s == Local(c, "started")
           f == Local(c, "failed")
<1>1. q \in Seq(Messages) /\ s \in Messages /\ f \in Messages /\ s.req = native[c].req /\ f.req = native[c].req
  BY LocalEvents DEF NativeTypes, Local, Event, Kinds, Terminals
<1>2. \/ main'[c] = q
      \/ main'[c] = q \o (IF native[c].started THEN << >> ELSE <<s>>) \o <<f>>
  BY DEF FailLocally, NativeTypes
<1> HIDE DEF q, s, f
<1>3. q \o << >> \o <<f>> = Append(q, f) /\ q \o <<s>> \o <<f>> = Append(Append(q, s), f)
  BY <1>1
<1>4. main'[c] \in {q, Append(q, f), Append(Append(q, s), f)}
  BY <1>2, <1>3
<1>5. Append(q, s) \in Seq(Messages) /\ Within(q, n) /\ Within(Append(q, s), n)
  <2>1. Within(q, n)
    BY DEF q
  <2>2. Within(Append(q, s), n)
    BY <1>1, <2>1, WithinAppended
  <2> QED
    BY <1>1, <2>1, <2>2
<1>6. Within(Append(q, f), n) /\ Within(Append(Append(q, s), f), n)
  <2>1. s.req <= n /\ f.req <= n
    BY <1>1
  <2> QED
    BY <1>1, <1>5, <2>1, WithinAppended
<1>7. native'[c].req = native[c].req
  BY DEF FailLocally, NativeTypes
<1> QED
  BY <1>4, <1>5, <1>6, <1>7

\* What is known of the requests of one client, with n streams started.
Requested(d, n) ==
    native[d].req <= n /\ op[d].req <= n /\ Within(wire[d], n) /\ Within(main[d], n)

\* The worker speaks of the request of its operation.
LEMMA WorkerRequests ==
    ASSUME TypeOK, RequestInv, NEW c \in Client, Works(c)
    PROVE  /\ streams' = streams /\ native'[c] = native[c] /\ wire'[c] = wire[c] /\ main'[c] = main[c]
           /\ op'[c].req \in {op[c].req, 0}
           /\ delivery' # None => delivery'.req <= streams'
<1>1. UNCHANGED <<streams, native, wire, main>>
  BY DEF Works, Emit, RunFails, Credited, WaitFails, Finish, nativeVars, script, reader
<1>2. ASSUME NEW kind \in Kinds, Emit(c, kind)
      PROVE  op'[c].req = op[c].req /\ (delivery' = delivery \/ delivery'.req = op[c].req)
  BY <1>2 DEF Emit, Worker, TypeOK, HubTypes, Operations
<1>3. ASSUME RunFails(c) \/ Credited(c) \/ WaitFails(c) \/ Finish(c)
      PROVE  op'[c].req \in {op[c].req, 0} /\ delivery' \in {delivery, None}
  BY <1>3 DEF RunFails, Credited, WaitFails, Finish, Worker, NoOp, TypeOK, HubTypes, Operations
<1> QED
  BY <1>1, <1>2, <1>3 DEF Works, Kinds, RequestInv

\* The script asks for the next request, and the Hub is told of it.
LEMMA ScriptRequests ==
    ASSUME TypeOK, NEW c \in Client, Requested(c, streams), Script(c)
    PROVE  streams' \in {streams, streams + 1} /\ delivery' = delivery /\ Requested(c, streams)'
<1> USE DEF Script, HubCreates, CreateReturns, Stream, HubGenerates, GenerateReturns, ListenerGets, Take, TakeFailure,
        Resume, Abandon, Cancel, Cleanup, Release, ReleaseCalled, Drained, DrainFails
<1>1. UNCHANGED <<delivery, wire>> /\ streams' \in {streams, streams + 1}
  BY DEF hub, nativeVars, script, reader
<1>2. op'[c].req \in {op[c].req, native[c].req}
  <2>1. op' = op \/ op' = Stopped(c) \/ op' = [op EXCEPT ![c].acked = TRUE]
        \/ op' = [op EXCEPT ![c] = [NoOp EXCEPT !.at = "queued", !.req = native[c].req]]
    BY DEF hub, Close, HubCancels
  <2> QED
    BY <2>1 DEF Stopped, NoOp, TypeOK, HubTypes, Operations
<1>3. \/ FailLocally(c) /\ streams' = streams
      \/ streams' = streams /\ native'[c].req = native[c].req /\ main'[c] = main[c]
      \/ streams' = streams /\ native'[c].req = native[c].req /\ main[c] # << >> /\ main'[c] = Tail(main[c])
      \/ streams' = streams + 1 /\ native'[c].req = streams + 1 /\ main' = main
  BY DEF Forget, hub, nativeVars, script, reader, TypeOK, NativeTypes
<1>4. streams \in Nat /\ native[c].req \in Nat /\ op[c].req \in Nat /\ main[c] \in Seq(Messages) /\ wire[c] \in Seq(Messages)
      /\ NativeTypes
  BY DEF TypeOK, HubTypes, NativeTypes, ScriptTypes, Operations
<1>5. native[c].req <= streams /\ op[c].req <= streams /\ Within(main[c], streams) /\ Within(wire[c], streams)
  BY DEF Requested
<1> HIDE DEF Script
<1>6. /\ Within(wire[c], streams') /\ Within(main[c], streams')
      /\ main[c] # << >> => Within(Tail(main[c]), streams')
  BY <1>1, <1>4, <1>5, WithinKept
<1>7. native'[c].req <= streams' /\ Within(main'[c], streams')
  <2>1. CASE FailLocally(c) /\ streams' = streams
    BY <1>4, <1>5, <2>1, MadeUpWithin
  <2>2. CASE ~(FailLocally(c) /\ streams' = streams)
    BY <1>3, <1>4, <1>5, <1>6, <2>2
  <2> QED
    BY <2>1, <2>2
<1>8. op'[c].req <= streams'
  BY <1>1, <1>2, <1>4, <1>5
<1> QED
  BY <1>1, <1>6, <1>7, <1>8 DEF Requested

\* What happens around a client brings no event of a request it has not made.
LEMMA AroundRequests ==
    ASSUME TypeOK, NEW c \in Client, Requested(c, streams), Around(c)
    PROVE  streams' = streams /\ delivery' = delivery /\ Requested(c, streams)'
<1> USE DEF Around, Sweep, TooOld, EventArrives, TransportDies, Disconnect, ClientDies, Revoke
<1>1. UNCHANGED <<delivery, streams>>
  BY DEF hub, script, reader
<1>2. op'[c].req = op[c].req
  <2>1. op' \in {op, Stopped(c)}
    BY DEF hub, Close
  <2> QED
    BY <2>1 DEF Stopped, TypeOK, HubTypes, Operations
<1>3. \/ FailLocally(c)
      \/ native'[c].req = native[c].req /\ main'[c] = main[c]
      \/ native'[c].req = native[c].req /\ wire[c] # << >> /\ main'[c] = Append(main[c], Head(wire[c]))
      \/ native'[c] = Gone /\ main'[c] = << >>
  <2>1. CASE EventArrives(c)
    <3> HIDE DEF Around
    <3> DEFINE e == Head(wire[c])
    <3>1. wire[c] # << >>
      BY <2>1
    <3>2. \/ UNCHANGED <<native, main>> \/ FailLocally(c)
          \/ /\ main' = [main EXCEPT ![c] = Append(@, e)]
             /\ native' = [native EXCEPT ![c].live = e.kind \notin Terminals, ![c].started = TRUE, ![c].next = e.seq + 1]
      BY <2>1
    <3> HIDE DEF EventArrives, e
    <3>3. CASE /\ main' = [main EXCEPT ![c] = Append(@, e)]
               /\ native' = [native EXCEPT ![c].live = e.kind \notin Terminals, ![c].started = TRUE, ![c].next = e.seq + 1]
      <4>1. main'[c] = Append(main[c], e) /\ native'[c].req = native[c].req
        BY <3>3 DEF TypeOK, NativeTypes
      <4> QED
        BY <3>1, <4>1 DEF e
    <3> QED
      BY <3>2, <3>3
  <2>2. CASE ~EventArrives(c)
    BY <2>2 DEF nativeVars, TypeOK, NativeTypes
  <2> QED
    BY <2>1, <2>2
<1>4. \/ wire' = wire
      \/ wire'[c] = << >>
      \/ wire[c] # << >> /\ wire'[c] = Tail(wire[c])
  BY DEF TypeOK, NativeTypes
<1>5. streams \in Nat /\ main[c] \in Seq(Messages) /\ wire[c] \in Seq(Messages) /\ NativeTypes
      /\ native[c].req <= streams /\ op[c].req <= streams /\ Within(main[c], streams) /\ Within(wire[c], streams)
  BY DEF Requested, TypeOK, NativeTypes, ScriptTypes
<1> HIDE DEF Around
<1>6. Within(<< >>, streams)
      /\ (wire[c] # << >> => Within(Tail(wire[c]), streams) /\ Head(wire[c]).req <= streams /\ Head(wire[c]) \in Messages)
  BY <1>5, WithinKept
<1>7. wire[c] # << >> => Within(Append(main[c], Head(wire[c])), streams)
  BY <1>5, <1>6, WithinAppended
<1>8. native'[c].req <= streams /\ Within(main'[c], streams)
  <2>1. CASE FailLocally(c)
    BY <1>5, <2>1, MadeUpWithin
  <2>2. CASE ~FailLocally(c)
    <3>1. Gone.req = 0 /\ 0 <= streams
      BY <1>5 DEF Gone
    <3> QED
      BY <1>3, <1>5, <1>6, <1>7, <2>2, <3>1
  <2> QED
    BY <2>1, <2>2
<1>9. Within(wire'[c], streams)
  BY <1>4, <1>5, <1>6
<1> QED
  BY <1>1, <1>2, <1>5, <1>8, <1>9 DEF Requested

\* What is known of a client's requests holds still when more streams are started.
LEMMA RequestedLater ==
    ASSUME TypeOK, NEW d \in Client, Requested(d, streams), streams' \in {streams, streams + 1},
           native'[d] = native[d], op'[d] = op[d], wire'[d] = wire[d], main'[d] = main[d]
    PROVE  Requested(d, streams)'
<1>1. streams \in Nat /\ main[d] \in Seq(Messages) /\ wire[d] \in Seq(Messages) /\ native[d].req \in Nat /\ op[d].req \in Nat
  BY DEF TypeOK, HubTypes, NativeTypes, ScriptTypes, Operations
<1>2. Within(main[d], streams') /\ Within(wire[d], streams')
  BY <1>1, WithinKept DEF Requested
<1> QED
  BY <1>1, <1>2 DEF Requested

\* The requests of all clients are known from those of each.
LEMMA AllRequested ==
    RequestInv <=> \A d \in Client : Requested(d, streams) /\ (delivery # None => delivery.req <= streams)
  BY DEF RequestInv, Requested, Within

\* No step brings an event of a request that was not made.
LEMMA RequestsKept ==
    ASSUME TypeOK, RequestInv, Next
    PROVE  RequestInv'
<1>1. \A d \in Client : Requested(d, streams) /\ (delivery # None => delivery.req <= streams)
  BY AllRequested
<1>2. streams \in Nat /\ (delivery # None => delivery.req \in Nat)
  BY DEF TypeOK, HubTypes, ScriptTypes
<1>3. ASSUME NEW c \in Client, Works(c) \/ Script(c) \/ Around(c)
      PROVE  RequestInv'
  <2>1. streams' \in {streams, streams + 1} /\ Requested(c, streams)' /\ (delivery' # None => delivery'.req <= streams')
    <3>1. CASE Works(c)
      BY <1>1, <1>2, <3>1, WorkerRequests DEF Requested
    <3>2. CASE Script(c)
      BY <1>1, <1>2, <3>2, ScriptRequests
    <3>3. CASE Around(c)
      BY <1>1, <1>2, <3>3, AroundRequests
    <3> QED
      BY <1>3, <3>1, <3>2, <3>3
  <2>2. ASSUME NEW d \in Client \ {c} PROVE Requested(d, streams)'
    <3>1. Apart(d)
      BY <1>3, OthersApart
    <3> QED
      BY <1>1, <2>1, <3>1, RequestedLater DEF Apart
  <2>3. \A d \in Client : Requested(d, streams)' /\ (delivery' # None => delivery'.req <= streams')
    BY <2>1, <2>2
  <2> QED
    BY <2>3 DEF RequestInv, Requested, Within
<1>4. ASSUME Deliver \/ OthersRun \/ HubDies
      PROVE  RequestInv'
  <2>1. UNCHANGED <<streams, native, main>> /\ delivery' \in {delivery, None}
    BY <1>4 DEF Deliver, OthersRun, HubDies, nativeVars, script, reader
  <2>2. ASSUME NEW d \in Client PROVE Requested(d, streams)'
    <3>1. op'[d].req \in {op[d].req, 0}
      <4>1. op' = op \/ op' = [c \in Client |-> NoOp]
        BY <1>4 DEF Deliver, OthersRun, HubDies
      <4> QED
        BY <4>1 DEF NoOp
    <3>2. Within(wire'[d], streams)
      <4>1. CASE wire'[d] = wire[d]
        BY <1>1, <4>1 DEF Requested
      <4>2. CASE wire'[d] # wire[d]
        <5> DEFINE e == [kind |-> delivery.kind, req |-> delivery.req, seq |-> delivery.seq, local |-> FALSE]
        <5>1. delivery # None /\ wire'[d] = Append(wire[d], e)
          BY <1>4, <4>2 DEF Deliver, OthersRun, HubDies, TypeOK, NativeTypes
        <5>2. e \in Messages /\ e.req <= streams /\ wire[d] \in Seq(Messages)
          BY <1>1, <5>1 DEF TypeOK, HubTypes, NativeTypes, Messages
        <5> HIDE DEF e
        <5> QED
          BY <1>1, <1>2, <5>1, <5>2, WithinAppended DEF Requested
      <4> QED
        BY <4>1, <4>2
    <3> QED
      BY <1>1, <1>2, <2>1, <3>1, <3>2 DEF Requested
  <2>3. \A d \in Client : Requested(d, streams)' /\ (delivery' # None => delivery'.req <= streams')
    BY <1>1, <2>1, <2>2
  <2> QED
    BY <2>3 DEF RequestInv, Requested, Within
<1> QED
  BY <1>3, <1>4 DEF Next

\* Where the events of all streams are, after any step.
LEMMA EventsKept ==
    ASSUME TypeOK, EventInv, Next
    PROVE  EventInv'
<1>1. RequestInv /\ \A d \in Client : Told(d)
  BY DEF EventInv, Told
<1>2. ASSUME NEW d \in Client PROVE Told(d)'
  <2>1. CASE Works(d) \/ Script(d) \/ Around(d)
    BY <1>1, <2>1, WorkerTells, ScriptTells, SurroundingsTell
  <2>2. CASE \E c \in Client \ {d} : Works(c) \/ Script(c) \/ Around(c)
    BY <1>1, <2>2, OthersApart, ApartTold
  <2>3. CASE Deliver \/ OthersRun \/ HubDies
    BY <1>1, <2>3, HubTells
  <2> QED
    BY <2>1, <2>2, <2>3 DEF Next
<1>3. RequestInv'
  BY <1>1, RequestsKept
<1> QED
  BY <1>2, <1>3 DEF EventInv, Told

\* What stream() does is what CanonicalStream allows: an event taken is the first and
\* begins the response, or comes after it and does not; an error comes in an open
\* stream; and a new stream begins with nothing shown.
LEMMA CanonicalStep ==
    ASSUME TypeOK, EventInv, Next
    PROVE  Observed!Next \/ UNCHANGED <<view, broken>>
<1>1. \A c \in Client : PlaceInv(c) /\ StreamingInv(c)
  BY DEF EventInv
<1>2. ASSUME NEW c \in Client, Stream(c) PROVE Observed!Again(c)
  BY <1>2 DEF Stream, Observed!Again
<1>3. ASSUME NEW c \in Client, Throws(c), js[c] = "waiting" PROVE Observed!Broken(c)
  BY <1>1, <1>3 DEF Throws, PlaceInv, Ended, Observed!Broken, Observed!Open
<1>4. ASSUME NEW c \in Client, GenerateReturns(c) PROVE Observed!Broken(c) \/ UNCHANGED <<view, broken>>
  BY <1>1, <1>4 DEF GenerateReturns, PlaceInv, Observed!Broken
<1>5. ASSUME NEW c \in Client, Take(c)
      PROVE  Observed!Started(c) \/ Observed!Content(c) \/ Observed!Finished(c) \/ Observed!Broken(c)
  <2> DEFINE e == pending[c]
             shown == IF e.kind \in Terminals THEN "terminal" ELSE e.kind
  <2>1. js[c] = "waiting" /\ e # None /\ (Throws(c) \/ Yields(c, e))
    BY <1>5 DEF Take
  <2>2. e.kind \in Kinds
    BY <2>1 DEF TypeOK, ScriptTypes, Messages
  <2>3. ~Ended(c) /\ ~broken[c] /\ (view[c] = << >> <=> e.kind = "started")
    BY <1>1, <2>1 DEF PlaceInv, StreamingInv
  <2>4. CASE Yields(c, e)
    <3>1. Observed!Receives(c, shown)
      BY <2>4 DEF Yields, Observed!Receives
    <3>2. IF view[c] = << >> THEN shown = "started" ELSE shown \in {"delta", "terminal"}
      BY <2>2, <2>3 DEF Kinds, Terminals
    <3> HIDE DEF shown
    <3>3. view[c] # << >> => Observed!Open(c)
      BY <2>3 DEF Ended, Observed!Open
    <3> QED
      BY <2>3, <3>1, <3>2, <3>3 DEF Observed!Started, Observed!Content, Observed!Finished
  <2>5. CASE Throws(c)
    BY <1>3, <2>1, <2>5
  <2> QED
    BY <2>1, <2>4, <2>5
<1>6. ASSUME NEW c \in Client, TakeFailure(c) PROVE Observed!Broken(c)
  BY <1>3, <1>6 DEF TakeFailure
<1>7. ASSUME NEW c \in Client, Works(c) \/ Around(c) PROVE UNCHANGED <<view, broken>>
  BY <1>7 DEF Works, Emit, RunFails, Credited, WaitFails, Finish, Around, Sweep, TooOld, EventArrives, TransportDies,
              Disconnect, ClientDies, Revoke, script, reader
<1>8. ASSUME NEW c \in Client, Script(c), ~(Stream(c) \/ GenerateReturns(c) \/ Take(c) \/ TakeFailure(c))
      PROVE  UNCHANGED <<view, broken>>
  BY <1>8 DEF Script, HubCreates, CreateReturns, HubGenerates, ListenerGets, Resume, Abandon, Cancel, Cleanup, Release,
              ReleaseCalled, Drained, DrainFails, script, reader
<1>9. ASSUME Deliver \/ OthersRun \/ HubDies PROVE UNCHANGED <<view, broken>>
  BY <1>9 DEF Deliver, OthersRun, HubDies, script, reader
<1> QED
  BY <1>2, <1>4, <1>5, <1>6, <1>7, <1>8, <1>9 DEF Next, Observed!Next

\* Nothing is shown, and nothing is on its way.
LEMMA InitEvents == Init => EventInv
<1> SUFFICES ASSUME Init PROVE EventInv
  OBVIOUS
<1>1. RequestInv
  BY DEF Init, RequestInv, NoOp, Gone
<1>2. ASSUME NEW c \in Client PROVE PlaceInv(c) /\ CallingInv(c) /\ AcceptedInv(c) /\ StreamingInv(c)
  BY DEF Init, PlaceInv, CallingInv, AcceptedInv, StreamingInv
<1> QED
  BY <1>1, <1>2 DEF EventInv

\* A step that changes nothing changes nothing that is said of a stream.
LEMMA Stutters == ASSUME EventInv, UNCHANGED vars PROVE EventInv'
<1>1. UNCHANGED <<alive, gate, session, op, delivery, authorized, present, wire, linked, native, credit, main, js,
                  pending, view, broken, streams>>
  BY DEF vars, hub, world, nativeVars, script, reader, monitor
<1>2. ASSUME NEW c \in Client PROVE Apart(c)
  BY <1>1 DEF Apart
<1>3. \A c \in Client : Told(c)'
  BY <1>2, ApartTold DEF EventInv, Told
<1>4. RequestInv'
  BY <1>1 DEF EventInv, RequestInv
<1> QED
  BY <1>3, <1>4 DEF EventInv, Told

-----------------------------------------------------------------------------
\* Nothing has happened yet.
LEMMA InitBinder == Init => BinderInductive
<1> SUFFICES ASSUME Init PROVE BinderInductive
  OBVIOUS
<1>1. << >> \in Seq(Messages) /\ << >> \in Seq({"started", "delta", "terminal"})
  OBVIOUS
<1>2. NoOp \in Operations /\ Gone \in [live : BOOLEAN, req : Nat, started : BOOLEAN, next : Nat]
  BY DEF NoOp, Gone, Operations, Kinds
<1>3. HubTypes
  BY <1>2 DEF Init, HubTypes
<1>4. NativeTypes
  BY <1>1, <1>2 DEF Init, NativeTypes
<1>5. ScriptTypes
  BY <1>1 DEF Init, ScriptTypes, Places
<1>6. OneNativeRun /\ ScriptInv
  BY NamesAssumption DEF Init, OneNativeRun, ScriptInv, Busy, NoOp
<1> QED
  BY <1>3, <1>4, <1>5, <1>6, InitEvents DEF BinderInductive, TypeOK

\* For any number of clients and faults there is one native run in the Hub's
\* process, and the scripts know of it (InferenceCoordinator, execute(), waitForDrain).
THEOREM BinderIsInductive == Spec => []BinderInductive
<1>1. BinderInductive /\ [Next]_vars => BinderInductive'
  <2> SUFFICES ASSUME BinderInductive, [Next]_vars PROVE BinderInductive'
    OBVIOUS
  <2>0. EventInv'
    BY EventsKept, Stutters DEF BinderInductive
  <2>1. CASE UNCHANGED vars
    BY <2>0, <2>1 DEF vars, hub, world, nativeVars, script, reader, monitor, BinderInductive, TypeOK, HubTypes, NativeTypes,
                ScriptTypes, OneNativeRun, ScriptInv, Busy
  <2>2. ASSUME NEW c \in Client, Works(c) PROVE BinderInductive'
    BY <2>0, <2>2, WorkerTypes, WorkerKeeps DEF BinderInductive
  <2>3. ASSUME NEW c \in Client, Script(c) PROVE BinderInductive'
    BY <2>0, <2>3, ScriptTypesKept, ScriptKeeps DEF BinderInductive
  <2>4. ASSUME NEW c \in Client, Around(c) PROVE BinderInductive'
    BY <2>0, <2>4, AroundTypes, AroundKeeps DEF BinderInductive
  <2>5. CASE Deliver \/ OthersRun \/ HubDies
    BY <2>0, <2>5, HubTypesKept, HubKeeps DEF BinderInductive
  <2> QED
    BY <2>1, <2>2, <2>3, <2>4, <2>5 DEF Next
<1> QED
  BY <1>1, InitBinder, PTL DEF Spec

\* stream() and release() settle only after the Hub has drained (waitForDrain of
\* androidTransport.ts), for any number of clients and faults.
THEOREM SettledAlwaysMeansDrained == Spec => []SettledMeansDrained
<1>1. BinderInductive => SettledMeansDrained
  BY DEF BinderInductive, ScriptInv, SettledMeansDrained
<1> QED
  BY <1>1, BinderIsInductive, PTL

\* A client that disconnected leaves no open session (close() and the late
\* createSession of AndroidHubClient.kt), for any number of clients and faults.
THEOREM NeverAnOrphan == Spec => []NoOrphanSession
<1>1. BinderInductive => NoOrphanSession
  BY DEF BinderInductive, ScriptInv, NoOrphanSession
<1> QED
  BY <1>1, BinderIsInductive, PTL

\* Whatever dies, is revoked, cancelled or late, stream() of androidTransport.ts yields a
\* canonical stream, for any number of clients, streams, events and faults.
THEOREM StreamsAlwaysCanonical == Spec => ConsumersSeeCanonicalStreams
<1>1. Init => Observed!Init
  BY DEF Init, Observed!Init
<1>2. BinderInductive /\ [Next]_vars => [Observed!Next]_<<view, broken>>
  BY CanonicalStep DEF BinderInductive, vars, script, reader
<1> QED
  BY <1>1, <1>2, BinderIsInductive, PTL DEF Spec, ConsumersSeeCanonicalStreams, Observed!Spec
=============================================================================
