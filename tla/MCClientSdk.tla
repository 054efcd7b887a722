---------------------------- MODULE MCClientSdk ----------------------------
(* Small instances, side by side, of the two layers of the SDK in an
   application's process: the session of the client and the backend below it.
   Neither trusts the other, so each is checked in its own environment: a
   behaviour moves the one or the other. *)
EXTENDS ClientSession

CONSTANT Request    \* requests of the provider

ASSUME RequestAssumption == None \notin Request

VARIABLES mover, place, lease, context, loading, active, cleanup, closing, poisoned, unresolved, closer

backendVars == <<place, lease, context, loading, active, cleanup, closing, poisoned, unresolved, closer>>

Backend == INSTANCE EmbeddedBackend WITH pc <- place, attempt <- cleanup, closed <- closing

MCInit == mover \in {"session", "backend"} /\ Init /\ Backend!Init

MCNext ==
    /\ UNCHANGED mover
    /\ \/ mover = "session" /\ Next /\ UNCHANGED backendVars
       \/ mover = "backend" /\ Backend!Next /\ UNCHANGED vars

MCSpec == MCInit /\ [][MCNext]_<<mover, vars, backendVars>> /\ Fairness /\ Backend!Fairness

\* The properties of EmbeddedBackend.
LeaseIsTracked == Backend!LeaseIsTracked
EverybodyEnds == Backend!EverybodyEnds
=============================================================================
