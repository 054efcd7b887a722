---------------------------- MODULE ModelCatalog ----------------------------
(***************************************************************************)
(* What a model store promises the applications that load models from it,  *)
(* whatever downloads, crashes and failures it goes through: a model is    *)
(* offered or it is not, it is used only while it is offered, and it is    *)
(* never withdrawn from under a user.  ModelStore implements this          *)
(* specification.                                                          *)
(***************************************************************************)
EXTENDS Naturals

CONSTANT Model

VARIABLES offered,     \* the models an application may acquire
          users        \* how many leases each model has

vars == <<offered, users>>

Init == /\ offered = {}
        /\ users = [m \in Model |-> 0]

Offer(m) == /\ users[m] = 0
            /\ offered' = offered \cup {m}
            /\ UNCHANGED users

Withdraw(m) == /\ users[m] = 0
               /\ offered' = offered \ {m}
               /\ UNCHANGED users

Use(m) == /\ m \in offered
          /\ users' = [users EXCEPT ![m] = @ + 1]
          /\ UNCHANGED offered

Return(m) == /\ users[m] > 0
             /\ users' = [users EXCEPT ![m] = @ - 1]
             /\ UNCHANGED offered

\* The process dies and takes every user with it.
Restart == /\ users' = [m \in Model |-> 0]
           /\ UNCHANGED offered

Next == \/ \E m \in Model : Offer(m) \/ Withdraw(m) \/ Use(m) \/ Return(m)
        \/ Restart

Spec == Init /\ [][Next]_vars
=============================================================================
