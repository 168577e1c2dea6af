------------------------------- MODULE Access -------------------------------
(***************************************************************************)
(* What tokens promise: a grant is a right to act as one user, given while *)
(* the user exists, withdrawn for good, and never handed on.  A request    *)
(* takes up a grant that stands at that moment, by presenting the secret   *)
(* of that very grant, and acts as its user until it ends.                 *)
(***************************************************************************)
CONSTANTS Users, TokenIds, Workers, NULL, Unborn, Dead

VARIABLES
    users,          \* the users there are
    grant,          \* the user each token stands for, Unborn or Dead
    acting          \* the token and user each worker acts by, or NULL

vars == <<users, grant, acting>>

Init ==
    /\ users = Users
    /\ grant = [t \in TokenIds |-> Unborn]
    /\ acting = [w \in Workers |-> NULL]

Give(t, u) ==
    /\ u \in users
    /\ grant[t] = Unborn
    /\ grant' = [grant EXCEPT ![t] = u]
    /\ UNCHANGED <<users, acting>>

Withdraw(t) ==
    /\ grant[t] \in Users
    /\ grant' = [grant EXCEPT ![t] = Dead]
    /\ UNCHANGED <<users, acting>>

Leave(u) ==
    /\ users' = users \ {u}
    /\ grant' = [t \in TokenIds |-> IF grant[t] = u THEN Dead ELSE grant[t]]
    /\ UNCHANGED acting

Act(w, t) ==
    /\ acting[w] = NULL
    /\ grant[t] \in Users
    /\ acting' = [acting EXCEPT ![w] = [token |-> t, user |-> grant[t]]]
    /\ UNCHANGED <<users, grant>>

Finish(w) ==
    /\ acting' = [acting EXCEPT ![w] = NULL]
    /\ UNCHANGED <<users, grant>>

Next ==
    \/ \E t \in TokenIds : Withdraw(t) \/ \E u \in Users : Give(t, u)
    \/ \E u \in Users : Leave(u)
    \/ \E w \in Workers : Finish(w) \/ \E t \in TokenIds : Act(w, t)

Spec == Init /\ [][Next]_vars
=============================================================================
