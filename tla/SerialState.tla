---------------------------- MODULE SerialState ----------------------------
(***************************************************************************)
(* What parallel execution of transactions on a state should look like: a  *)
(* worker changes only accounts it holds, its changes are given up or      *)
(* committed as a whole, and it gives an account back only when what can   *)
(* be read of it is what is stored.  So transactions take effect in the    *)
(* order in which they release their accounts.  There is one copy of every *)
(* account; the object tables of MStateDB.tla implement it.                *)
(***************************************************************************)
CONSTANTS Workers, Accounts, Free,
          Views,      \* what can be read of an account that exists
          Absent      \* an account that does not exist

VARIABLES holder, world, stored

vars == <<holder, world, stored>>

Locks == INSTANCE LockService

Held(w) == {a \in Accounts : holder[a] = w}

Init ==
    /\ Locks!Init
    /\ world = stored

Acquire(w, a) ==
    /\ Locks!Grant(w, a)
    /\ UNCHANGED <<world, stored>>

\* The account may be acquired in the same step.
Write(w, a) ==
    /\ Locks!Grant(w, a)
    /\ \E v \in Views : world' = [world EXCEPT ![a] = v]
    /\ UNCHANGED stored

Revert(w) ==
    /\ world' = [a \in Accounts |-> IF a \in Held(w) THEN stored[a] ELSE world[a]]
    /\ UNCHANGED <<holder, stored>>

\* Some of the accounts may be removed.
Commit(w) ==
    /\ \E gone \in SUBSET Held(w) :
          world' = [a \in Accounts |-> IF a \in gone THEN Absent ELSE world[a]]
    /\ stored' = [a \in Accounts |-> IF a \in Held(w) THEN world'[a] ELSE stored[a]]
    /\ UNCHANGED holder

Release(w) ==
    /\ \A a \in Held(w) : world[a] = stored[a]
    /\ Locks!Release(w)
    /\ UNCHANGED <<world, stored>>

Next ==
    \E w \in Workers :
        \/ \E a \in Accounts : Acquire(w, a) \/ Write(w, a)
        \/ Revert(w)
        \/ Commit(w)
        \/ Release(w)

Spec == Init /\ [][Next]_vars
=============================================================================
