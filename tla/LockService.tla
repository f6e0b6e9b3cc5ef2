---------------------------- MODULE LockService ----------------------------
(***************************************************************************)
(* What the account locks promise to the code that uses them: an account   *)
(* is granted to one worker at a time and stays with it until the worker   *)
(* gives all its accounts back.  AccountLock.tla implements this module,   *)
(* MStateDB.tla builds on it.                                              *)
(***************************************************************************)
CONSTANTS Workers, Accounts,
          Free        \* nobody holds the account

VARIABLE holder       \* who may use each account

Init == holder = [a \in Accounts |-> Free]

Grant(w, a) ==
    /\ holder[a] \in {w, Free}
    /\ holder' = [holder EXCEPT ![a] = w]

Release(w) ==
    holder' = [a \in Accounts |-> IF holder[a] = w THEN Free ELSE holder[a]]

Next == \E w \in Workers : Release(w) \/ \E a \in Accounts : Grant(w, a)

Spec == Init /\ [][Next]_holder
=============================================================================
