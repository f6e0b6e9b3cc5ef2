----------------------------- MODULE MCMStateDB -----------------------------
(***************************************************************************)
(* MStateDB for TLC.  Some accounts are calm, every call is made on the    *)
(* others; workers, and accounts of one kind, are interchangeable.         *)
(***************************************************************************)
EXTENDS MStateDB, TLC

CONSTANT Quiet    \* the accounts that are calm

QuietOrAll == [a \in Accounts |-> IF a \in Quiet THEN {"create", "revert"} ELSE CallKinds]

Symmetry == Permutations(Workers) \cup Permutations(Quiet) \cup Permutations(Accounts \ Quiet)
=============================================================================
