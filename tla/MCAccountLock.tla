--------------------------- MODULE MCAccountLock ---------------------------
(***************************************************************************)
(* AccountLock for TLC: the symmetry of its instances.                     *)
(***************************************************************************)
EXTENDS AccountLock, TLC

\* Workers, hashes and accounts are only ever compared for equality.
Symmetry ==
    Permutations(Workers) \cup Permutations(Txs) \cup Permutations(Accounts)
=============================================================================
