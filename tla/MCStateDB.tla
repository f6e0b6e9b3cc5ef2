----------------------------- MODULE MCStateDB -----------------------------
(***************************************************************************)
(* StateDB for TLC: the accounts the trie starts with.                     *)
(***************************************************************************)
EXTENDS StateDB, TLC

CONSTANT one    \* a storage value, a contract's code and a preimage's hash

\* An empty account and, where the value sets allow, one that has something
\* in every field.
MCStored ==
    {[nonce |-> n, balance |-> 0, code |-> EmptyCode,
      root |-> [k \in Keys \cup PdxKeys |-> v]] : n \in Nonces, v \in Values}
=============================================================================
