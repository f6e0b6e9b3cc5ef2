---------------------------- MODULE WorldState ----------------------------
(***************************************************************************)
(* What a StateDB promises its caller: a table of accounts, a refund       *)
(* counter and a set of preimages, each operation changing one of them,    *)
(* and a stack of snapshots that are full copies.  There are no objects,   *)
(* caches, journal or trie here; StateDB.tla implements this module.       *)
(***************************************************************************)
EXTENDS Integers, Sequences

CONSTANTS Addresses, Keys, PdxKeys, Values, Zero, Codes, EmptyCode,
          Nonces, Balances, Hashes,
          NoObject      \* an account that does not exist

VARIABLES world,        \* [accounts, refund, preimages]
          snapshots     \* Seq of [id, world]

vars == <<world, snapshots>>

Fresh == [nonce |-> 0, balance |-> 0, code |-> EmptyCode, suicided |-> FALSE,
          storage |-> [k \in Keys |-> Zero], pdx |-> [k \in PdxKeys |-> Zero]]

IsEmpty(acc) == acc.nonce = 0 /\ acc.balance = 0 /\ acc.code = EmptyCode

Exists(addr) == world.accounts[addr] # NoObject

\* The account an operation on addr works on, created if there is none.
OrNew(addr) == IF Exists(addr) THEN world.accounts[addr] ELSE Fresh

Put(addr, acc) ==
    /\ world' = [world EXCEPT !.accounts[addr] = acc]
    /\ UNCHANGED snapshots

Init ==
    /\ world.refund = 0
    /\ world.preimages = {}
    /\ snapshots = << >>

\* One field of one account is written, the others keep their values.  An
\* addition of nothing still makes the account exist.
Write(addr) ==
    \/ \E n \in Nonces : Put(addr, [OrNew(addr) EXCEPT !.nonce = n])
    \/ \E b \in Balances : Put(addr, [OrNew(addr) EXCEPT !.balance = b])
    \/ \E c \in Codes : Put(addr, [OrNew(addr) EXCEPT !.code = c])
    \/ \E k \in Keys, v \in Values :
          Put(addr, [OrNew(addr) EXCEPT !.storage[k] = v])
    \/ \E k \in PdxKeys, v \in Values :
          Put(addr, [OrNew(addr) EXCEPT !.pdx[k] = v])

\* A fresh account takes the place of an old one and inherits its balance.
CreateAccount(addr) ==
    Put(addr, [Fresh EXCEPT !.balance = OrNew(addr).balance])

Suicide(addr) ==
    /\ Exists(addr)
    /\ Put(addr, [world.accounts[addr] EXCEPT !.suicided = TRUE, !.balance = 0])

AddRefund ==
    /\ world'.refund > world.refund
    /\ world' = [world EXCEPT !.refund = world'.refund]
    /\ UNCHANGED snapshots

AddPreimage(hash) ==
    /\ world' = [world EXCEPT !.preimages = @ \cup {hash}]
    /\ UNCHANGED snapshots

\* Ids are never used twice within a transaction.
Snapshot ==
    /\ snapshots' # << >>
    /\ LET id == snapshots'[Len(snapshots')].id
       IN  /\ \A i \in 1..Len(snapshots) : snapshots[i].id < id
           /\ snapshots' = Append(snapshots, [id |-> id, world |-> world])
    /\ UNCHANGED world

\* The state is the copy; the snapshot and all the later ones are gone.
RevertToSnapshot(idx) ==
    /\ world' = snapshots[idx].world
    /\ snapshots' = SubSeq(snapshots, 1, idx - 1)

\* Suicided accounts go, and with deleteEmptyObjects some of the empty ones.
Finalise ==
    \E gone \in SUBSET {a \in Addresses : Exists(a)} :
        /\ \A a \in Addresses : Exists(a) =>
              /\ world.accounts[a].suicided => a \in gone
              /\ a \in gone => \/ world.accounts[a].suicided
                               \/ IsEmpty(world.accounts[a])
        /\ world' = [world EXCEPT
                        !.accounts = [a \in Addresses |->
                            IF a \in gone THEN NoObject ELSE @[a]],
                        !.refund = 0]
        /\ snapshots' = << >>

Next ==
    \/ \E a \in Addresses : Write(a) \/ CreateAccount(a) \/ Suicide(a)
    \/ AddRefund
    \/ \E h \in Hashes : AddPreimage(h)
    \/ Snapshot
    \/ \E idx \in 1..Len(snapshots) : RevertToSnapshot(idx)
    \/ Finalise

Spec == Init /\ [][Next]_vars
=============================================================================
