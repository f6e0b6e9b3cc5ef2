------------------------------ MODULE MStateDB ------------------------------
(***************************************************************************)
(* The account objects under parallel execution                            *)
(* (core/state/multi_statedb.go).  Every worker has a StateDB with its own *)
(* stateObjects; the workers share MContext.stateObjects and the trie.     *)
(* Every operation on an account begins with requestAndLock, modelled by   *)
(* LockService, which AccountLock implements; so an operation is one step. *)
(*                                                                         *)
(* Objects are shared by reference: heap is the objects that were          *)
(* allocated, tables hold their indices.  balance is the one field that    *)
(* Suicide and CreateAccount treat specially; nonce stands for the others. *)
(* Nested snapshots are in StateDB.tla; here a transaction takes one when  *)
(* it begins.                                                              *)
(***************************************************************************)
EXTENDS Integers, Sequences, FiniteSets

CONSTANTS Workers, Accounts, Free,
          Nonces, Balances,
          Absent,       \* no account
          Nil,          \* no object
          Calls,        \* which calls are made on each account, see CallKinds
          MaxObjects,   \* bounds of the runs: objects allocated ...
          MaxJournal,   \* ... journal entries of a transaction ...
          MaxTxs        \* ... and transactions

\* Beyond reads and the setters: an account is created where there is none,
\* created again over the one there is, removed, or the changes of a
\* transaction are undone, its creation too.
CallKinds == {"create", "reset", "remove", "revert", "uncreate"}

ASSUME CallsAssumption == Calls \in [Accounts -> SUBSET CallKinds]
ASSUME NilAssumption == Nil \notin Nat /\ Free \notin Workers
ASSUME FieldsAssumption ==
    /\ Nonces \subseteq Nat /\ 0 \in Nonces
    /\ Balances \subseteq Nat /\ 0 \in Balances
ASSUME BoundsAssumption == MaxTxs \in Nat

Account == [nonce : Nonces, balance : Balances]
Object == [data : Account, suicided : BOOLEAN, deleted : BOOLEAN]

\* Absent is neither what the trie stores nor an object.
ASSUME AbsentAssumption == Absent \notin Account \cup Object

VARIABLES
    holder,         \* who holds the lock of each account
    heap,           \* the objects: data, suicided, deleted
    own,            \* stateObjects of every worker's StateDB
    shared,         \* MContext.stateObjects
    trie,           \* the trie all the workers share
    journal,        \* journal.entries of every worker
    phase,          \* "idle", "running", "reverting", "finalised"
    begun           \* transactions begun so far

tables == <<heap, own, shared>>
vars == <<holder, tables, trie, journal, phase, begun>>

Locks == INSTANCE LockService

newObject(data) == [data |-> data, suicided |-> FALSE, deleted |-> FALSE]

NewAccount == [nonce |-> 0, balance |-> 0]

\* NewMStateDB: empty tables over the trie of the given StateDB.
Init ==
    /\ Locks!Init
    /\ heap = << >>
    /\ own = [w \in Workers |-> [a \in Accounts |-> Nil]]
    /\ shared = [a \in Accounts |-> Nil]
    /\ trie \in [Accounts -> {NewAccount, Absent}]
    /\ journal = [w \in Workers |-> << >>]
    /\ phase = [w \in Workers |-> "idle"]
    /\ begun = 0

\* The tables after an object was put into both of them.
Insert(w, a, obj) ==
    [heap |-> Append(heap, obj),
     own |-> [own EXCEPT ![w][a] = Len(heap) + 1],
     shared |-> [shared EXCEPT ![a] = Len(heap) + 1]]

\* Mutant of Loaded: the shared table is not looked at.
LoadedFromTrie(w, a) ==
    IF own[w][a] = Nil /\ trie[a] # Absent
    THEN Insert(w, a, newObject(trie[a]))
    ELSE [heap |-> heap, own |-> own, shared |-> shared]

\* The tables that getStateObject leaves behind: the own object is preferred,
\* then the shared one, then the trie.
Loaded(w, a) ==
    IF own[w][a] # Nil \/ (shared[a] = Nil /\ trie[a] = Absent)
    THEN [heap |-> heap, own |-> own, shared |-> shared]
    ELSE IF shared[a] # Nil
    THEN [heap |-> heap, own |-> [own EXCEPT ![w][a] = shared[a]],
          shared |-> shared]
    ELSE Insert(w, a, newObject(trie[a]))

\* The object getStateObject returns, Absent for nil.
getStateObject(w, a) ==
    LET t == Loaded(w, a) IN
    IF t.own[w][a] = Nil THEN Absent
    ELSE IF t.heap[t.own[w][a]].deleted THEN Absent
    ELSE t.heap[t.own[w][a]]

Exists(w, a) == getStateObject(w, a) # Absent

\* What a worker that has the account can read of it.
View(w, a) ==
    IF Exists(w, a)
    THEN [data |-> getStateObject(w, a).data,
          suicided |-> getStateObject(w, a).suicided]
    ELSE Absent

StoredView(a) == IF trie[a] = Absent THEN Absent
                 ELSE [data |-> trie[a], suicided |-> FALSE]

\* Every operation starts like this.  Room bounds the run, not the code.
requestAndLock(w, a) ==
    /\ phase[w] = "running"
    /\ Locks!Grant(w, a)

Room(w) == Len(heap) < MaxObjects /\ Len(journal[w]) < MaxJournal

Put(t) == heap' = t.heap /\ own' = t.own /\ shared' = t.shared

\* The getters and StorageTrie.
Read(w, a) ==
    /\ requestAndLock(w, a)
    /\ Len(heap) < MaxObjects
    /\ Put(Loaded(w, a))
    /\ UNCHANGED <<trie, journal, phase, begun>>

\* Change the object of an account, found or created: GetOrNewStateObject
\* and the setter.
Change(w, a, entry, obj) ==
    LET t == IF Exists(w, a) THEN Loaded(w, a)
             ELSE Insert(w, a, newObject(NewAccount))
        created == IF Exists(w, a) THEN << >>
                   ELSE <<[kind |-> "create", account |-> a]>>
    IN  /\ Put([t EXCEPT !.heap[t.own[w][a]] = obj])
        /\ journal' = [journal EXCEPT ![w] = @ \o created \o <<entry>>]
        /\ UNCHANGED <<trie, phase, begun>>

OrNew(w, a) == IF Exists(w, a) THEN getStateObject(w, a)
               ELSE newObject(NewAccount)

MayCreate(w, a) == Exists(w, a) \/ "create" \in Calls[a]

SetBalance(w, a, amount) ==
    /\ requestAndLock(w, a) /\ Room(w) /\ MayCreate(w, a)
    /\ Change(w, a, [kind |-> "balance", account |-> a,
                     prev |-> OrNew(w, a).data.balance],
              [OrNew(w, a) EXCEPT !.data.balance = amount])

SetNonce(w, a, nonce) ==
    /\ requestAndLock(w, a) /\ Room(w) /\ MayCreate(w, a)
    /\ Change(w, a, [kind |-> "nonce", account |-> a,
                     prev |-> OrNew(w, a).data.nonce],
              [OrNew(w, a) EXCEPT !.data.nonce = nonce])

\* CreateAccount without an account: createObject journals its creation.
CreateNew(w, a) ==
    /\ requestAndLock(w, a) /\ Room(w)
    /\ "create" \in Calls[a] /\ ~Exists(w, a)
    /\ Put(Insert(w, a, newObject(NewAccount)))
    /\ journal' = [journal EXCEPT
           ![w] = Append(@, [kind |-> "create", account |-> a])]
    /\ UNCHANGED <<trie, phase, begun>>

\* CreateAccount over an account: the entry keeps the old object, the new one
\* gets its balance.
CreateOver(w, a) ==
    LET t == Loaded(w, a) IN
    /\ requestAndLock(w, a) /\ Room(w)
    /\ "reset" \in Calls[a] /\ Exists(w, a)
    /\ LET new == newObject([NewAccount EXCEPT
                       !.balance = getStateObject(w, a).data.balance])
       IN  Put([heap |-> Append(t.heap, new),
                own |-> [t.own EXCEPT ![w][a] = Len(t.heap) + 1],
                shared |-> [t.shared EXCEPT ![a] = Len(t.heap) + 1]])
    /\ journal' = [journal EXCEPT
           ![w] = Append(@, [kind |-> "reset", account |-> a,
                             prev |-> t.own[w][a]])]
    /\ UNCHANGED <<trie, phase, begun>>

Suicide(w, a) ==
    /\ requestAndLock(w, a) /\ Room(w)
    /\ "remove" \in Calls[a] /\ Exists(w, a)
    /\ LET obj == getStateObject(w, a) IN
       Change(w, a, [kind |-> "suicide", account |-> a, prev |-> obj.suicided,
                     prevbalance |-> obj.data.balance],
              [obj EXCEPT !.suicided = TRUE, !.data.balance = 0])

Prepare(w) ==
    /\ phase[w] = "idle"
    /\ begun < MaxTxs
    /\ begun' = begun + 1
    /\ phase' = [phase EXCEPT ![w] = "running"]
    /\ UNCHANGED <<holder, tables, trie, journal>>

Creates(w, a) ==
    \E i \in 1..Len(journal[w]) : journal[w][i].kind = "create" /\ journal[w][i].account = a
Undoing(w, a) == IF Creates(w, a) THEN "uncreate" ELSE "revert"

RevertToSnapshot(w) ==
    /\ phase[w] = "running"
    /\ journal[w] # << >>
    /\ \A i \in 1..Len(journal[w]) :
          Undoing(w, journal[w][i].account) \in Calls[journal[w][i].account]
    /\ phase' = [phase EXCEPT ![w] = "reverting"]
    /\ UNCHANGED <<holder, tables, trie, journal, begun>>

LastEntry(w) == journal[w][Len(journal[w])]

\* One entry is undone, in the worker's own StateDB.
RevertEntry(w) ==
    LET e == LastEntry(w)
        r == own[w][e.account]
    IN  /\ phase[w] = "reverting"
        /\ journal[w] # << >>
        /\ heap' = CASE e.kind = "balance" -> [heap EXCEPT ![r].data.balance = e.prev]
                     [] e.kind = "nonce" -> [heap EXCEPT ![r].data.nonce = e.prev]
                     [] e.kind = "suicide" ->
                           [heap EXCEPT ![r].suicided = e.prev,
                                        ![r].data.balance = e.prevbalance]
                     [] OTHER -> heap
        /\ own' = CASE e.kind = "create" -> [own EXCEPT ![w][e.account] = Nil]
                    [] e.kind = "reset"  -> [own EXCEPT ![w][e.account] = e.prev]
                    [] OTHER -> own
        /\ journal' = [journal EXCEPT ![w] = SubSeq(@, 1, Len(@) - 1)]
        /\ UNCHANGED <<holder, shared, trie, phase, begun>>

RevertDone(w) ==
    /\ phase[w] = "reverting"
    /\ journal[w] = << >>
    /\ phase' = [phase EXCEPT ![w] = "running"]
    /\ UNCHANGED <<holder, tables, trie, journal, begun>>

\* The addresses of journal.dirties.
Dirty(w) ==
    {a \in Accounts : \E i \in 1..Len(journal[w]) :
        journal[w][i].account = a /\ journal[w][i].kind # "reset"}

IsGone(obj, deleteEmptyObjects) ==
    obj.suicided \/ (deleteEmptyObjects /\ obj.data = NewAccount)

\* What the trie is given for an object, and what is left of a deleted one.
updateStateObject(obj) == obj.data
deleteStateObject(obj) == [obj EXCEPT !.deleted = TRUE]

\* Mutant of Finalise: every object of the worker is written.
FinaliseAll(w, deleteEmptyObjects) ==
    LET writes == {a \in Accounts : own[w][a] # Nil}
        gone(a) == IsGone(heap[own[w][a]], deleteEmptyObjects)
    IN  /\ phase[w] = "running"
        /\ \A a \in writes : gone(a) => "remove" \in Calls[a]
        /\ heap' = [r \in 1..Len(heap) |->
              IF \E a \in writes : r = own[w][a] /\ gone(a)
              THEN deleteStateObject(heap[r]) ELSE heap[r]]
        /\ trie' = [a \in Accounts |->
              IF a \notin writes THEN trie[a]
              ELSE IF gone(a) THEN Absent ELSE updateStateObject(heap[own[w][a]])]
        /\ journal' = [journal EXCEPT ![w] = << >>]
        /\ phase' = [phase EXCEPT ![w] = "finalised"]
        /\ UNCHANGED <<holder, own, shared, begun>>

\* Finalise and IntermediateRoot: the dirty objects of the worker are written
\* to the trie or deleted from it; an address without object is skipped.
Finalise(w, deleteEmptyObjects) ==
    LET writes == {a \in Dirty(w) : own[w][a] # Nil}
        gone(a) == IsGone(heap[own[w][a]], deleteEmptyObjects)
    IN  /\ phase[w] = "running"
        /\ \A a \in writes : gone(a) => "remove" \in Calls[a]
        /\ heap' = [r \in 1..Len(heap) |->
              IF \E a \in writes : r = own[w][a] /\ gone(a)
              THEN deleteStateObject(heap[r]) ELSE heap[r]]
        /\ trie' = [a \in Accounts |->
              IF a \notin writes THEN trie[a]
              ELSE IF gone(a) THEN Absent ELSE updateStateObject(heap[own[w][a]])]
        /\ journal' = [journal EXCEPT ![w] = << >>]
        /\ phase' = [phase EXCEPT ![w] = "finalised"]
        /\ UNCHANGED <<holder, own, shared, begun>>

\* The caller ends a transaction after Finalise, or when it has changed
\* nothing or reverted everything.
UnLockAccounts(w) ==
    /\ phase[w] = "finalised" \/ (phase[w] = "running" /\ journal[w] = << >>)
    /\ Locks!Release(w)
    /\ phase' = [phase EXCEPT ![w] = "idle"]
    /\ UNCHANGED <<tables, trie, journal, begun>>

Call(w) ==
    \/ \E a \in Accounts :
         \/ Read(w, a)
         \/ \E b \in Balances : SetBalance(w, a, b)
         \/ \E n \in Nonces : SetNonce(w, a, n)
         \/ CreateNew(w, a)
         \/ CreateOver(w, a)
         \/ Suicide(w, a)
    \/ Prepare(w)
    \/ RevertToSnapshot(w)
    \/ RevertEntry(w)
    \/ RevertDone(w)
    \/ \E deleteEmptyObjects \in BOOLEAN : Finalise(w, deleteEmptyObjects)
    \/ UnLockAccounts(w)

\* The transactions are executed.
BlockDone ==
    /\ begun = MaxTxs
    /\ \A w \in Workers : phase[w] = "idle"
    /\ UNCHANGED vars

Next == BlockDone \/ \E w \in Workers : Call(w)

Spec == Init /\ [][Next]_vars
-----------------------------------------------------------------------------
Ref == 1..Len(heap)

Entry ==
    [kind : {"create"}, account : Accounts]
    \cup [kind : {"reset"}, account : Accounts, prev : Nat]
    \cup [kind : {"balance"}, account : Accounts, prev : Balances]
    \cup [kind : {"nonce"}, account : Accounts, prev : Nonces]
    \cup [kind : {"suicide"}, account : Accounts, prev : BOOLEAN,
          prevbalance : Balances]

\* The tables refer to allocated objects (multi_statedb.go:34-61), and an
\* entry that is undone finds one (journal.go:179).
TypeOK ==
    /\ holder \in [Accounts -> Workers \cup {Free}]
    /\ heap \in Seq(Object)
    /\ own \in [Workers -> [Accounts -> Ref \cup {Nil}]]
    /\ shared \in [Accounts -> Ref \cup {Nil}]
    /\ trie \in [Accounts -> Account \cup {Absent}]
    /\ journal \in [Workers -> Seq(Entry)]
    /\ phase \in [Workers -> {"idle", "running", "reverting", "finalised"}]
    /\ begun \in 0..MaxTxs
    /\ \A w \in Workers : \A i \in 1..Len(journal[w]) :
          own[w][journal[w][i].account] # Nil

\* The accounts that may be created and changed, and the changes undone, but
\* that are never removed, created again or un-created.
Calm == {a \in Accounts : Calls[a] \subseteq {"create", "revert"}}

Agrees(w, a) == holder[a] = Free => View(w, a) = StoredView(a)

\* "can be executed and verified in order" (multi_statedb.go:39): the next
\* transaction, on whichever worker, reads of a calm account nobody holds
\* exactly what the transactions before it have stored, as a replay of them
\* would, whatever is done to the other accounts of the same transactions.
CachesCoherent == \A w \in Workers, a \in Calm : Agrees(w, a)

\* What multi_statedb.go:39 says without an exception, of all accounts. It does
\* not hold: a worker that has loaded an account keeps its object when another
\* one creates the account again or after a removal (getStateObject, line 445).
InOrder == \A w \in Workers, a \in Accounts : Agrees(w, a)

\* "RevertToSnapshot reverts all state changes made since the given revision"
\* (multi_statedb.go:543): afterwards the worker reads of its accounts what is
\* stored. It does not hold: an undone creation stays in the shared table
\* (journal.go:141).
Reverted ==
    \A w \in Workers, a \in Accounts :
        holder[a] = w /\ phase[w] = "running" /\ journal[w] = << >> => View(w, a) = StoredView(a)

\* The same, with the tables well formed (getStateObject, multi_statedb.go:445).
Coherent == TypeOK /\ CachesCoherent

\* Whatever one worker does, in any of its calls, another worker reads the
\* same as before of the accounts it has locked (the objects, the shared table
\* and the trie have no other protection: multi_statedb.go:47).
Isolation ==
    [][\A v, w \in Workers, a \in Accounts :
          (v # w /\ Call(w) /\ holder[a] = v) => View(v, a)' = View(v, a)]_vars

(***************************************************************************)
(* MStateDB implements SerialState for the calm accounts: of one that is   *)
(* held the world is what the holder reads, of another what is stored.     *)
(***************************************************************************)
Reverting(a) == holder[a] # Free /\ phase[holder[a]] = "reverting"

SS == INSTANCE SerialState WITH
    Accounts <- Calm,
    Views  <- [data : Account, suicided : BOOLEAN],
    holder <- [a \in Calm |-> holder[a]],
    world  <- [a \in Calm |->
                  IF holder[a] = Free \/ Reverting(a) THEN StoredView(a)
                  ELSE View(holder[a], a)],
    stored <- [a \in Calm |-> StoredView(a)]

\* Transactions on parallel workers read and write the calm accounts as if
\* they were executed one after the other, in the order of UnLockAccounts, and
\* a calm account is given back with all its changes written
\* (multi_statedb.go:555), whatever they do to the other accounts.
ImplementsSerialState == SS!Spec
=============================================================================
