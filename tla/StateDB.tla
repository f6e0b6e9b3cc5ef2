------------------------------ MODULE StateDB ------------------------------
(***************************************************************************)
(* The world state of one goroutine: live account objects over a trie, and *)
(* a journal that undoes their changes (core/state/statedb.go,             *)
(* state_object.go, journal.go).  The trie and the code store are external *)
(* (core/state/database.go): a trie is its content and a root hash the     *)
(* content it stands for.  A StateDB belongs to one goroutine, so every    *)
(* call is one action; the loop of journal.revert is one action per entry. *)
(***************************************************************************)
EXTENDS Integers, Sequences, FiniteSets

CONSTANTS Addresses,
          Ripemd,         \* the precompile's address, in Addresses or not
          Keys, PdxKeys,  \* keys used by SetState and by SetPDXState
          Values, Zero,   \* storage values; Zero is the zero hash, no bytes
          Codes, EmptyCode,
          Nonces, Balances, Hashes,
          Stored,         \* accounts the trie may hold when it is opened
          NoObject,       \* nil
          Miss,           \* a key that is not in a map
          ResetExisting,  \* may CreateAccount hit an existing account?
          MaxJournal,     \* bounds of the runs: journal entries, ...
          MaxRevisions,   \* ... snapshots taken ...
          MaxFinalise     \* ... and transactions

Account == [nonce : Nonces, balance : Balances, code : Codes,
            root : [Keys \cup PdxKeys -> Values]]

Object == [data : Account,
           cached : [Keys -> Values \cup {Miss}],
           dirty : [Keys -> Values \cup {Miss}],
           pdxCached : [PdxKeys -> Values \cup {Miss}],
           pdxDirty : [PdxKeys -> Values \cup {Miss}],
           suicided : BOOLEAN, deleted : BOOLEAN]

\* What the getters return for an account that exists.
ReadAccount == [nonce : Nonces, balance : Balances, code : Codes,
                suicided : BOOLEAN,
                storage : [Keys -> Values], pdx : [PdxKeys -> Values]]

ASSUME KeysAssumption == Keys \cap PdxKeys = {}
ASSUME StoredAssumption == Stored \subseteq Account
ASSUME NoObjectAssumption == NoObject \notin Account \cup Object \cup ReadAccount
ASSUME ValuesAssumption ==
    /\ Zero \in Values /\ Miss \notin Values
    /\ EmptyCode \in Codes
    /\ Nonces \subseteq Nat /\ 0 \in Nonces
    /\ Balances \subseteq Nat /\ 0 \in Balances
    /\ ResetExisting \in BOOLEAN
    /\ MaxJournal \in Nat /\ MaxRevisions \in Nat /\ MaxFinalise \in Nat

VARIABLES
    trie,               \* StateDB.trie: the Account stored per address
    stateObjects,       \* live objects
    stateObjectsDirty,  \* addresses written by Finalise
    refund, preimages,
    journal,            \* journal.entries
    dirties,            \* journal.dirties; 0 is an absent address
    validRevisions, nextRevisionId,
    pc,                 \* "ready", "reverting", "panicked", "rejected"
    revertTo,           \* index into validRevisions while reverting
    views,              \* history: what callers saw before each entry
    finalised           \* how often Finalise ran

objVars == <<trie, stateObjects, stateObjectsDirty>>
jrnVars == <<journal, dirties, views>>
revVars == <<validRevisions, nextRevisionId, pc, revertTo, finalised>>
vars == <<objVars, refund, preimages, jrnVars, revVars>>

NoWrites(keys) == [k \in keys |-> Miss]

\* newObject(db, address, data)
newObject(data) ==
    [data |-> data,
     cached |-> NoWrites(Keys), dirty |-> NoWrites(Keys),
     pdxCached |-> NoWrites(PdxKeys), pdxDirty |-> NoWrites(PdxKeys),
     suicided |-> FALSE, deleted |-> FALSE]

\* Account{} after newObject has filled in its nil fields.
NewAccount == [nonce |-> 0, balance |-> 0, code |-> EmptyCode,
               root |-> [k \in Keys \cup PdxKeys |-> Zero]]

empty(data) == data.nonce = 0 /\ data.balance = 0 /\ data.code = EmptyCode

\* What getStateObject returns; Loaded is what it leaves in stateObjects.
getStateObject(addr) ==
    IF stateObjects[addr] # NoObject
    THEN IF stateObjects[addr].deleted THEN NoObject ELSE stateObjects[addr]
    ELSE IF trie[addr] = NoObject THEN NoObject ELSE newObject(trie[addr])

Loaded(addr) ==
    IF stateObjects[addr] = NoObject /\ trie[addr] # NoObject
    THEN [stateObjects EXCEPT ![addr] = newObject(trie[addr])]
    ELSE stateObjects

readState(obj, key) == IF obj.cached[key] = Miss THEN obj.data.root[key]
                       ELSE obj.cached[key]

readPDXState(obj, key) == IF obj.pdxCached[key] = Miss THEN obj.data.root[key]
                          ELSE obj.pdxCached[key]

(***************************************************************************)
(* What the getters return for an account: GetNonce, GetBalance, GetCode,  *)
(* GetState, GetPDXState, HasSuicided and Exist.                           *)
(***************************************************************************)
AccountView(obj) ==
    IF obj = NoObject THEN NoObject
    ELSE [nonce |-> obj.data.nonce, balance |-> obj.data.balance,
          code |-> obj.data.code, suicided |-> obj.suicided,
          storage |-> [k \in Keys |-> readState(obj, k)],
          pdx |-> [k \in PdxKeys |-> readPDXState(obj, k)]]

View == [accounts |-> [a \in Addresses |-> AccountView(getStateObject(a))],
         refund |-> refund, preimages |-> preimages]

\* New(root, db): nothing is live, the trie holds what was stored before.
Init ==
    /\ trie \in [Addresses -> Stored \cup {NoObject}]
    /\ stateObjects = [a \in Addresses |-> NoObject]
    /\ stateObjectsDirty = {}
    /\ refund = 0
    /\ preimages = {}
    /\ journal = << >>
    /\ dirties = [a \in Addresses |-> 0]
    /\ validRevisions = << >>
    /\ nextRevisionId = 0
    /\ pc = "ready"
    /\ revertTo = 0
    /\ views = << >>
    /\ finalised = 0

Room == Len(journal) < MaxJournal

(***************************************************************************)
(* A setter: GetOrNewStateObject, with a create entry if the account is    *)
(* nil, then the setter's own entries and the changed object.  explicit    *)
(* counts the calls of journal.dirty.                                      *)
(***************************************************************************)
IsNew(addr) == getStateObject(addr) = NoObject

GetOrNewStateObject(addr) ==
    IF IsNew(addr) THEN newObject(NewAccount) ELSE getStateObject(addr)

CreateEntry(addr) == [kind |-> "create", account |-> addr]

\* Mutant of Set: the create entry is journalled after the setter's entries.
SetCreatesLast(addr, entries, explicit, obj) ==
    LET created == IF IsNew(addr) THEN <<CreateEntry(addr)>> ELSE << >>
    IN  /\ stateObjects' = [stateObjects EXCEPT ![addr] = obj]
        /\ journal' = journal \o entries \o created
        /\ views' = views \o [i \in 1..Len(created \o entries) |-> View]
        /\ dirties' = [dirties EXCEPT
               ![addr] = @ + Len(created) + Len(entries) + explicit]
        /\ UNCHANGED <<trie, stateObjectsDirty, refund, preimages, revVars>>

Set(addr, entries, explicit, obj) ==
    LET created == IF IsNew(addr) THEN <<CreateEntry(addr)>> ELSE << >>
        withNew == [View EXCEPT !.accounts[addr] =
                        AccountView(GetOrNewStateObject(addr))]
    IN  /\ stateObjects' = [stateObjects EXCEPT ![addr] = obj]
        /\ journal' = journal \o created \o entries
        /\ views' = views \o [i \in 1..Len(created) |-> View]
                          \o [i \in 1..Len(entries) |-> withNew]
        /\ dirties' = [dirties EXCEPT
               ![addr] = @ + Len(created) + Len(entries) + explicit]
        /\ UNCHANGED <<trie, stateObjectsDirty, refund, preimages, revVars>>

\* The getters load the object; GetState also caches the value it read.
Read(addr) ==
    /\ pc = "ready"
    /\ stateObjects' = Loaded(addr)
    /\ UNCHANGED <<trie, stateObjectsDirty, refund, preimages, jrnVars, revVars>>

GetState(addr, key) ==
    LET obj == getStateObject(addr) IN
    /\ pc = "ready"
    /\ obj # NoObject
    /\ stateObjects' = [stateObjects EXCEPT
           ![addr] = [obj EXCEPT !.cached[key] = readState(obj, key)]]
    /\ UNCHANGED <<trie, stateObjectsDirty, refund, preimages, jrnVars, revVars>>

BalanceEntry(addr, obj) ==
    [kind |-> "balance", account |-> addr, prev |-> obj.data.balance]

SetBalance(addr, amount) ==
    LET obj == GetOrNewStateObject(addr) IN
    /\ pc = "ready" /\ Room
    /\ Set(addr, <<BalanceEntry(addr, obj)>>, 0,
           [obj EXCEPT !.data.balance = amount])

\* Adding nothing to an empty account touches it.
AddBalance(addr, amount) ==
    LET obj     == GetOrNewStateObject(addr)
        touched == amount = 0 /\ empty(obj.data)
    IN  /\ pc = "ready" /\ Room
        /\ obj.data.balance + amount \in Balances
        /\ Set(addr,
               CASE touched     -> <<[kind |-> "touch", account |-> addr]>>
                 [] amount # 0  -> <<BalanceEntry(addr, obj)>>
                 [] OTHER       -> << >>,
               IF touched /\ addr = Ripemd THEN 1 ELSE 0,
               [obj EXCEPT !.data.balance = @ + amount])

\* The caller has checked that the account can pay.
SubBalance(addr, amount) ==
    LET obj == GetOrNewStateObject(addr) IN
    /\ pc = "ready" /\ Room
    /\ obj.data.balance - amount \in Balances
    /\ Set(addr, IF amount = 0 THEN << >> ELSE <<BalanceEntry(addr, obj)>>, 0,
           [obj EXCEPT !.data.balance = @ - amount])

SetNonce(addr, nonce) ==
    LET obj == GetOrNewStateObject(addr) IN
    /\ pc = "ready" /\ Room
    /\ Set(addr, <<[kind |-> "nonce", account |-> addr,
                    prev |-> obj.data.nonce]>>, 0,
           [obj EXCEPT !.data.nonce = nonce])

SetCode(addr, code) ==
    LET obj == GetOrNewStateObject(addr) IN
    /\ pc = "ready" /\ Room
    /\ Set(addr, <<[kind |-> "code", account |-> addr,
                    prev |-> obj.data.code]>>, 0,
           [obj EXCEPT !.data.code = code])

setState(obj, key, value) ==
    [obj EXCEPT !.cached[key] = value, !.dirty[key] = value]

setPDXState(obj, key, value) ==
    [obj EXCEPT !.pdxCached[key] = value, !.pdxDirty[key] = value]

\* The entry's prevalue comes from GetState, which caches it; setState then
\* overwrites the cached value.
SetState(addr, key, value) ==
    LET obj == GetOrNewStateObject(addr) IN
    /\ pc = "ready" /\ Room
    /\ Set(addr, <<[kind |-> "storage", account |-> addr, key |-> key,
                    prev |-> readState(obj, key)]>>, 0,
           setState(obj, key, value))

SetPDXState(addr, key, value) ==
    LET obj == GetOrNewStateObject(addr) IN
    /\ pc = "ready" /\ Room
    /\ Set(addr, <<[kind |-> "pdxStorage", account |-> addr, key |-> key,
                    prev |-> readPDXState(obj, key)]>>, 0,
           setPDXState(obj, key, value))

\* createObject on an address without an account.
CreateNew(addr) ==
    /\ pc = "ready" /\ Room
    /\ IsNew(addr)
    /\ Set(addr, << >>, 0, newObject(NewAccount))

\* createObject on an existing account: the entry keeps the old object and
\* dirties nothing; CreateAccount carries the balance over.
CreateOver(addr) ==
    LET prev == getStateObject(addr) IN
    /\ pc = "ready" /\ Room
    /\ ResetExisting
    /\ ~IsNew(addr)
    /\ stateObjects' = [stateObjects EXCEPT ![addr] =
           newObject([NewAccount EXCEPT !.balance = prev.data.balance])]
    /\ journal' = Append(journal,
           [kind |-> "reset", account |-> addr, prev |-> prev])
    /\ views' = Append(views, View)
    /\ UNCHANGED <<trie, stateObjectsDirty, refund, preimages, dirties, revVars>>

CreateAccount(addr) == CreateNew(addr) \/ CreateOver(addr)

Suicide(addr) ==
    LET obj == getStateObject(addr) IN
    /\ pc = "ready" /\ Room
    /\ obj # NoObject
    /\ Set(addr, <<[kind |-> "suicide", account |-> addr,
                    prev |-> obj.suicided, prevbalance |-> obj.data.balance]>>, 0,
           [obj EXCEPT !.suicided = TRUE, !.data.balance = 0])

AddRefund(gas) ==
    /\ pc = "ready" /\ Room
    /\ journal' = Append(journal, [kind |-> "refund", prev |-> refund])
    /\ views' = Append(views, View)
    /\ refund' = refund + gas
    /\ UNCHANGED <<objVars, preimages, dirties, revVars>>

AddPreimage(hash) ==
    /\ pc = "ready" /\ Room
    /\ hash \notin preimages
    /\ journal' = Append(journal, [kind |-> "preimage", hash |-> hash])
    /\ views' = Append(views, View)
    /\ preimages' = preimages \cup {hash}
    /\ UNCHANGED <<objVars, refund, dirties, revVars>>

Snapshot ==
    /\ pc = "ready"
    /\ nextRevisionId < MaxRevisions
    /\ validRevisions' = Append(validRevisions,
           [id |-> nextRevisionId, journalIndex |-> Len(journal)])
    /\ nextRevisionId' = nextRevisionId + 1
    /\ UNCHANGED <<objVars, refund, preimages, jrnVars, pc, revertTo, finalised>>

(***************************************************************************)
(* RevertToSnapshot: find the revision, undo the journal's entries from    *)
(* the last one down to journalIndex, drop the revision and later ones.    *)
(***************************************************************************)
RevertToSnapshot(revid) ==
    /\ pc = "ready"
    /\ \E idx \in 1..Len(validRevisions) :
          validRevisions[idx].id = revid /\ revertTo' = idx
    /\ pc' = "reverting"
    /\ UNCHANGED <<objVars, refund, preimages, jrnVars, validRevisions,
                   nextRevisionId, finalised>>

\* panic("revision id cannot be reverted")
RevertUnknown(revid) ==
    /\ pc = "ready"
    /\ \A idx \in 1..Len(validRevisions) : validRevisions[idx].id # revid
    /\ pc' = "rejected"
    /\ UNCHANGED <<objVars, refund, preimages, jrnVars, validRevisions,
                   nextRevisionId, revertTo, finalised>>

\* Mutants of undo: a suicide's balance is not given back, a storage entry is
\* undone in one of the two maps only.
undoKeepsBalance(e, obj) ==
    CASE e.kind = "suicide"    -> [obj EXCEPT !.suicided = e.prev]
      [] e.kind = "balance"    -> [obj EXCEPT !.data.balance = e.prev]
      [] e.kind = "nonce"      -> [obj EXCEPT !.data.nonce = e.prev]
      [] e.kind = "code"       -> [obj EXCEPT !.data.code = e.prev]
      [] OTHER                 -> obj

undoKeepsCached(e, obj) ==
    CASE e.kind = "storage"    -> [obj EXCEPT !.dirty[e.key] = e.prev]
      [] e.kind = "pdxStorage" -> setPDXState(obj, e.key, e.prev)
      [] OTHER                 -> obj

undoKeepsDirty(e, obj) ==
    CASE e.kind = "storage"    -> [obj EXCEPT !.cached[e.key] = e.prev]
      [] e.kind = "suicide"    -> [obj EXCEPT !.suicided = e.prev]
      [] OTHER                 -> obj

\* What the revert methods of the entries for one account do to its object.
undo(e, obj) ==
    CASE e.kind = "suicide"    -> [obj EXCEPT !.suicided = e.prev,
                                              !.data.balance = e.prevbalance]
      [] e.kind = "balance"    -> [obj EXCEPT !.data.balance = e.prev]
      [] e.kind = "nonce"      -> [obj EXCEPT !.data.nonce = e.prev]
      [] e.kind = "code"       -> [obj EXCEPT !.data.code = e.prev]
      [] e.kind = "storage"    -> setState(obj, e.key, e.prev)
      [] e.kind = "pdxStorage" -> setPDXState(obj, e.key, e.prev)

FieldKinds == {"suicide", "balance", "nonce", "code", "storage", "pdxStorage"}

DirtyKinds == FieldKinds \cup {"create", "touch"}

Target == validRevisions[revertTo].journalIndex
LastEntry == journal[Len(journal)]

\* A field entry of a nil object is a nil dereference, except a suicide.
UndoPanics(e) == /\ e.kind \in FieldKinds \ {"suicide"}
                 /\ getStateObject(e.account) = NoObject

revertEntry(e) ==
    /\ stateObjects' =
          CASE e.kind = "create" -> [stateObjects EXCEPT ![e.account] = NoObject]
            [] e.kind = "reset"  -> [stateObjects EXCEPT ![e.account] = e.prev]
            [] e.kind \in FieldKinds /\ getStateObject(e.account) # NoObject ->
                  [stateObjects EXCEPT ![e.account] =
                      undo(e, getStateObject(e.account))]
            [] OTHER -> stateObjects
    /\ stateObjectsDirty' = IF e.kind = "create"
                            THEN stateObjectsDirty \ {e.account}
                            ELSE stateObjectsDirty
    /\ refund' = IF e.kind = "refund" THEN e.prev ELSE refund
    /\ preimages' = IF e.kind = "preimage" THEN preimages \ {e.hash}
                    ELSE preimages

\* One pass of the loop in journal.revert.
RevertEntry ==
    /\ pc = "reverting"
    /\ Len(journal) > Target
    /\ revertEntry(LastEntry)
    /\ dirties' = IF LastEntry.kind \in DirtyKinds
                  THEN [dirties EXCEPT ![LastEntry.account] = @ - 1]
                  ELSE dirties
    /\ journal' = SubSeq(journal, 1, Len(journal) - 1)
    /\ views' = SubSeq(views, 1, Len(journal) - 1)
    /\ pc' = IF UndoPanics(LastEntry) THEN "panicked" ELSE pc
    /\ UNCHANGED <<trie, validRevisions, nextRevisionId, revertTo, finalised>>

RevertDone ==
    /\ pc = "reverting"
    /\ Len(journal) = Target
    /\ validRevisions' = SubSeq(validRevisions, 1, revertTo - 1)
    /\ revertTo' = 0
    /\ pc' = "ready"
    /\ UNCHANGED <<objVars, refund, preimages, jrnVars, nextRevisionId, finalised>>

(***************************************************************************)
(* Finalise(deleteEmptyObjects).  The loop over dirties visits addresses   *)
(* in any order, but each pass works on its own address only.              *)
(***************************************************************************)
DirtyAddrs == {a \in Addresses : dirties[a] > 0}

\* "if not found, look for it": may still be nil.
finalObject(addr) == IF stateObjects[addr] # NoObject THEN stateObjects[addr]
                     ELSE getStateObject(addr)

\* updateRoot: the dirty entries go to the storage trie, pdx entries last.
updateRoot(obj) ==
    [obj EXCEPT
        !.data.root = [k \in Keys \cup PdxKeys |->
            IF k \in PdxKeys /\ obj.pdxDirty[k] # Miss THEN obj.pdxDirty[k]
            ELSE IF k \in Keys /\ obj.dirty[k] # Miss THEN obj.dirty[k]
            ELSE obj.data.root[k]],
        !.dirty = NoWrites(Keys),
        !.pdxDirty = NoWrites(PdxKeys)]

IsGone(obj, deleteEmptyObjects) ==
    obj.suicided \/ (deleteEmptyObjects /\ empty(obj.data))

Finalise(deleteEmptyObjects) ==
    /\ pc = "ready"
    /\ finalised < MaxFinalise
    /\ \A a \in DirtyAddrs : finalObject(a) # NoObject
    /\ stateObjects' = [a \in Addresses |->
          IF a \notin DirtyAddrs THEN stateObjects[a]
          ELSE IF IsGone(finalObject(a), deleteEmptyObjects)
          THEN [finalObject(a) EXCEPT !.deleted = TRUE]
          ELSE updateRoot(finalObject(a))]
    /\ trie' = [a \in Addresses |->
          IF a \notin DirtyAddrs THEN trie[a]
          ELSE IF IsGone(finalObject(a), deleteEmptyObjects) THEN NoObject
          ELSE updateRoot(finalObject(a)).data]
    /\ stateObjectsDirty' = stateObjectsDirty \cup DirtyAddrs
    /\ journal' = << >>
    /\ dirties' = [a \in Addresses |-> 0]
    /\ views' = << >>
    /\ validRevisions' = << >>
    /\ refund' = 0
    /\ finalised' = finalised + 1
    /\ UNCHANGED <<preimages, nextRevisionId, pc, revertTo>>

\* stateObject.suicided of a nil object.
FinalisePanics ==
    /\ pc = "ready"
    /\ finalised < MaxFinalise
    /\ \E a \in DirtyAddrs : finalObject(a) = NoObject
    /\ pc' = "panicked"
    /\ UNCHANGED <<objVars, refund, preimages, jrnVars, validRevisions,
                   nextRevisionId, revertTo, finalised>>

\* After a panic nothing more is done with this StateDB.
Stopped ==
    /\ pc \in {"panicked", "rejected"}
    /\ UNCHANGED vars

Access(addr) ==
    \/ Read(addr)
    \/ \E k \in Keys : GetState(addr, k)
    \/ \E b \in Balances : SetBalance(addr, b) \/ AddBalance(addr, b)
                             \/ SubBalance(addr, b)
    \/ \E n \in Nonces : SetNonce(addr, n)
    \/ \E c \in Codes : SetCode(addr, c)
    \/ \E k \in Keys, v \in Values : SetState(addr, k, v)
    \/ \E k \in PdxKeys, v \in Values : SetPDXState(addr, k, v)
    \/ CreateAccount(addr)
    \/ Suicide(addr)

Next ==
    \/ \E a \in Addresses : Access(a)
    \/ AddRefund(1)
    \/ \E h \in Hashes : AddPreimage(h)
    \/ Snapshot
    \/ \E id \in 0..nextRevisionId : RevertToSnapshot(id) \/ RevertUnknown(id)
    \/ RevertEntry
    \/ RevertDone
    \/ \E deleteEmptyObjects \in BOOLEAN : Finalise(deleteEmptyObjects)
    \/ FinalisePanics
    \/ Stopped

Spec == Init /\ [][Next]_vars
-----------------------------------------------------------------------------
Entry ==
    [kind : {"create", "touch"}, account : Addresses]
    \cup [kind : {"reset"}, account : Addresses, prev : Object]
    \cup [kind : {"suicide"}, account : Addresses, prev : BOOLEAN,
          prevbalance : Balances]
    \cup [kind : {"balance"}, account : Addresses, prev : Balances]
    \cup [kind : {"nonce"}, account : Addresses, prev : Nonces]
    \cup [kind : {"code"}, account : Addresses, prev : Codes]
    \cup [kind : {"storage"}, account : Addresses, key : Keys, prev : Values]
    \cup [kind : {"pdxStorage"}, account : Addresses, key : PdxKeys,
          prev : Values]
    \cup [kind : {"refund"}, prev : Nat]
    \cup [kind : {"preimage"}, hash : Hashes]

\* The variables have the types of the fields of StateDB and journal
\* (statedb.go:54-84, journal.go:38-41).
TypeOK ==
    /\ trie \in [Addresses -> Account \cup {NoObject}]
    /\ stateObjects \in [Addresses -> Object \cup {NoObject}]
    /\ stateObjectsDirty \subseteq Addresses
    /\ refund \in Nat
    /\ preimages \subseteq Hashes
    /\ journal \in Seq(Entry)
    /\ dirties \in [Addresses -> Nat]
    /\ validRevisions \in Seq([id : Nat, journalIndex : Nat])
    /\ nextRevisionId \in Nat
    /\ pc \in {"ready", "reverting", "panicked", "rejected"}
    /\ revertTo \in 0..Len(validRevisions)
    /\ Len(views) = Len(journal)
    /\ finalised \in Nat

\* What a StateDB opened on the same trie reads (NewCopy, statedb.go:102).
TrieView(addr) ==
    AccountView(IF trie[addr] = NoObject THEN NoObject ELSE newObject(trie[addr]))

\* "sets the object to dirty" (statedb.go:454): an account that reads
\* differently from what is stored is dirty.  So every change since the trie
\* was written is counted, Finalise writes all the changed accounts, and
\* undoing the changes of an account takes it back to what is stored.
ChangedIsDirty ==
    \A a \in Addresses :
        AccountView(getStateObject(a)) # TrieView(a) => dirties[a] > 0

\* dirties counts the entries of the journal per account through appends and
\* nested reverts, so Finalise visits exactly the accounts with an entry; only
\* the explicit marks of ripemd (journal.go:78) may outlive their entries.
DirtiesExact ==
    \A a \in Addresses :
        LET entries == {i \in 1..Len(journal) :
                            /\ journal[i].kind \in DirtyKinds
                            /\ journal[i].account = a}
        IN  /\ dirties[a] >= Cardinality(entries)
            /\ a # Ripemd => dirties[a] = Cardinality(entries)

\* Copy (statedb.go:513) dereferences the object of every address in
\* stateObjectsDirty: there always is one.
DirtyIsLive ==
    \A a \in stateObjectsDirty : stateObjects[a] # NoObject

\* No revert and no Finalise dereferences a nil object.  "Thus, we can safely
\* ignore it here" (statedb.go:567) says so of the one case in which a dirty
\* address has none.
NeverPanics == pc # "panicked"

\* The two together: dirties says of every account exactly whether Finalise
\* has to write it (journal.go:58-83, statedb.go:562).
MarksExact == DirtiesExact /\ ChangedIsDirty

\* The fields have their types and nothing dereferences nil, neither a revert
\* nor Finalise (NeverPanics), nor a Copy made in between (DirtyIsLive).
Sound == TypeOK /\ NeverPanics /\ DirtyIsLive

(***************************************************************************)
(* StateDB implements WorldState.  While a revert is under way the world   *)
(* is already the one of the snapshot.                                     *)
(***************************************************************************)
ViewAt(index) == IF index < Len(journal) THEN views[index + 1] ELSE View

WS == INSTANCE WorldState WITH
    world     <- IF pc = "reverting" THEN ViewAt(Target) ELSE View,
    snapshots <- [i \in 1..(IF pc = "reverting" THEN revertTo - 1
                            ELSE Len(validRevisions)) |->
                     [id |-> validRevisions[i].id,
                      world |-> ViewAt(validRevisions[i].journalIndex)]]

\* Every call does to what callers can read what WorldState says; above all
\* RevertToSnapshot, entry by entry, restores everything that could be read
\* when the snapshot was taken (journal.go:59-73).
ImplementsWorldState == WS!Spec
=============================================================================
