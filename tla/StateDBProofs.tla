--------------------------- MODULE StateDBProofs ---------------------------
(***************************************************************************)
(* Proofs about StateDB, for any accounts, keys, values and bounds: that a *)
(* revert restores what could be read (StateDB implements WorldState),     *)
(* that nothing dereferences nil, and that the dirty marks are exact.      *)
(***************************************************************************)
EXTENDS StateDB, FiniteSetTheorems, SequenceTheorems, TLAPS

\* Assumptions of some of the theorems: the precompile whose explicit mark
\* outlives its entries is not used, and CreateAccount hits no existing
\* account.
NoRipemd == Ripemd \notin Addresses
NoReset == ~ResetExisting

World == [accounts : [Addresses -> ReadAccount \cup {NoObject}],
          refund : Nat, preimages : SUBSET Hashes]

\* What could be read when the journal had i of the entries of J: V and W are
\* what callers saw before each entry and what they see now.
At(J, V, W, i) == IF i < Len(J) THEN V[i + 1] ELSE W

AccountKinds == DirtyKinds \cup {"reset"}

Of(e, a) == e.kind \in AccountKinds /\ e.account = a

Marks(e, a) == e.kind \in DirtyKinds /\ e.account = a

\* What undoing a field entry does to what can be read of the account.
UndoRead(e, acc) ==
    CASE e.kind = "suicide"    -> [acc EXCEPT !.suicided = e.prev,
                                              !.balance = e.prevbalance]
      [] e.kind = "balance"    -> [acc EXCEPT !.balance = e.prev]
      [] e.kind = "nonce"      -> [acc EXCEPT !.nonce = e.prev]
      [] e.kind = "code"       -> [acc EXCEPT !.code = e.prev]
      [] e.kind = "storage"    -> [acc EXCEPT !.storage[e.key] = e.prev]
      [] e.kind = "pdxStorage" -> [acc EXCEPT !.pdx[e.key] = e.prev]

UndoView(e, v) ==
    CASE e.kind = "create"     -> [v EXCEPT !.accounts[e.account] = NoObject]
      [] e.kind = "reset"      -> [v EXCEPT !.accounts[e.account] = AccountView(e.prev)]
      [] e.kind = "touch"      -> v
      [] e.kind = "refund"     -> [v EXCEPT !.refund = e.prev]
      [] e.kind = "preimage"   -> [v EXCEPT !.preimages = @ \ {e.hash}]
      [] e.kind \in FieldKinds -> [v EXCEPT !.accounts[e.account] =
                                      UndoRead(e, v.accounts[e.account])]

(***************************************************************************)
(* Every entry undoes what was done when it was appended (Chain), an       *)
(* account with an entry exists from then on (Touched), a created account  *)
(* is not in the trie T (Created), and one that committed suicide has an   *)
(* entry that marks it dirty (Killed).                                     *)
(***************************************************************************)
Chain(J, V, W) ==
    \A i \in 1..Len(J) : At(J, V, W, i - 1) = UndoView(J[i], At(J, V, W, i))

Touched(J, V, W) ==
    \A i \in 0..Len(J), k \in 1..Len(J), a \in Addresses :
        k <= i /\ Of(J[k], a) => At(J, V, W, i).accounts[a] # NoObject

Created(T, J) ==
    \A k \in 1..Len(J) : J[k].kind = "create" => T[J[k].account] = NoObject

Killed(J, V, W) ==
    \A i \in 0..Len(J), a \in Addresses :
        LET acc == At(J, V, W, i).accounts[a]
        IN  acc # NoObject /\ acc.suicided
              => \E k \in 1..Len(J) : k <= i /\ Marks(J[k], a)

\* An account without an entry reads as the trie stores it.
Untouched(T, J, V, W) ==
    \A i \in 0..Len(J), a \in Addresses :
        (\A k \in 1..Len(J) : k <= i => ~Of(J[k], a))
          => At(J, V, W, i).accounts[a] =
                AccountView(IF T[a] = NoObject THEN NoObject ELSE newObject(T[a]))

History(T, J, V, W) ==
    /\ J \in Seq(Entry) /\ V \in Seq(World) /\ Len(V) = Len(J) /\ W \in World
    /\ Chain(J, V, W)
    /\ Touched(J, V, W)
    /\ Created(T, J)
    /\ Killed(J, V, W)
    /\ NoReset => Untouched(T, J, V, W)

\* What an object has cached is what its dirty map or its root says.
Cached(obj) ==
    /\ \A k \in Keys :
          IF obj.cached[k] = Miss THEN obj.dirty[k] = Miss
          ELSE obj.cached[k] = IF obj.dirty[k] # Miss THEN obj.dirty[k]
                               ELSE obj.data.root[k]
    /\ \A k \in PdxKeys :
          IF obj.pdxCached[k] = Miss THEN obj.pdxDirty[k] = Miss
          ELSE obj.pdxCached[k] = IF obj.pdxDirty[k] # Miss THEN obj.pdxDirty[k]
                                  ELSE obj.data.root[k]

Objects(T, S, D, J) ==
    /\ \A a \in Addresses : S[a] # NoObject => Cached(S[a])
    /\ \A a \in Addresses : S[a] # NoObject /\ S[a].deleted
                              => T[a] = NoObject /\ D[a] = 0
    /\ \A k \in 1..Len(J) :
          J[k].kind = "reset" =>
             ResetExisting /\ Cached(J[k].prev) /\ ~J[k].prev.deleted

\* The snapshots are a stack of positions in the journal.
Revisions ==
    /\ \A i, j \in 1..Len(validRevisions) : i < j =>
          /\ validRevisions[i].id < validRevisions[j].id
          /\ validRevisions[i].journalIndex <= validRevisions[j].journalIndex
    /\ \A i \in 1..Len(validRevisions) : validRevisions[i].id < nextRevisionId
    /\ pc = "reverting" => /\ revertTo \in 1..Len(validRevisions)
                           /\ Target <= Len(journal)
    /\ pc # "reverting" =>
          /\ revertTo = 0
          /\ \A i \in 1..Len(validRevisions) :
                validRevisions[i].journalIndex <= Len(journal)

Inv ==
    /\ TypeOK
    /\ History(trie, journal, views, View)
    /\ Objects(trie, stateObjects, dirties, journal)
    /\ DirtiesExact
    /\ DirtyIsLive
    /\ Revisions

-----------------------------------------------------------------------------
\* What was read at the positions of J is read there with K as well.
Extends(J, V, W, K, U, X) == \A i \in 0..Len(J) : At(K, U, X, i) = At(J, V, W, i)

\* Before position Len(J) the journal and the views are looked up.
LEMMA AtPush ==
    ASSUME NEW S, NEW J \in Seq(S), NEW R, NEW V \in Seq(R), Len(V) = Len(J),
           NEW W, NEW e, NEW X
    PROVE  /\ Extends(J, V, W, Append(J, e), Append(V, W), X)
           /\ At(Append(J, e), Append(V, W), X, Len(J) + 1) = X
<1>1. Len(Append(J, e)) = Len(J) + 1 /\ Len(J) \in Nat
  OBVIOUS
<1>2. Append(V, W)[Len(J) + 1] = W
  OBVIOUS
<1>3. \A i \in 1..Len(J) : Append(V, W)[i] = V[i]
  OBVIOUS
<1>. QED
  BY <1>1, <1>2, <1>3 DEF At, Extends

\* An entry that is undone leaves what could be read before the others.
LEMMA AtPop ==
    ASSUME NEW S, NEW J \in Seq(S), NEW R, NEW V \in Seq(R), Len(V) = Len(J), J # << >>,
           NEW W
    PROVE  LET n == Len(J)
               K == SubSeq(J, 1, n - 1)
               U == SubSeq(V, 1, n - 1)
           IN  /\ K \in Seq(S) /\ U \in Seq(R) /\ n - 1 \in Nat
               /\ Len(K) = n - 1 /\ Len(U) = n - 1
               /\ \A i \in 1..n - 1 : K[i] = J[i]
               /\ \A i \in 0..n - 1 : At(K, U, V[n], i) = At(J, V, W, i)
<1> DEFINE n == Len(J)
           K == SubSeq(J, 1, n - 1)
           U == SubSeq(V, 1, n - 1)
<1>1. n \in Nat /\ n > 0 /\ n - 1 \in Nat
  OBVIOUS
<1>2. K \in Seq(S) /\ Len(K) = n - 1 /\ \A i \in 1..n - 1 : K[i] = J[i]
  BY <1>1
<1>3. U \in Seq(R) /\ Len(U) = n - 1 /\ \A i \in 1..n - 1 : U[i] = V[i]
  BY <1>1
<1>4. ASSUME NEW i \in 0..n - 1 PROVE At(K, U, V[n], i) = At(J, V, W, i)
  <2>1. CASE i = n - 1
    BY <2>1, <1>1, <1>2 DEF At
  <2>2. CASE i < n - 1
    <3>1. i + 1 \in 1..n - 1
      BY <2>2, <1>1
    <3>2. U[i + 1] = V[i + 1]
      BY <3>1, <1>3
    <3>. HIDE DEF K, U
    <3>. QED
      BY <2>2, <3>2, <1>1, <1>2 DEF At
  <2>. QED
    BY <2>1, <2>2, <1>1
<1>. QED
  BY <1>1, <1>2, <1>3, <1>4

\* A new entry that undoes its change extends the history.
LEMMA PushHistory ==
    ASSUME NEW T, NEW J, NEW V, NEW W, History(T, J, V, W), NEW e \in Entry, NEW X \in World,
           W = UndoView(e, X),
           \A a \in Addresses : ~Of(e, a) => X.accounts[a] = W.accounts[a],
           \A a \in Addresses : Of(e, a) => X.accounts[a] # NoObject,
           \A a \in Addresses : Of(e, a) /\ X.accounts[a].suicided => Marks(e, a),
           e.kind = "create" => T[e.account] = NoObject
    PROVE  History(T, Append(J, e), Append(V, W), X)
<1> DEFINE n == Len(J)
           K == Append(J, e)
           U == Append(V, W)
<1>1. /\ J \in Seq(Entry) /\ V \in Seq(World) /\ Len(V) = n /\ W \in World /\ n \in Nat
      /\ Chain(J, V, W) /\ Touched(J, V, W) /\ Created(T, J) /\ Killed(J, V, W)
      /\ NoReset => Untouched(T, J, V, W)
  BY DEF History
<1>2. /\ K \in Seq(Entry) /\ Len(K) = n + 1 /\ K[n + 1] = e
      /\ \A i \in 1..n : K[i] = J[i]
  BY <1>1
<1>3. U \in Seq(World) /\ Len(U) = n + 1
  BY <1>1
<1>4. /\ \A i \in 0..n : At(K, U, X, i) = At(J, V, W, i)
      /\ At(K, U, X, n + 1) = X
  BY <1>1, AtPush DEF Extends
<1>5. At(J, V, W, n) = W
  BY <1>1 DEF At
<1>6. \A i \in 1..n + 1 : i \in 1..n \/ i = n + 1
  BY <1>1
<1>7. \A i \in 0..n + 1 : i \in 0..n \/ i = n + 1
  BY <1>1
<1> HIDE DEF K, U, n
<1>8. Chain(K, U, X)
  <2>1. ASSUME NEW i \in 1..n + 1
        PROVE  At(K, U, X, i - 1) = UndoView(K[i], At(K, U, X, i))
    <3>1. CASE i = n + 1
      BY <3>1, <1>1, <1>2, <1>4, <1>5
    <3>2. CASE i \in 1..n
      <4>1. i - 1 \in 0..n /\ i \in 0..n
        BY <3>2, <1>1
      <4>2. At(J, V, W, i - 1) = UndoView(J[i], At(J, V, W, i))
        BY <3>2, <1>1 DEF Chain, n
      <4>. QED
        BY <4>1, <4>2, <3>2, <1>2, <1>4
    <3>. QED
      BY <3>1, <3>2, <1>6
  <2>. QED
    BY <2>1, <1>2 DEF Chain
<1>9. Touched(K, U, X)
  <2>1. ASSUME NEW i \in 0..n + 1, NEW k \in 1..n + 1, NEW a \in Addresses,
               k <= i, Of(K[k], a)
        PROVE  At(K, U, X, i).accounts[a] # NoObject
    <3>1. CASE i \in 0..n
      <4>1. k \in 1..n
        BY <2>1, <3>1, <1>1
      <4>2. Of(J[k], a)
        BY <4>1, <2>1, <1>2
      <4>3. At(J, V, W, i).accounts[a] # NoObject
        BY <4>1, <4>2, <3>1, <2>1, <1>1 DEF Touched, n
      <4>. QED
        BY <4>3, <3>1, <1>4
    <3>2. CASE i = n + 1 /\ Of(e, a)
      BY <3>2, <1>4
    <3>3. CASE i = n + 1 /\ ~Of(e, a)
      <4>1. k \in 1..n
        BY <3>3, <2>1, <1>2, <1>6
      <4>2. Of(J[k], a) /\ n \in 0..n /\ k <= n
        BY <4>1, <2>1, <1>1, <1>2
      <4>3. At(J, V, W, n).accounts[a] # NoObject
        BY <4>1, <4>2, <1>1 DEF Touched, n
      <4>. QED
        BY <4>3, <3>3, <1>4, <1>5
    <3>. QED
      BY <3>1, <3>2, <3>3, <1>7
  <2>. QED
    BY <2>1, <1>2 DEF Touched
<1>10. Created(T, K)
  BY <1>1, <1>2, <1>6 DEF Created, n
<1>11. Killed(K, U, X)
  <2>1. ASSUME NEW i \in 0..n + 1, NEW a \in Addresses,
               At(K, U, X, i).accounts[a] # NoObject, At(K, U, X, i).accounts[a].suicided
        PROVE  \E k \in 1..n + 1 : k <= i /\ Marks(K[k], a)
    <3>1. CASE i = n + 1 /\ Of(e, a)
      <4>1. Marks(e, a) /\ n + 1 \in 1..n + 1 /\ n + 1 <= i
        BY <3>1, <2>1, <1>1, <1>4
      <4>. QED
        BY <4>1, <1>2
    <3>2. CASE i \in 0..n \/ (i = n + 1 /\ ~Of(e, a))
      <4>1. PICK j \in 0..n : j <= i /\ At(K, U, X, i).accounts[a] = At(J, V, W, j).accounts[a]
        <5>1. CASE i \in 0..n
          BY <5>1, <1>4
        <5>2. CASE i = n + 1 /\ ~Of(e, a)
          <6>1. n \in 0..n /\ n <= i
            BY <5>2, <1>1
          <6>. QED
            BY <6>1, <5>2, <1>4, <1>5
        <5>. QED
          BY <5>1, <5>2, <3>2
      <4>2. PICK k \in 1..n : k <= j /\ Marks(J[k], a)
        BY <4>1, <2>1, <1>1 DEF Killed, n
      <4>3. k \in 1..n + 1 /\ k <= i /\ Marks(K[k], a)
        BY <4>1, <4>2, <1>1, <1>2
      <4>. QED
        BY <4>3
    <3>. QED
      BY <3>1, <3>2, <1>7
  <2>. QED
    BY <2>1, <1>2 DEF Killed
<1>12. ASSUME NoReset PROVE Untouched(T, K, U, X)
  <2>1. ASSUME NEW i \in 0..n + 1, NEW a \in Addresses,
               \A k \in 1..n + 1 : k <= i => ~Of(K[k], a)
        PROVE  At(K, U, X, i).accounts[a] =
                  AccountView(IF T[a] = NoObject THEN NoObject ELSE newObject(T[a]))
    <3>1. PICK j \in 0..n : j <= i /\ At(K, U, X, i).accounts[a] = At(J, V, W, j).accounts[a]
      <4>1. CASE i \in 0..n
        BY <4>1, <1>4
      <4>2. CASE i = n + 1
        <5>1. ~Of(e, a) /\ n \in 0..n /\ n <= i
          BY <4>2, <2>1, <1>1, <1>2
        <5>. QED
          BY <5>1, <4>2, <1>4, <1>5
      <4>. QED
        BY <4>1, <4>2, <1>7
    <3>2. \A k \in 1..n : k <= j => ~Of(J[k], a)
      BY <3>1, <2>1, <1>1, <1>2
    <3>. QED
      BY <3>1, <3>2, <1>12, <1>1 DEF Untouched, n
  <2>. QED
    BY <2>1, <1>2 DEF Untouched
<1>13. History(T, K, U, X)
  BY <1>2, <1>3, <1>8, <1>9, <1>10, <1>11, <1>12 DEF History
<1>. QED
  BY <1>13 DEF K, U

\* Undoing the last entry takes back what could be read before it.
LEMMA PopHistory ==
    ASSUME NEW T, NEW J, NEW V, NEW W, History(T, J, V, W), J # << >>
    PROVE  LET n == Len(J)
           IN  /\ History(T, SubSeq(J, 1, n - 1), SubSeq(V, 1, n - 1), V[n])
               /\ V[n] = UndoView(J[n], W)
<1> DEFINE n == Len(J)
           K == SubSeq(J, 1, n - 1)
           U == SubSeq(V, 1, n - 1)
           X == V[n]
<1>1. /\ J \in Seq(Entry) /\ V \in Seq(World) /\ Len(V) = n /\ W \in World
      /\ Chain(J, V, W) /\ Touched(J, V, W) /\ Created(T, J) /\ Killed(J, V, W)
      /\ NoReset => Untouched(T, J, V, W)
  BY DEF History
<1>2. n \in Nat /\ n > 0 /\ X \in World
  BY <1>1
<1>3. /\ K \in Seq(Entry) /\ U \in Seq(World) /\ n - 1 \in Nat
      /\ Len(K) = n - 1 /\ Len(U) = n - 1
      /\ \A i \in 1..n - 1 : K[i] = J[i]
      /\ \A i \in 0..n - 1 : At(K, U, X, i) = At(J, V, W, i)
  BY <1>1, AtPop
<1>4. /\ \A i \in 1..n - 1 : i \in 1..n /\ i - 1 \in 0..n - 1 /\ i \in 0..n - 1
      /\ \A i \in 0..n - 1 : i \in 0..n
  BY <1>2
<1>5. X = UndoView(J[n], W)
  <2>1. n \in 1..n /\ At(J, V, W, n) = W /\ At(J, V, W, n - 1) = X
    BY <1>2 DEF At
  <2>. QED
    BY <2>1, <1>1 DEF Chain
<1> HIDE DEF K, U, X, n
<1>6. Chain(K, U, X)
  <2>1. ASSUME NEW i \in 1..n - 1
        PROVE  At(K, U, X, i - 1) = UndoView(K[i], At(K, U, X, i))
    <3>1. At(J, V, W, i - 1) = UndoView(J[i], At(J, V, W, i))
      BY <1>1, <1>4 DEF Chain, n
    <3>. QED
      BY <3>1, <1>3, <1>4
  <2>. QED
    BY <2>1, <1>3 DEF Chain
<1>7. Touched(K, U, X)
  <2>1. ASSUME NEW i \in 0..n - 1, NEW k \in 1..n - 1, NEW a \in Addresses,
               k <= i, Of(K[k], a)
        PROVE  At(K, U, X, i).accounts[a] # NoObject
    <3>1. Of(J[k], a)
      BY <2>1, <1>3
    <3>2. At(J, V, W, i).accounts[a] # NoObject
      BY <3>1, <2>1, <1>1, <1>4 DEF Touched, n
    <3>. QED
      BY <3>2, <1>3
  <2>. QED
    BY <2>1, <1>3 DEF Touched
<1>8. Created(T, K)
  BY <1>1, <1>3, <1>4 DEF Created, n
<1>9. Killed(K, U, X)
  <2>1. ASSUME NEW i \in 0..n - 1, NEW a \in Addresses,
               At(K, U, X, i).accounts[a] # NoObject, At(K, U, X, i).accounts[a].suicided
        PROVE  \E k \in 1..n - 1 : k <= i /\ Marks(K[k], a)
    <3>1. At(K, U, X, i) = At(J, V, W, i)
      BY <1>3
    <3>2. PICK k \in 1..n : k <= i /\ Marks(J[k], a)
      BY <3>1, <2>1, <1>1, <1>4 DEF Killed, n
    <3>3. k \in 1..n - 1
      BY <3>2, <1>2
    <3>. QED
      BY <3>2, <3>3, <1>3
  <2>. QED
    BY <2>1, <1>3 DEF Killed
<1>10. ASSUME NoReset PROVE Untouched(T, K, U, X)
  <2>1. ASSUME NEW i \in 0..n - 1, NEW a \in Addresses,
               \A k \in 1..n - 1 : k <= i => ~Of(K[k], a)
        PROVE  At(K, U, X, i).accounts[a] =
                  AccountView(IF T[a] = NoObject THEN NoObject ELSE newObject(T[a]))
    <3>1. At(K, U, X, i) = At(J, V, W, i)
      BY <1>3
    <3>2. \A k \in 1..n : k <= i => k \in 1..n - 1
      BY <1>2
    <3>3. \A k \in 1..n : k <= i => ~Of(J[k], a)
      BY <3>2, <2>1, <1>3
    <3>. QED
      BY <3>1, <3>3, <1>10, <1>1, <1>4 DEF Untouched, n
  <2>. QED
    BY <2>1, <1>3 DEF Untouched
<1>11. History(T, K, U, X)
  BY <1>2, <1>3, <1>6, <1>7, <1>8, <1>9, <1>10 DEF History
<1>. QED
  BY <1>5, <1>11 DEF K, U, X, n

-----------------------------------------------------------------------------
\* The entries of an account, and what the dirty marks D say of them.
Entries(J, a) == {i \in 1..Len(J) : Marks(J[i], a)}

Mark(e, a) == IF Marks(e, a) THEN 1 ELSE 0

Exact(D, J) ==
    \A a \in Addresses :
        /\ D[a] >= Cardinality(Entries(J, a))
        /\ a # Ripemd => D[a] = Cardinality(Entries(J, a))

\* DirtiesExact in these terms.
LEMMA ExactDirties == DirtiesExact <=> Exact(dirties, journal)
<1>1. \A a \in Addresses : Entries(journal, a) = {i \in 1..Len(journal) :
                            /\ journal[i].kind \in DirtyKinds
                            /\ journal[i].account = a}
  BY DEF Entries, Marks
<1>. QED
  BY <1>1 DEF DirtiesExact, Exact

\* A journal has finitely many entries of an account.
LEMMA EntriesFinite ==
    ASSUME NEW S, NEW J \in Seq(S), NEW a
    PROVE  IsFiniteSet(Entries(J, a)) /\ Cardinality(Entries(J, a)) \in Nat
<1>1. Len(J) \in Nat /\ 1 \in Int /\ Len(J) \in Int
  OBVIOUS
<1>2. IsFiniteSet(1..Len(J))
  BY <1>1, FS_Interval
<1>3. Entries(J, a) \in SUBSET (1..Len(J))
  BY DEF Entries
<1>4. IsFiniteSet(Entries(J, a))
  BY <1>2, <1>3, FS_Subset
<1>. QED
  BY <1>4, FS_CardinalityType

\* An append adds the new entry to the entries of its account.
LEMMA CountPush ==
    ASSUME NEW S, NEW J \in Seq(S), NEW e, NEW a
    PROVE  Cardinality(Entries(Append(J, e), a)) = Cardinality(Entries(J, a)) + Mark(e, a)
<1> DEFINE n == Len(J)
           K == Append(J, e)
           E == Entries(J, a)
<1>1. n \in Nat /\ Len(K) = n + 1 /\ K[n + 1] = e /\ \A i \in 1..n : K[i] = J[i]
  OBVIOUS
<1>2. /\ \A i \in 1..n + 1 : i \in 1..n \/ i = n + 1
      /\ \A i \in 1..n : i \in 1..n + 1
      /\ n + 1 \in 1..n + 1 /\ n + 1 \notin 1..n
  BY <1>1
<1>3. IsFiniteSet(E) /\ Cardinality(E) \in Nat
  BY EntriesFinite
<1>4. n + 1 \notin E
  BY <1>2 DEF Entries
<1> HIDE DEF n, K
<1>5. CASE Marks(e, a)
  <2>1. Entries(K, a) = E \cup {n + 1}
    BY <1>5, <1>1, <1>2 DEF Entries, n
  <2>2. Cardinality(Entries(K, a)) = Cardinality(E) + 1
    BY <2>1, <1>3, <1>4, FS_AddElement
  <2>. QED
    BY <2>2, <1>5 DEF Mark, K
<1>6. CASE ~Marks(e, a)
  <2>1. Entries(K, a) = E
    BY <1>6, <1>1, <1>2 DEF Entries, n
  <2>. QED
    BY <2>1, <1>3, <1>6 DEF Mark, K
<1>. QED
  BY <1>5, <1>6

\* Undoing the last entry removes it from the entries of its account.
LEMMA CountPop ==
    ASSUME NEW S, NEW J \in Seq(S), J # << >>, NEW a
    PROVE  LET n == Len(J)
           IN  Cardinality(Entries(SubSeq(J, 1, n - 1), a))
                  = Cardinality(Entries(J, a)) - Mark(J[n], a)
<1> DEFINE n == Len(J)
           K == SubSeq(J, 1, n - 1)
           E == Entries(J, a)
<1>0. n \in Nat /\ n > 0 /\ n - 1 \in Nat
  OBVIOUS
<1>1. n \in Nat /\ n > 0 /\ Len(K) = n - 1 /\ \A i \in 1..n - 1 : K[i] = J[i]
  <2>1. \A i \in 1..n - 1 : J[i] \in S
    BY <1>0
  <2>2. Len(K) = IF 1 <= n - 1 THEN n - 1 - 1 + 1 ELSE 0
    BY <1>0, <2>1, SubSeqProperties
  <2>3. \A i \in 1..n - 1 - 1 + 1 : K[i] = J[1 + i - 1]
    BY <1>0, <2>1, SubSeqProperties
  <2>. HIDE DEF n, K
  <2>4. Len(K) = n - 1
    BY <1>0, <2>2
  <2>5. \A i \in 1..n - 1 : K[i] = J[i]
    BY <1>0, <2>3
  <2>. QED
    BY <1>0, <2>4, <2>5
<1>2. /\ \A i \in 1..n : i \in 1..n - 1 \/ i = n
      /\ \A i \in 1..n - 1 : i \in 1..n
      /\ n \in 1..n /\ n \notin 1..n - 1
  BY <1>1
<1>3. IsFiniteSet(E) /\ Cardinality(E) \in Nat
  BY EntriesFinite
<1> HIDE DEF n, K
<1>4. Entries(K, a) = E \ {n}
  <2>1. \A i \in 1..n - 1 : Marks(K[i], a) <=> Marks(J[i], a)
    BY <1>1
  <2>. QED
    BY <2>1, <1>1, <1>2 DEF Entries, n
<1>5. n \in E <=> Marks(J[n], a)
  BY <1>2 DEF Entries, n
<1>6. Cardinality(E \ {n}) = IF n \in E THEN Cardinality(E) - 1 ELSE Cardinality(E)
  BY <1>3, FS_RemoveElement
<1>7. Cardinality(Entries(K, a)) = Cardinality(E) - Mark(J[n], a)
  BY <1>3, <1>4, <1>5, <1>6 DEF Mark
<1>. QED
  BY <1>7 DEF K, n

\* journal.append counts the entry, and an explicit mark is only ripemd's.
LEMMA ExactPush ==
    ASSUME NEW S, NEW J \in Seq(S), NEW e, NEW D \in [Addresses -> Nat], Exact(D, J),
           NEW D2 \in [Addresses -> Nat],
           \A a \in Addresses : /\ D2[a] >= D[a] + Mark(e, a)
                                /\ a # Ripemd => D2[a] = D[a] + Mark(e, a)
    PROVE  Exact(D2, Append(J, e))
<1>1. ASSUME NEW a \in Addresses
      PROVE  /\ D2[a] >= Cardinality(Entries(Append(J, e), a))
             /\ a # Ripemd => D2[a] = Cardinality(Entries(Append(J, e), a))
  <2>1. Cardinality(Entries(Append(J, e), a)) = Cardinality(Entries(J, a)) + Mark(e, a)
    BY CountPush
  <2>2. Cardinality(Entries(J, a)) \in Nat
    BY EntriesFinite
  <2>3. Mark(e, a) \in {0, 1}
    BY DEF Mark
  <2>4. /\ D[a] >= Cardinality(Entries(J, a))
        /\ a # Ripemd => D[a] = Cardinality(Entries(J, a))
    BY DEF Exact
  <2>5. D[a] \in Nat /\ D2[a] \in Nat
    OBVIOUS
  <2>. QED
    BY <2>1, <2>2, <2>3, <2>4, <2>5
<1>. QED
  BY <1>1 DEF Exact

\* journal.revert takes the mark of the entry away again; it is there.
LEMMA ExactPop ==
    ASSUME NEW S, NEW J \in Seq(S), J # << >>, NEW D \in [Addresses -> Nat], Exact(D, J),
           NEW D2, DOMAIN D2 = Addresses, D2 = [x \in DOMAIN D2 |-> D2[x]],
           \A a \in Addresses : D2[a] = D[a] - Mark(J[Len(J)], a)
    PROVE  D2 \in [Addresses -> Nat] /\ Exact(D2, SubSeq(J, 1, Len(J) - 1))
<1> DEFINE e == J[Len(J)]
           K == SubSeq(J, 1, Len(J) - 1)
<1>0. K \in Seq(S)
  OBVIOUS
<1>1. ASSUME NEW a \in Addresses
      PROVE  /\ D2[a] \in Nat
             /\ D2[a] >= Cardinality(Entries(K, a))
             /\ a # Ripemd => D2[a] = Cardinality(Entries(K, a))
  <2>1. Cardinality(Entries(K, a)) = Cardinality(Entries(J, a)) - Mark(e, a)
    BY CountPop
  <2>2. Cardinality(Entries(J, a)) \in Nat /\ Cardinality(Entries(K, a)) \in Nat
    BY <1>0, EntriesFinite
  <2>3. Mark(e, a) \in {0, 1}
    BY DEF Mark
  <2>4. /\ D[a] >= Cardinality(Entries(J, a))
        /\ a # Ripemd => D[a] = Cardinality(Entries(J, a))
    BY DEF Exact
  <2>5. D[a] \in Nat /\ D2[a] = D[a] - Mark(e, a)
    OBVIOUS
  <2>. HIDE DEF e, K
  <2>. QED
    BY <2>1, <2>2, <2>3, <2>4, <2>5
<1>2. D2 \in [Addresses -> Nat]
  BY <1>1
<1>. QED
  BY <1>1, <1>2 DEF Exact

\* With marks that are exact, an account with an entry is marked.
LEMMA MarkedDirty ==
    ASSUME NEW S, NEW J \in Seq(S), NEW D \in [Addresses -> Nat], Exact(D, J),
           NEW a \in Addresses, NEW k \in 1..Len(J), Marks(J[k], a)
    PROVE  D[a] > 0
<1>1. IsFiniteSet(Entries(J, a)) /\ Cardinality(Entries(J, a)) \in Nat
  BY EntriesFinite
<1>2. k \in Entries(J, a)
  BY DEF Entries
<1>3. Cardinality(Entries(J, a)) # 0
  BY <1>1, <1>2, FS_EmptySet
<1>4. D[a] \in Nat /\ D[a] >= Cardinality(Entries(J, a))
  BY DEF Exact
<1>. QED
  BY <1>1, <1>3, <1>4

\* ... and one that is marked has one, ripemd aside.
LEMMA DirtyMarked ==
    ASSUME NEW J, NEW D \in [Addresses -> Nat], Exact(D, J),
           NEW a \in Addresses, a # Ripemd, D[a] > 0
    PROVE  \E k \in 1..Len(J) : Marks(J[k], a)
<1>1. D[a] = Cardinality(Entries(J, a))
  BY DEF Exact
<1>2. Entries(J, a) # {}
  BY <1>1, FS_EmptySet
<1>. QED
  BY <1>2 DEF Entries

-----------------------------------------------------------------------------
\* What each kind of entry carries (journal.go:85-131).
LEMMA EntryTypes ==
    ASSUME NEW e \in Entry
    PROVE  /\ e.kind \in AccountKinds \cup {"refund", "preimage"}
           /\ e.kind \in AccountKinds => e.account \in Addresses
           /\ e.kind = "reset" => e.prev \in Object
           /\ e.kind = "suicide" => e.prev \in BOOLEAN /\ e.prevbalance \in Balances
           /\ e.kind = "balance" => e.prev \in Balances
           /\ e.kind = "nonce" => e.prev \in Nonces
           /\ e.kind = "code" => e.prev \in Codes
           /\ e.kind = "storage" => e.key \in Keys /\ e.prev \in Values
           /\ e.kind = "pdxStorage" => e.key \in PdxKeys /\ e.prev \in Values
           /\ e.kind = "refund" => e.prev \in Nat
           /\ e.kind = "preimage" => e.hash \in Hashes
<1> USE DEF AccountKinds, DirtyKinds, FieldKinds
<1>1. CASE e \in [kind : {"create", "touch"}, account : Addresses]
  BY <1>1
<1>2. CASE e \in [kind : {"reset"}, account : Addresses, prev : Object]
  BY <1>2
<1>3. CASE e \in [kind : {"suicide"}, account : Addresses, prev : BOOLEAN,
                  prevbalance : Balances]
  BY <1>3
<1>4. CASE e \in [kind : {"balance"}, account : Addresses, prev : Balances]
  BY <1>4
<1>5. CASE e \in [kind : {"nonce"}, account : Addresses, prev : Nonces]
  BY <1>5
<1>6. CASE e \in [kind : {"code"}, account : Addresses, prev : Codes]
  BY <1>6
<1>7. CASE e \in [kind : {"storage"}, account : Addresses, key : Keys, prev : Values]
  BY <1>7
<1>8. CASE e \in [kind : {"pdxStorage"}, account : Addresses, key : PdxKeys, prev : Values]
  BY <1>8
<1>9. CASE e \in [kind : {"refund"}, prev : Nat]
  BY <1>9
<1>10. CASE e \in [kind : {"preimage"}, hash : Hashes]
  BY <1>10
<1>. QED
  BY <1>1, <1>2, <1>3, <1>4, <1>5, <1>6, <1>7, <1>8, <1>9, <1>10 DEF Entry

\* newObject has nothing cached and shows what the account stores.
LEMMA NewObjectFacts ==
    ASSUME NEW data \in Account
    PROVE  /\ newObject(data) \in Object
           /\ Cached(newObject(data))
           /\ ~newObject(data).deleted /\ ~newObject(data).suicided
           /\ newObject(data).data = data
<1>1. newObject(data) \in Object
  BY DEF newObject, Object, NoWrites
<1>2. Cached(newObject(data))
  BY DEF newObject, NoWrites, Cached
<1>. QED
  BY <1>1, <1>2 DEF newObject

\* The account that createObject makes.
LEMMA NewAccountType == NewAccount \in Account
BY ValuesAssumption DEF NewAccount, Account

\* The getters return values of the right types.
LEMMA ReadTypes ==
    ASSUME NEW obj \in Object
    PROVE  AccountView(obj) \in ReadAccount /\ AccountView(obj) # NoObject /\ obj # NoObject
<1>1. obj # NoObject
  BY NoObjectAssumption
<1>2. \A k \in Keys : readState(obj, k) \in Values
  BY DEF readState, Object, Account
<1>3. \A k \in PdxKeys : readPDXState(obj, k) \in Values
  BY DEF readPDXState, Object, Account
<1>4. obj.data \in Account /\ obj.suicided \in BOOLEAN
  BY DEF Object
<1>5. AccountView(obj) \in ReadAccount
  BY <1>1, <1>2, <1>3, <1>4 DEF AccountView, ReadAccount, Account
<1>. QED
  BY <1>1, <1>5, NoObjectAssumption

\* What the getters return for an object.
LEMMA ReadRecord ==
    ASSUME NEW obj \in Object
    PROVE  AccountView(obj) =
              [nonce |-> obj.data.nonce, balance |-> obj.data.balance,
               code |-> obj.data.code, suicided |-> obj.suicided,
               storage |-> [k \in Keys |-> readState(obj, k)],
               pdx |-> [k \in PdxKeys |-> readPDXState(obj, k)]]
<1>1. obj # NoObject
  BY NoObjectAssumption
<1>. QED
  BY <1>1 DEF AccountView

\* getStateObject returns no deleted object.
LEMMA GetTypes ==
    ASSUME TypeOK, NEW a \in Addresses
    PROVE  /\ getStateObject(a) \in Object \cup {NoObject}
           /\ getStateObject(a) # NoObject => ~getStateObject(a).deleted
           /\ getStateObject(a) # NoObject
                => \/ getStateObject(a) = stateObjects[a]
                   \/ /\ stateObjects[a] = NoObject
                      /\ trie[a] # NoObject
                      /\ getStateObject(a) = newObject(trie[a])
<1>1. stateObjects[a] \in Object \cup {NoObject} /\ trie[a] \in Account \cup {NoObject}
  BY DEF TypeOK
<1>2. CASE stateObjects[a] # NoObject
  BY <1>1, <1>2 DEF getStateObject
<1>3. CASE stateObjects[a] = NoObject /\ trie[a] # NoObject
  BY <1>1, <1>3, NewObjectFacts DEF getStateObject
<1>4. CASE stateObjects[a] = NoObject /\ trie[a] = NoObject
  BY <1>4 DEF getStateObject
<1>. QED
  BY <1>2, <1>3, <1>4

\* ... and what it returns is consistent with its caches.
LEMMA GetCached ==
    ASSUME TypeOK, Objects(trie, stateObjects, dirties, journal), NEW a \in Addresses,
           getStateObject(a) # NoObject
    PROVE  Cached(getStateObject(a))
<1>1. trie[a] \in Account \cup {NoObject}
  BY DEF TypeOK
<1>. QED
  BY <1>1, GetTypes, NewObjectFacts DEF Objects

\* What can be read of one account, and of all.
LEMMA ViewTypes ==
    ASSUME TypeOK
    PROVE  /\ View \in World
           /\ View.refund = refund /\ View.preimages = preimages
           /\ \A a \in Addresses :
                 /\ View.accounts[a] = AccountView(getStateObject(a))
                 /\ View.accounts[a] = NoObject <=> getStateObject(a) = NoObject
<1>1. \A a \in Addresses : AccountView(getStateObject(a)) \in ReadAccount \cup {NoObject}
  BY GetTypes, ReadTypes DEF AccountView
<1>2. View \in World
  BY <1>1 DEF View, World, TypeOK
<1>3. \A a \in Addresses :
         AccountView(getStateObject(a)) = NoObject <=> getStateObject(a) = NoObject
  BY GetTypes, ReadTypes DEF AccountView
<1>. QED
  BY <1>2, <1>3 DEF View

\* Undoing a field entry of an object undoes it in what can be read.
LEMMA UndoFacts ==
    ASSUME NEW obj \in Object, NEW e \in Entry, e.kind \in FieldKinds
    PROVE  /\ undo(e, obj) \in Object
           /\ undo(e, obj).deleted = obj.deleted
           /\ Cached(obj) => Cached(undo(e, obj))
           /\ AccountView(undo(e, obj)) = UndoRead(e, AccountView(obj))
<1> DEFINE new == undo(e, obj)
           old == AccountView(obj)
<1>1. obj.data \in Account
  BY DEF Object
<1>2. CASE e.kind = "suicide"
  <2>1. new = [obj EXCEPT !.suicided = e.prev, !.data.balance = e.prevbalance]
    BY <1>2 DEF undo
  <2>2. e.prev \in BOOLEAN /\ e.prevbalance \in Balances
    BY <1>2, EntryTypes
  <2>3. new \in Object /\ new.deleted = obj.deleted
    <3>1. PICK d : d = [obj.data EXCEPT !.balance = e.prevbalance]
      OBVIOUS
    <3>2. d \in Account
      BY <3>1, <2>2, <1>1 DEF Account
    <3>3. PICK o : o = [obj EXCEPT !.data = d]
      OBVIOUS
    <3>4. o \in Object /\ o.suicided = obj.suicided /\ o.deleted = obj.deleted
      BY <3>2, <3>3 DEF Object
    <3>5. new = [o EXCEPT !.suicided = e.prev]
      BY <2>1, <3>1, <3>3 DEF Object
    <3>. QED
      BY <3>4, <3>5, <2>2 DEF Object
  <2>4. UndoRead(e, old) = [old EXCEPT !.suicided = e.prev, !.balance = e.prevbalance]
    BY <1>2 DEF UndoRead
  <2>5. /\ new.data.nonce = obj.data.nonce /\ new.data.balance = e.prevbalance
        /\ new.data.code = obj.data.code /\ new.suicided = e.prev
    BY <2>1, <2>2, <1>1 DEF Object, Account
  <2>6. /\ [k \in Keys |-> readState(new, k)] = [k \in Keys |-> readState(obj, k)]
        /\ [k \in PdxKeys |-> readPDXState(new, k)]
              = [k \in PdxKeys |-> readPDXState(obj, k)]
    BY <2>1, <1>1 DEF readState, readPDXState, Object, Account
  <2>. HIDE DEF new
  <2>7. AccountView(new) = UndoRead(e, old)
    <3> DEFINE st == [k \in Keys |-> readState(obj, k)]
               px == [k \in PdxKeys |-> readPDXState(obj, k)]
    <3>1. AccountView(new) =
             [nonce |-> new.data.nonce, balance |-> new.data.balance,
              code |-> new.data.code, suicided |-> new.suicided,
              storage |-> st, pdx |-> px]
      BY <2>3, <2>6, ReadRecord
    <3>2. old = [nonce |-> obj.data.nonce, balance |-> obj.data.balance,
                 code |-> obj.data.code, suicided |-> obj.suicided,
                 storage |-> st, pdx |-> px]
      BY ReadRecord
    <3>. HIDE DEF st, px, old
    <3>3. AccountView(new) =
             [nonce |-> obj.data.nonce, balance |-> e.prevbalance,
              code |-> obj.data.code, suicided |-> e.prev,
              storage |-> st, pdx |-> px]
      BY <3>1, <2>5
    <3>. QED
      BY <3>2, <3>3, <2>4
  <2>8. Cached(obj) => Cached(new)
    BY <2>1, <1>1 DEF Cached, Object, Account
  <2>. QED
    BY <2>3, <2>7, <2>8 DEF new
<1>3. CASE e.kind = "balance"
  <2>1. new = [obj EXCEPT !.data.balance = e.prev]
    BY <1>3 DEF undo
  <2>2. e.prev \in Balances
    BY <1>3, EntryTypes
  <2>3. new \in Object /\ new.deleted = obj.deleted
    BY <2>1, <2>2, <1>1 DEF Object, Account
  <2>4. UndoRead(e, old) = [old EXCEPT !.balance = e.prev]
    BY <1>3 DEF UndoRead
  <2>5. /\ new.data.nonce = obj.data.nonce /\ new.data.balance = e.prev
        /\ new.data.code = obj.data.code /\ new.suicided = obj.suicided
    BY <2>1, <2>2, <1>1 DEF Object, Account
  <2>6. /\ [k \in Keys |-> readState(new, k)] = [k \in Keys |-> readState(obj, k)]
        /\ [k \in PdxKeys |-> readPDXState(new, k)]
              = [k \in PdxKeys |-> readPDXState(obj, k)]
    BY <2>1, <1>1 DEF readState, readPDXState, Object, Account
  <2>. HIDE DEF new
  <2>7. AccountView(new) = UndoRead(e, old)
    BY <2>3, <2>4, <2>5, <2>6, ReadRecord
  <2>8. Cached(obj) => Cached(new)
    BY <2>1, <1>1 DEF Cached, Object, Account
  <2>. QED
    BY <2>3, <2>7, <2>8 DEF new
<1>4. CASE e.kind = "nonce"
  <2>1. new = [obj EXCEPT !.data.nonce = e.prev]
    BY <1>4 DEF undo
  <2>2. e.prev \in Nonces
    BY <1>4, EntryTypes
  <2>3. new \in Object /\ new.deleted = obj.deleted
    BY <2>1, <2>2, <1>1 DEF Object, Account
  <2>4. UndoRead(e, old) = [old EXCEPT !.nonce = e.prev]
    BY <1>4 DEF UndoRead
  <2>5. /\ new.data.nonce = e.prev /\ new.data.balance = obj.data.balance
        /\ new.data.code = obj.data.code /\ new.suicided = obj.suicided
    BY <2>1, <2>2, <1>1 DEF Object, Account
  <2>6. /\ [k \in Keys |-> readState(new, k)] = [k \in Keys |-> readState(obj, k)]
        /\ [k \in PdxKeys |-> readPDXState(new, k)]
              = [k \in PdxKeys |-> readPDXState(obj, k)]
    BY <2>1, <1>1 DEF readState, readPDXState, Object, Account
  <2>. HIDE DEF new
  <2>7. AccountView(new) = UndoRead(e, old)
    BY <2>3, <2>4, <2>5, <2>6, ReadRecord
  <2>8. Cached(obj) => Cached(new)
    BY <2>1, <1>1 DEF Cached, Object, Account
  <2>. QED
    BY <2>3, <2>7, <2>8 DEF new
<1>5. CASE e.kind = "code"
  <2>1. new = [obj EXCEPT !.data.code = e.prev]
    BY <1>5 DEF undo
  <2>2. e.prev \in Codes
    BY <1>5, EntryTypes
  <2>3. new \in Object /\ new.deleted = obj.deleted
    BY <2>1, <2>2, <1>1 DEF Object, Account
  <2>4. UndoRead(e, old) = [old EXCEPT !.code = e.prev]
    BY <1>5 DEF UndoRead
  <2>5. /\ new.data.nonce = obj.data.nonce /\ new.data.balance = obj.data.balance
        /\ new.data.code = e.prev /\ new.suicided = obj.suicided
    BY <2>1, <2>2, <1>1 DEF Object, Account
  <2>6. /\ [k \in Keys |-> readState(new, k)] = [k \in Keys |-> readState(obj, k)]
        /\ [k \in PdxKeys |-> readPDXState(new, k)]
              = [k \in PdxKeys |-> readPDXState(obj, k)]
    BY <2>1, <1>1 DEF readState, readPDXState, Object, Account
  <2>. HIDE DEF new
  <2>7. AccountView(new) = UndoRead(e, old)
    BY <2>3, <2>4, <2>5, <2>6, ReadRecord
  <2>8. Cached(obj) => Cached(new)
    BY <2>1, <1>1 DEF Cached, Object, Account
  <2>. QED
    BY <2>3, <2>7, <2>8 DEF new
<1>6. CASE e.kind = "storage"
  <2>1. new = [obj EXCEPT !.cached[e.key] = e.prev, !.dirty[e.key] = e.prev]
    BY <1>6 DEF undo, setState
  <2>2. e.key \in Keys /\ e.prev \in Values /\ e.prev # Miss
    BY <1>6, EntryTypes, ValuesAssumption
  <2>3. new \in Object /\ new.deleted = obj.deleted
    <3>1. PICK c : c = [obj.cached EXCEPT ![e.key] = e.prev]
      OBVIOUS
    <3>2. PICK d : d = [obj.dirty EXCEPT ![e.key] = e.prev]
      OBVIOUS
    <3>3. /\ c \in [Keys -> Values \cup {Miss}]
          /\ d \in [Keys -> Values \cup {Miss}]
      BY <3>1, <3>2, <2>2 DEF Object
    <3>4. new = [obj EXCEPT !.cached = c, !.dirty = d]
      BY <2>1, <3>1, <3>2
    <3>. HIDE DEF new
    <3>. QED
      BY <3>3, <3>4 DEF Object
  <2>4. UndoRead(e, old) = [old EXCEPT !.storage[e.key] = e.prev]
    BY <1>6 DEF UndoRead
  <2>5. new.data = obj.data /\ new.suicided = obj.suicided
    BY <2>1, <2>2, <1>1 DEF Object
  <2>6. [k \in PdxKeys |-> readPDXState(new, k)] = [k \in PdxKeys |-> readPDXState(obj, k)]
    BY <2>1, <1>1 DEF readPDXState, Object
  <2>7. [k \in Keys |-> readState(new, k)]
           = [[k \in Keys |-> readState(obj, k)] EXCEPT ![e.key] = e.prev]
    <3>1. new.cached = [obj.cached EXCEPT ![e.key] = e.prev]
      BY <2>1 DEF Object
    <3>2. \A k \in Keys : readState(new, k) = IF k = e.key THEN e.prev ELSE readState(obj, k)
      BY <3>1, <2>2, <2>5 DEF readState, Object
    <3>. QED
      BY <3>2
  <2>. HIDE DEF new
  <2>8. AccountView(new) = UndoRead(e, old)
    BY <2>3, <2>4, <2>5, <2>6, <2>7, ReadRecord
  <2>9. Cached(obj) => Cached(new)
    BY <2>1, <2>2, <1>1 DEF Cached, Object
  <2>. QED
    BY <2>3, <2>8, <2>9 DEF new
<1>7. CASE e.kind = "pdxStorage"
  <2>1. new = [obj EXCEPT !.pdxCached[e.key] = e.prev, !.pdxDirty[e.key] = e.prev]
    BY <1>7 DEF undo, setPDXState
  <2>2. e.key \in PdxKeys /\ e.prev \in Values /\ e.prev # Miss
    BY <1>7, EntryTypes, ValuesAssumption
  <2>3. new \in Object /\ new.deleted = obj.deleted
    <3>1. PICK c : c = [obj.pdxCached EXCEPT ![e.key] = e.prev]
      OBVIOUS
    <3>2. PICK d : d = [obj.pdxDirty EXCEPT ![e.key] = e.prev]
      OBVIOUS
    <3>3. /\ c \in [PdxKeys -> Values \cup {Miss}]
          /\ d \in [PdxKeys -> Values \cup {Miss}]
      BY <3>1, <3>2, <2>2 DEF Object
    <3>4. new = [obj EXCEPT !.pdxCached = c, !.pdxDirty = d]
      BY <2>1, <3>1, <3>2
    <3>. HIDE DEF new
    <3>. QED
      BY <3>3, <3>4 DEF Object
  <2>4. UndoRead(e, old) = [old EXCEPT !.pdx[e.key] = e.prev]
    BY <1>7 DEF UndoRead
  <2>5. new.data = obj.data /\ new.suicided = obj.suicided
    BY <2>1, <2>2, <1>1 DEF Object
  <2>6. [k \in Keys |-> readState(new, k)] = [k \in Keys |-> readState(obj, k)]
    BY <2>1, <1>1 DEF readState, Object
  <2>7. [k \in PdxKeys |-> readPDXState(new, k)]
           = [[k \in PdxKeys |-> readPDXState(obj, k)] EXCEPT ![e.key] = e.prev]
    <3>1. new.pdxCached = [obj.pdxCached EXCEPT ![e.key] = e.prev]
      BY <2>1 DEF Object
    <3>2. \A k \in PdxKeys : readPDXState(new, k) = IF k = e.key THEN e.prev ELSE readPDXState(obj, k)
      BY <3>1, <2>2, <2>5 DEF readPDXState, Object
    <3>. QED
      BY <3>2
  <2>. HIDE DEF new
  <2>8. AccountView(new) = UndoRead(e, old)
    BY <2>3, <2>4, <2>5, <2>6, <2>7, ReadRecord
  <2>9. Cached(obj) => Cached(new)
    BY <2>1, <2>2, <1>1 DEF Cached, Object
  <2>. QED
    BY <2>3, <2>8, <2>9 DEF new
<1>. QED
  BY <1>2, <1>3, <1>4, <1>5, <1>6, <1>7 DEF FieldKinds

-----------------------------------------------------------------------------
\* The sequences that Set appends, with one element.
LEMMA ConcatOne ==
    ASSUME NEW S, NEW V \in Seq(S), NEW W, NEW e
    PROVE  /\ V \o <<e>> = Append(V, e)
           /\ V \o [i \in 1..Len(<<e>>) |-> W] = Append(V, W)
<1>1. [i \in 1..Len(<<e>>) |-> W] = <<W>>
  OBVIOUS
<1>2. \A x : V \o <<x>> = Append(V, x)
  OBVIOUS
<1>. QED
  BY <1>1, <1>2

\* ... and with none.
LEMMA ConcatNone ==
    ASSUME NEW S, NEW V \in Seq(S), NEW W
    PROVE  V \o << >> = V /\ V \o [i \in 1..Len(<< >>) |-> W] = V
<1>1. [i \in 1..Len(<< >>) |-> W] = << >>
  OBVIOUS
<1>2. V \o << >> = V
  OBVIOUS
<1>. QED
  BY <1>1, <1>2

\* The journal J with its marks D, the views V and what can be read now.
Resets(J) ==
    \A k \in 1..Len(J) : J[k].kind = "reset" =>
        ResetExisting /\ Cached(J[k].prev) /\ ~J[k].prev.deleted

Log(T, D, J, V, W) ==
    /\ History(T, J, V, W)
    /\ D \in [Addresses -> Nat]
    /\ Exact(D, J)
    /\ Resets(J)

\* No other entry than a reset keeps an object.
LEMMA ResetsPush ==
    ASSUME NEW S, NEW J \in Seq(S), NEW e, Resets(J),
           e.kind = "reset" => ResetExisting /\ Cached(e.prev) /\ ~e.prev.deleted
    PROVE  Resets(Append(J, e))
<1>1. Len(J) \in Nat /\ Len(Append(J, e)) = Len(J) + 1 /\ Append(J, e)[Len(J) + 1] = e
  OBVIOUS
<1>2. \A i \in 1..Len(J) : Append(J, e)[i] = J[i]
  OBVIOUS
<1>3. \A i \in 1..Len(J) + 1 : i \in 1..Len(J) \/ i = Len(J) + 1
  BY <1>1
<1>. QED
  BY <1>1, <1>2, <1>3 DEF Resets

\* Writing an account of what can be read.
PutRead(W, a, x) == [W EXCEPT !.accounts[a] = x]

\* It changes this account and nothing else, and the last write counts.
LEMMA PutFacts ==
    ASSUME NEW W \in World, NEW a \in Addresses, NEW x
    PROVE  /\ PutRead(W, a, W.accounts[a]) = W
           /\ \A y : PutRead(PutRead(W, a, x), a, y) = PutRead(W, a, y)
           /\ PutRead(W, a, x).accounts[a] = x
           /\ \A b \in Addresses \ {a} : PutRead(W, a, x).accounts[b] = W.accounts[b]
           /\ PutRead(W, a, x).refund = W.refund /\ PutRead(W, a, x).preimages = W.preimages
           /\ x \in ReadAccount \cup {NoObject} => PutRead(W, a, x) \in World
<1>1. PICK m : m = W.accounts
  OBVIOUS
<1>2. /\ m \in [Addresses -> ReadAccount \cup {NoObject}]
      /\ W = [accounts |-> m, refund |-> W.refund, preimages |-> W.preimages]
  BY <1>1 DEF World
<1>3. \A y : [W EXCEPT !.accounts[a] = y]
              = [accounts |-> [m EXCEPT ![a] = y], refund |-> W.refund,
                 preimages |-> W.preimages]
  BY <1>2
<1>4. [m EXCEPT ![a] = m[a]] = m
  BY <1>2
<1>5. \A y : [[m EXCEPT ![a] = x] EXCEPT ![a] = y] = [m EXCEPT ![a] = y]
  BY <1>2
<1>6. PutRead(W, a, W.accounts[a]) = W
  BY <1>1, <1>2, <1>3, <1>4 DEF PutRead
<1>7. ASSUME NEW y PROVE PutRead(PutRead(W, a, x), a, y) = PutRead(W, a, y)
  <2>1. PutRead(W, a, x) = [accounts |-> [m EXCEPT ![a] = x], refund |-> W.refund,
                            preimages |-> W.preimages]
    BY <1>3 DEF PutRead
  <2>2. \A X : X = [accounts |-> [m EXCEPT ![a] = x], refund |-> W.refund,
                    preimages |-> W.preimages]
          => PutRead(X, a, y) = [accounts |-> [[m EXCEPT ![a] = x] EXCEPT ![a] = y],
                                 refund |-> W.refund, preimages |-> W.preimages]
    BY DEF PutRead
  <2>3. PutRead(W, a, y) = [accounts |-> [m EXCEPT ![a] = y], refund |-> W.refund,
                            preimages |-> W.preimages]
    BY <1>3 DEF PutRead
  <2>. QED
    BY <2>1, <2>2, <2>3, <1>5
<1>8. PutRead(W, a, x) = [accounts |-> [m EXCEPT ![a] = x], refund |-> W.refund,
                          preimages |-> W.preimages]
  BY <1>3 DEF PutRead
<1>9. x \in ReadAccount \cup {NoObject} => PutRead(W, a, x) \in World
  BY <1>2, <1>8 DEF World
<1>. QED
  BY <1>1, <1>2, <1>6, <1>7, <1>8, <1>9

\* The marks after k calls of journal.dirty for an account.
Marked(D, a, k) == [D EXCEPT ![a] = @ + k]

\* createObject on a missing account: its create entry undoes it.
LEMMA PushCreate ==
    ASSUME NEW T, NEW D, NEW J, NEW V, NEW W, Log(T, D, J, V, W),
           NEW a \in Addresses, T[a] = NoObject, W.accounts[a] = NoObject,
           NEW acc \in ReadAccount, ~acc.suicided
    PROVE  Log(T, Marked(D, a, 1), Append(J, CreateEntry(a)), Append(V, W),
               PutRead(W, a, acc))
<1> DEFINE e == CreateEntry(a)
           X == PutRead(W, a, acc)
           D2 == Marked(D, a, 1)
<1>1. e \in Entry /\ e.kind = "create" /\ e.account = a
  BY DEF CreateEntry, Entry
<1>2. J \in Seq(Entry) /\ W \in World /\ D \in [Addresses -> Nat] /\ Exact(D, J) /\ Resets(J)
  BY DEF Log, History
<1>3. /\ X \in World /\ X.accounts[a] = acc
      /\ \A b \in Addresses \ {a} : X.accounts[b] = W.accounts[b]
  BY <1>2, PutFacts
<1>4. W = UndoView(e, X)
  <2>1. UndoView(e, X) = PutRead(X, a, NoObject)
    BY <1>1 DEF UndoView, FieldKinds, PutRead
  <2>2. PutRead(X, a, NoObject) = PutRead(W, a, NoObject)
    BY <1>2, PutFacts
  <2>. QED
    BY <2>1, <2>2, <1>2, PutFacts
<1>5. acc # NoObject
  BY NoObjectAssumption
<1>6. /\ \A b \in Addresses : Of(e, b) <=> b = a
      /\ \A b \in Addresses : Marks(e, b) <=> b = a
  BY <1>1 DEF Of, Marks, AccountKinds, DirtyKinds
<1> HIDE DEF e, X
<1>7. History(T, Append(J, e), Append(V, W), X)
  BY <1>1, <1>3, <1>4, <1>5, <1>6, PushHistory DEF Log
<1>8. D2 \in [Addresses -> Nat] /\ \A b \in Addresses : D2[b] = D[b] + Mark(e, b)
  BY <1>2, <1>6 DEF Mark, Marked
<1> HIDE DEF D2
<1>9. Exact(D2, Append(J, e))
  <2>1. \A b \in Addresses : D2[b] >= D[b] + Mark(e, b)
    BY <1>8
  <2>. QED
    BY <2>1, <1>2, <1>8, ExactPush
<1>10. Resets(Append(J, e))
  BY <1>1, <1>2, ResetsPush
<1>. QED
  BY <1>7, <1>8, <1>9, <1>10 DEF Log, D2, X, e

\* A setter's entry undoes what the setter does to an account that exists.
LEMMA PushField ==
    ASSUME NEW T, NEW D, NEW J, NEW V, NEW W, Log(T, D, J, V, W),
           NEW a \in Addresses, W.accounts[a] # NoObject,
           NEW e \in Entry, e.kind \in FieldKinds \cup {"touch"}, e.account = a,
           NEW acc \in ReadAccount,
           W.accounts[a] = IF e.kind = "touch" THEN acc ELSE UndoRead(e, acc),
           NEW explicit \in Nat, explicit # 0 => a = Ripemd
    PROVE  Log(T, Marked(D, a, 1 + explicit), Append(J, e), Append(V, W),
               PutRead(W, a, acc))
<1> DEFINE X == PutRead(W, a, acc)
           D2 == Marked(D, a, 1 + explicit)
<1>1. J \in Seq(Entry) /\ W \in World /\ D \in [Addresses -> Nat] /\ Exact(D, J) /\ Resets(J)
  BY DEF Log, History
<1>2. /\ X \in World /\ X.accounts[a] = acc
      /\ \A b \in Addresses \ {a} : X.accounts[b] = W.accounts[b]
  BY <1>1, PutFacts
<1>3. W = UndoView(e, X)
  <2>1. CASE e.kind = "touch"
    <3>1. UndoView(e, X) = X
      BY <2>1 DEF UndoView, FieldKinds, PutRead
    <3>2. X = W
      BY <2>1, <1>1, PutFacts
    <3>. QED
      BY <3>1, <3>2
  <2>2. CASE e.kind \in FieldKinds
    <3>1. UndoView(e, X) = PutRead(X, a, UndoRead(e, acc))
      BY <2>2, <1>2 DEF UndoView, FieldKinds, PutRead
    <3>2. W.accounts[a] = UndoRead(e, acc)
      BY <2>2 DEF FieldKinds
    <3>3. PutRead(X, a, UndoRead(e, acc)) = PutRead(W, a, UndoRead(e, acc))
      BY <1>1, PutFacts
    <3>. QED
      BY <3>1, <3>2, <3>3, <1>1, PutFacts
  <2>. QED
    BY <2>1, <2>2
<1>4. acc # NoObject
  BY NoObjectAssumption
<1>5. /\ \A b \in Addresses : Of(e, b) <=> b = a
      /\ \A b \in Addresses : Marks(e, b) <=> b = a
      /\ e.kind # "create" /\ e.kind # "reset"
  BY DEF Of, Marks, AccountKinds, DirtyKinds, FieldKinds
<1> HIDE DEF X
<1>6. History(T, Append(J, e), Append(V, W), X)
  BY <1>2, <1>3, <1>4, <1>5, PushHistory DEF Log
<1>7. /\ D2 \in [Addresses -> Nat]
      /\ \A b \in Addresses : D2[b] >= D[b] + Mark(e, b)
      /\ \A b \in Addresses : b # Ripemd => D2[b] = D[b] + Mark(e, b)
  BY <1>1, <1>5 DEF Mark, Marked
<1> HIDE DEF D2
<1>8. Exact(D2, Append(J, e))
  BY <1>1, <1>7, ExactPush
<1>9. Resets(Append(J, e))
  BY <1>1, <1>5, ResetsPush
<1>. QED
  BY <1>6, <1>7, <1>8, <1>9 DEF Log, D2, X
-----------------------------------------------------------------------------
\* The snapshots taken so far see what they saw.
Keeps == Extends(journal, views, View, journal', views', View')

\* What a setter does to the object it changes is undone by its entry; a
\* setter without an entry changes nothing that can be read.
SetsNothing(addr, entries, explicit, obj) ==
    /\ entries = << >> /\ explicit = 0
    /\ AccountView(obj) = AccountView(GetOrNewStateObject(addr))

SetsField(addr, e, entries, explicit, obj) ==
    /\ explicit \in Nat /\ (explicit # 0 => addr = Ripemd)
    /\ entries = <<e>> /\ e.kind \in FieldKinds \cup {"touch"} /\ e.account = addr
    /\ AccountView(GetOrNewStateObject(addr)) =
          IF e.kind = "touch" THEN AccountView(obj) ELSE UndoRead(e, AccountView(obj))

Setter(addr, entries, explicit, obj) ==
    /\ obj \in Object /\ ~obj.deleted /\ Cached(obj)
    /\ \/ SetsNothing(addr, entries, explicit, obj)
       \/ \E e \in Entry : SetsField(addr, e, entries, explicit, obj)

\* The invariant and the log of the current state.
LEMMA InvLog ==
    ASSUME TypeOK
    PROVE  Inv <=> /\ Log(trie, dirties, journal, views, View)
                   /\ Objects(trie, stateObjects, dirties, journal)
                   /\ DirtyIsLive /\ Revisions
BY ExactDirties DEF Inv, Log, Objects, Resets, TypeOK

\* The object a setter works on.
LEMMA BaseFacts ==
    ASSUME Inv, NEW a \in Addresses
    PROVE  /\ GetOrNewStateObject(a) \in Object
           /\ ~GetOrNewStateObject(a).deleted
           /\ Cached(GetOrNewStateObject(a))
           /\ IsNew(a) => /\ trie[a] = NoObject /\ View.accounts[a] = NoObject
                          /\ GetOrNewStateObject(a) = newObject(NewAccount)
           /\ ~IsNew(a) => View.accounts[a] = AccountView(GetOrNewStateObject(a))
<1>1. TypeOK /\ Objects(trie, stateObjects, dirties, journal)
  BY DEF Inv
<1>2. CASE IsNew(a)
  <2>1. trie[a] = NoObject
    <3>1. trie[a] \in Account \cup {NoObject}
      BY <1>1 DEF TypeOK
    <3>. QED
      BY <3>1, <1>1, <1>2, NewObjectFacts, ReadTypes DEF IsNew, getStateObject, Objects
  <2>2. View.accounts[a] = NoObject
    BY <1>1, <1>2, ViewTypes DEF IsNew
  <2>3. GetOrNewStateObject(a) = newObject(NewAccount)
    BY <1>2 DEF GetOrNewStateObject
  <2>. QED
    BY <1>2, <2>1, <2>2, <2>3, NewAccountType, NewObjectFacts
<1>3. CASE ~IsNew(a)
  <2>1. GetOrNewStateObject(a) = getStateObject(a) /\ getStateObject(a) # NoObject
    BY <1>3 DEF GetOrNewStateObject, IsNew
  <2>2. View.accounts[a] = AccountView(getStateObject(a))
    BY <1>1, ViewTypes
  <2>. QED
    BY <1>1, <1>3, <2>1, <2>2, GetTypes, GetCached
<1>. QED
  BY <1>2, <1>3

\* Replacing one live object changes what can be read of its account only.
LEMMA ViewPut ==
    ASSUME TypeOK, NEW a \in Addresses, NEW obj \in Object, ~obj.deleted,
           stateObjects' = [stateObjects EXCEPT ![a] = obj],
           UNCHANGED <<trie, refund, preimages>>
    PROVE  View' = PutRead(View, a, AccountView(obj))
<1>1. stateObjects'[a] = obj /\ \A b \in Addresses \ {a} : stateObjects'[b] = stateObjects[b]
  BY DEF TypeOK
<1>2. obj # NoObject
  BY NoObjectAssumption
<1>3. getStateObject(a)' = obj
  BY <1>1, <1>2 DEF getStateObject
<1>4. \A b \in Addresses \ {a} : getStateObject(b)' = getStateObject(b)
  BY <1>1 DEF getStateObject
<1>5. [b \in Addresses |-> AccountView(getStateObject(b))]'
         = [[b \in Addresses |-> AccountView(getStateObject(b))] EXCEPT ![a] = AccountView(obj)]
  <2>1. \A b \in Addresses : AccountView(getStateObject(b))'
           = IF b = a THEN AccountView(obj) ELSE AccountView(getStateObject(b))
    BY <1>3, <1>4 DEF AccountView, readState, readPDXState
  <2>. QED
    BY <2>1
<1>6. PICK m : m = [b \in Addresses |-> AccountView(getStateObject(b))]
  OBVIOUS
<1>7. View = [accounts |-> m, refund |-> refund, preimages |-> preimages]
  BY <1>6 DEF View
<1>8. View' = [accounts |-> [m EXCEPT ![a] = AccountView(obj)],
               refund |-> refund, preimages |-> preimages]
  BY <1>5, <1>6 DEF View
<1>. QED
  BY <1>7, <1>8 DEF PutRead

\* A call that changes live objects, the refund or the preimages keeps the
\* invariant if its journal does.
LEMMA InvStep ==
    ASSUME Inv, pc = "ready",
           stateObjects' \in [Addresses -> Object \cup {NoObject}],
           \A a \in Addresses :
              \/ stateObjects'[a] = stateObjects[a] /\ dirties'[a] = dirties[a]
              \/ /\ stateObjects'[a] # NoObject /\ Cached(stateObjects'[a])
                 /\ ~stateObjects'[a].deleted,
           refund' \in Nat, preimages' \subseteq Hashes,
           UNCHANGED <<trie, stateObjectsDirty, revVars>>,
           Log(trie, dirties', journal', views', View'), Len(journal') >= Len(journal)
    PROVE  Inv'
<1>1. TypeOK /\ Objects(trie, stateObjects, dirties, journal) /\ DirtyIsLive /\ Revisions
  BY DEF Inv
<1>2. TypeOK'
  <2>1. journal' \in Seq(Entry) /\ Len(views') = Len(journal') /\ dirties' \in [Addresses -> Nat]
    BY DEF Log, History
  <2>. QED
    BY <2>1, <1>1 DEF TypeOK, revVars
<1>3. Objects(trie, stateObjects', dirties', journal')
  <2>1. Resets(journal')
    BY DEF Log
  <2>. QED
    BY <2>1, <1>1 DEF Objects, Resets
<1>4. DirtyIsLive'
  <2>1. stateObjectsDirty \subseteq Addresses
    BY <1>1 DEF TypeOK
  <2>. QED
    BY <2>1, <1>1 DEF DirtyIsLive
<1>5. Revisions'
  <2>1. UNCHANGED <<validRevisions, nextRevisionId, revertTo, pc>>
    BY DEF revVars
  <2>2. Len(journal) \in Nat /\ Len(journal') \in Nat /\ Len(journal) <= Len(journal')
    BY <1>1, <1>2 DEF TypeOK
  <2>3. \A i \in 1..Len(validRevisions) : validRevisions[i].journalIndex \in Nat
    <3>1. validRevisions \in Seq([id : Nat, journalIndex : Nat])
      BY <1>1 DEF TypeOK
    <3>2. \A i \in 1..Len(validRevisions) : validRevisions[i] \in [id : Nat, journalIndex : Nat]
      BY <3>1, ElementOfSeq
    <3>. QED
      BY <3>2
  <2>4. \A i \in 1..Len(validRevisions) : validRevisions[i].journalIndex <= Len(journal')
    BY <1>1, <2>2, <2>3 DEF Revisions
  <2>. QED
    BY <2>1, <2>4, <1>1 DEF Revisions
<1>6. Log(trie, dirties, journal, views, View)'
  OBVIOUS
<1>7. Objects(trie, stateObjects, dirties, journal)'
  BY <1>3
<1>8. (TypeOK => (Inv <=> /\ Log(trie, dirties, journal, views, View)
                          /\ Objects(trie, stateObjects, dirties, journal)
                          /\ DirtyIsLive /\ Revisions))'
  BY InvLog, PTL
<1>. QED
  BY <1>2, <1>4, <1>5, <1>6, <1>7, <1>8

\* A setter keeps the invariant and changes one account.
LEMMA SetStep ==
    ASSUME Inv, pc = "ready", NEW a \in Addresses, NEW entries, NEW explicit, NEW obj,
           Setter(a, entries, explicit, obj), Set(a, entries, explicit, obj)
    PROVE  Inv' /\ View' = PutRead(View, a, AccountView(obj)) /\ Keeps
<1> DEFINE base == GetOrNewStateObject(a)
           created == IF IsNew(a) THEN <<CreateEntry(a)>> ELSE << >>
           W1 == PutRead(View, a, AccountView(base))
           J1 == journal \o created
           V1 == views \o [i \in 1..Len(created) |-> View]
           D1 == Marked(dirties, a, Len(created))
           n == Len(journal)
<1>1. /\ TypeOK /\ Log(trie, dirties, journal, views, View)
      /\ Objects(trie, stateObjects, dirties, journal) /\ DirtyIsLive /\ Revisions
  BY InvLog DEF Inv
<1>2. /\ journal \in Seq(Entry) /\ views \in Seq(World) /\ Len(views) = n /\ n \in Nat
      /\ View \in World /\ dirties \in [Addresses -> Nat]
  BY <1>1 DEF Log, History
<1>3. /\ obj \in Object /\ ~obj.deleted /\ Cached(obj)
      /\ base \in Object /\ AccountView(base) \in ReadAccount
      /\ AccountView(obj) \in ReadAccount /\ AccountView(base) # NoObject
  BY BaseFacts, ReadTypes DEF Setter
<1>4. /\ stateObjects' = [stateObjects EXCEPT ![a] = obj]
      /\ journal' = journal \o created \o entries
      /\ views' = views \o [i \in 1..Len(created) |-> View] \o [i \in 1..Len(entries) |-> W1]
      /\ dirties' = [dirties EXCEPT ![a] = @ + Len(created) + Len(entries) + explicit]
      /\ UNCHANGED <<trie, stateObjectsDirty, refund, preimages, revVars>>
  BY DEF Set, PutRead
<1>5. View' = PutRead(View, a, AccountView(obj))
  BY <1>1, <1>3, <1>4, ViewPut
<1>6. /\ Log(trie, D1, J1, V1, W1)
      /\ Len(J1) >= n
      /\ Extends(journal, views, View, J1, V1, W1)
  <2>1. CASE IsNew(a)
    <3>1. created = <<CreateEntry(a)>> /\ Len(created) = 1
      BY <2>1
    <3>2. J1 = Append(journal, CreateEntry(a)) /\ V1 = Append(views, View)
      BY <3>1, <1>2, ConcatOne
    <3>3. D1 = Marked(dirties, a, 1)
      BY <3>1 DEF Marked
    <3>4. /\ trie[a] = NoObject /\ View.accounts[a] = NoObject
          /\ ~AccountView(base).suicided
      BY <2>1, <1>3, BaseFacts, ReadRecord, NewObjectFacts, NewAccountType
    <3>. HIDE DEF J1, V1, D1, W1, n, base
    <3>5. Log(trie, Marked(dirties, a, 1), Append(journal, CreateEntry(a)),
              Append(views, View), PutRead(View, a, AccountView(base)))
      BY <1>1, <1>3, <3>4, PushCreate
    <3>6. Len(Append(journal, CreateEntry(a))) = n + 1
      BY <1>2 DEF n
    <3>7. Extends(journal, views, View, Append(journal, CreateEntry(a)), Append(views, View), W1)
      BY <1>2, AtPush DEF n
    <3>. QED
      BY <3>2, <3>3, <3>5, <3>6, <3>7, <1>2 DEF W1
  <2>2. CASE ~IsNew(a)
    <3>1. created = << >> /\ Len(created) = 0
      BY <2>2
    <3>2. J1 = journal /\ V1 = views
      BY <3>1, <1>2, ConcatNone
    <3>3. D1 = dirties
      BY <3>1, <1>2 DEF Marked
    <3>4. W1 = View
      BY <2>2, <1>2, BaseFacts, PutFacts
    <3>. HIDE DEF J1, V1, D1, W1, n
    <3>. QED
      BY <3>2, <3>3, <3>4, <1>1, <1>2 DEF n, Extends
  <2>. QED
    BY <2>1, <2>2
<1>7. /\ W1.accounts[a] = AccountView(base) /\ W1 \in World
      /\ \A acc : PutRead(W1, a, acc) = PutRead(View, a, acc)
      /\ PutRead(W1, a, AccountView(base)) = W1
  BY <1>2, <1>3, PutFacts
<1>8. /\ J1 \in Seq(Entry) /\ V1 \in Seq(World) /\ Len(V1) = Len(J1) /\ Len(J1) \in Nat
      /\ D1 \in [Addresses -> Nat]
  BY <1>6 DEF Log, History
<1>9. /\ Log(trie, dirties', journal', views', View')
      /\ Len(journal') >= n
      /\ Keeps
  <2>1. CASE SetsNothing(a, entries, explicit, obj)
    <3>0. entries = << >> /\ explicit = 0 /\ AccountView(obj) = AccountView(base)
      BY <2>1 DEF SetsNothing
    <3>1. journal' = J1 /\ views' = V1
      BY <3>0, <1>4, <1>8, ConcatNone
    <3>2. dirties' = D1
      <4>1. Len(entries) = 0 /\ Len(created) \in Nat
        BY <3>0
      <4>2. PICK c \in Nat : c = Len(created)
        BY <4>1
      <4>3. D1 = Marked(dirties, a, c)
        BY <4>2
      <4>4. dirties' = [dirties EXCEPT ![a] = @ + c + 0 + 0]
        BY <4>1, <4>2, <3>0, <1>4
      <4>5. dirties[a] \in Nat
        BY <1>2
      <4>6. dirties[a] + c + 0 + 0 = dirties[a] + c
        BY <4>2, <4>5
      <4>. QED
        BY <4>3, <4>4, <4>6 DEF Marked
    <3>3. View' = W1
      BY <3>0, <1>5, <1>7
    <3>. HIDE DEF J1, V1, D1, W1, n
    <3>. QED
      BY <3>1, <3>2, <3>3, <1>6 DEF Keeps
  <2>2. ASSUME NEW e \in Entry, SetsField(a, e, entries, explicit, obj)
        PROVE  /\ Log(trie, dirties', journal', views', View')
               /\ Len(journal') >= n
               /\ Keeps
    <3>0. /\ explicit \in Nat /\ (explicit # 0 => a = Ripemd)
          /\ entries = <<e>> /\ e.kind \in FieldKinds \cup {"touch"} /\ e.account = a
          /\ AccountView(base) = IF e.kind = "touch" THEN AccountView(obj)
                                 ELSE UndoRead(e, AccountView(obj))
      BY <2>2 DEF SetsField
    <3>1. Len(entries) = 1
      BY <3>0
    <3>2. journal' = Append(J1, e) /\ views' = Append(V1, W1)
      BY <3>0, <1>4, <1>8, ConcatOne
    <3>3. dirties' = Marked(D1, a, 1 + explicit)
      <4>1. PICK c \in Nat : c = Len(created)
        OBVIOUS
      <4>2. D1 = Marked(dirties, a, c)
        BY <4>1
      <4>3. PICK m \in Nat : m = 1 + explicit
        BY <3>0
      <4>4. dirties \in [Addresses -> Nat] /\ dirties[a] \in Nat
        BY <1>2
      <4>5. PICK x \in Nat : x = dirties[a] + c + m
        BY <4>1, <4>3, <4>4
      <4>6. dirties' = [dirties EXCEPT ![a] = x]
        <5>1. dirties' = [dirties EXCEPT ![a] = @ + c + 1 + explicit]
          BY <4>1, <3>1, <1>4
        <5>2. dirties[a] + c + 1 + explicit = x
          BY <4>1, <4>3, <4>4, <4>5, <3>0
        <5>. QED
          BY <5>1, <5>2
      <4>7. D1 = [dirties EXCEPT ![a] = dirties[a] + c]
        BY <4>2 DEF Marked
      <4>. HIDE DEF D1
      <4>8. D1[a] = dirties[a] + c /\ [D1 EXCEPT ![a] = x] = [dirties EXCEPT ![a] = x]
        BY <4>4, <4>7
      <4>9. D1[a] + m = x
        BY <4>5, <4>8
      <4>10. dirties' = Marked(D1, a, m)
        BY <4>6, <4>8, <4>9 DEF Marked
      <4>. QED
        BY <4>3, <4>10
    <3>. HIDE DEF J1, V1, D1, W1, n, base
    <3>4. View' = PutRead(W1, a, AccountView(obj))
      BY <1>5, <1>7
    <3>5. Log(trie, Marked(D1, a, 1 + explicit), Append(J1, e), Append(V1, W1),
              PutRead(W1, a, AccountView(obj)))
      <4>1. W1.accounts[a] # NoObject
        BY <1>3, <1>7
      <4>2. W1.accounts[a] = IF e.kind = "touch" THEN AccountView(obj)
                             ELSE UndoRead(e, AccountView(obj))
        BY <1>7, <3>0
      <4>3. Log(trie, D1, J1, V1, W1) /\ AccountView(obj) \in ReadAccount
        BY <1>3, <1>6
      <4>. QED
        BY <4>1, <4>2, <4>3, <3>0, PushField
    <3>6. Len(Append(J1, e)) = Len(J1) + 1
      BY <1>8
    <3>7. Extends(J1, V1, W1, Append(J1, e), Append(V1, W1), PutRead(W1, a, AccountView(obj)))
      BY <1>8, AtPush
    <3>8. \A i \in 0..Len(journal) : i \in 0..Len(J1)
      BY <1>6, <1>8, <1>2 DEF n
    <3>9. Keeps
      BY <3>2, <3>4, <3>7, <3>8, <1>6 DEF Keeps, Extends
    <3>. QED
      BY <3>2, <3>3, <3>4, <3>5, <3>6, <3>9, <1>2, <1>6, <1>8
  <2>. QED
    BY <2>1, <2>2 DEF Setter
<1>. HIDE DEF J1, V1, D1, W1, base, created
<1>10. Inv'
  <2>1. stateObjects' \in [Addresses -> Object \cup {NoObject}]
    BY <1>1, <1>3, <1>4 DEF TypeOK
  <2>2. \A b \in Addresses : stateObjects'[b] = IF b = a THEN obj ELSE stateObjects[b]
    BY <1>1, <1>4 DEF TypeOK
  <2>3. \A b \in Addresses : b # a => dirties'[b] = dirties[b]
    BY <1>2, <1>4
  <2>4. \A b \in Addresses :
           \/ stateObjects'[b] = stateObjects[b] /\ dirties'[b] = dirties[b]
           \/ /\ stateObjects'[b] # NoObject /\ Cached(stateObjects'[b])
              /\ ~stateObjects'[b].deleted
    BY <2>2, <2>3, <1>3, ReadTypes
  <2>5. refund' \in Nat /\ preimages' \subseteq Hashes
    BY <1>1, <1>4 DEF TypeOK
  <2>. QED
    BY <2>1, <2>4, <2>5, <1>4, <1>9, InvStep
<1>. QED
  BY <1>5, <1>9, <1>10
-----------------------------------------------------------------------------
\* What can be read of the account a setter works on, and what it then does.
Base(a) == AccountView(GetOrNewStateObject(a))

Wrote(a, acc) ==
    /\ View' = PutRead(View, a, acc) /\ Keeps
    /\ UNCHANGED <<trie, revVars>>

\* Undoing a change of a field gives back the account as it was.
LEMMA UndoChange ==
    ASSUME NEW acc \in ReadAccount, NEW e \in Entry, NEW f \in Entry,
           e.kind \in FieldKinds, f.kind = e.kind,
           e.kind = "suicide" => e.prev = acc.suicided /\ e.prevbalance = acc.balance,
           e.kind = "balance" => e.prev = acc.balance,
           e.kind = "nonce" => e.prev = acc.nonce,
           e.kind = "code" => e.prev = acc.code,
           e.kind = "storage" => f.key = e.key /\ e.prev = acc.storage[e.key],
           e.kind = "pdxStorage" => f.key = e.key /\ e.prev = acc.pdx[e.key]
    PROVE  UndoRead(e, UndoRead(f, acc)) = acc
<1> DEFINE new == UndoRead(f, acc)
<1>1. CASE e.kind = "suicide"
  <2>1. \A x : UndoRead(e, x) = [x EXCEPT !.suicided = e.prev, !.balance = e.prevbalance]
    BY <1>1 DEF UndoRead
  <2>2. new = [acc EXCEPT !.suicided = f.prev, !.balance = f.prevbalance]
    BY <1>1 DEF UndoRead
  <2>3. UndoRead(e, new) = [new EXCEPT !.suicided = acc.suicided, !.balance = acc.balance]
    BY <1>1, <2>1
  <2>. HIDE DEF new
  <2>4. [new EXCEPT !.suicided = acc.suicided, !.balance = acc.balance] = acc
    BY <2>2 DEF ReadAccount
  <2>. QED
    BY <2>3, <2>4 DEF new
<1>2. CASE e.kind = "balance"
  <2>1. \A x : UndoRead(e, x) = [x EXCEPT !.balance = e.prev]
    BY <1>2 DEF UndoRead
  <2>2. new = [acc EXCEPT !.balance = f.prev]
    BY <1>2 DEF UndoRead
  <2>. HIDE DEF new
  <2>. QED
    BY <1>2, <2>1, <2>2, SMTT(60) DEF ReadAccount, new
<1>3. CASE e.kind = "nonce"
  <2>1. \A x : UndoRead(e, x) = [x EXCEPT !.nonce = e.prev]
    BY <1>3 DEF UndoRead
  <2>2. new = [acc EXCEPT !.nonce = f.prev]
    BY <1>3 DEF UndoRead
  <2>. HIDE DEF new
  <2>. QED
    BY <1>3, <2>1, <2>2, SMTT(60) DEF ReadAccount, new
<1>4. CASE e.kind = "code"
  <2>1. \A x : UndoRead(e, x) = [x EXCEPT !.code = e.prev]
    BY <1>4 DEF UndoRead
  <2>2. new = [acc EXCEPT !.code = f.prev]
    BY <1>4 DEF UndoRead
  <2>. HIDE DEF new
  <2>. QED
    BY <1>4, <2>1, <2>2, SMTT(60) DEF ReadAccount, new
<1>5. CASE e.kind = "storage"
  <2>1. \A x : UndoRead(e, x) = [x EXCEPT !.storage[e.key] = e.prev]
    BY <1>5 DEF UndoRead
  <2>2. new = [acc EXCEPT !.storage[e.key] = f.prev]
    BY <1>5 DEF UndoRead
  <2>3. PICK m : m = acc.storage
    OBVIOUS
  <2>4. e.key \in Keys /\ m \in [Keys -> Values]
    BY <1>5, <2>3, EntryTypes DEF ReadAccount
  <2>5. [[m EXCEPT ![e.key] = f.prev] EXCEPT ![e.key] = m[e.key]] = m
    BY <2>4
  <2>6. new = [acc EXCEPT !.storage = [m EXCEPT ![e.key] = f.prev]]
    BY <2>2, <2>3
  <2>7. new.storage = [m EXCEPT ![e.key] = f.prev]
    BY <2>6 DEF ReadAccount
  <2>. HIDE DEF new
  <2>8. UndoRead(e, new) = [new EXCEPT !.storage = m]
    <3>1. [new EXCEPT !.storage[e.key] = m[e.key]] = [new EXCEPT !.storage = m]
      BY <2>5, <2>7
    <3>. QED
      BY <2>1, <2>3, <3>1, <1>5
  <2>9. [new EXCEPT !.storage = m] = acc
    BY <2>3, <2>6 DEF ReadAccount
  <2>. QED
    BY <2>8, <2>9 DEF new
<1>6. CASE e.kind = "pdxStorage"
  <2>1. \A x : UndoRead(e, x) = [x EXCEPT !.pdx[e.key] = e.prev]
    BY <1>6 DEF UndoRead
  <2>2. new = [acc EXCEPT !.pdx[e.key] = f.prev]
    BY <1>6 DEF UndoRead
  <2>3. PICK m : m = acc.pdx
    OBVIOUS
  <2>4. e.key \in PdxKeys /\ m \in [PdxKeys -> Values]
    BY <1>6, <2>3, EntryTypes DEF ReadAccount
  <2>5. [[m EXCEPT ![e.key] = f.prev] EXCEPT ![e.key] = m[e.key]] = m
    BY <2>4
  <2>6. new = [acc EXCEPT !.pdx = [m EXCEPT ![e.key] = f.prev]]
    BY <2>2, <2>3
  <2>7. new.pdx = [m EXCEPT ![e.key] = f.prev]
    BY <2>6 DEF ReadAccount
  <2>. HIDE DEF new
  <2>8. UndoRead(e, new) = [new EXCEPT !.pdx = m]
    <3>1. [new EXCEPT !.pdx[e.key] = m[e.key]] = [new EXCEPT !.pdx = m]
      BY <2>5, <2>7
    <3>. QED
      BY <2>1, <2>3, <3>1, <1>6
  <2>9. [new EXCEPT !.pdx = m] = acc
    BY <2>3, <2>6 DEF ReadAccount
  <2>. QED
    BY <2>8, <2>9 DEF new
<1>. QED
  BY <1>1, <1>2, <1>3, <1>4, <1>5, <1>6 DEF FieldKinds

\* A setter with one entry e does to the object what undoing an entry f does.
LEMMA FieldStep ==
    ASSUME Inv, pc = "ready", NEW a \in Addresses, NEW e \in Entry, NEW f \in Entry,
           e.kind \in FieldKinds, f.kind = e.kind, e.account = a,
           UndoRead(e, UndoRead(f, Base(a))) = Base(a),
           Set(a, <<e>>, 0, undo(f, GetOrNewStateObject(a)))
    PROVE  Inv' /\ Wrote(a, UndoRead(f, Base(a)))
<1> DEFINE base == GetOrNewStateObject(a)
           obj == undo(f, base)
<1>1. base \in Object /\ ~base.deleted /\ Cached(base)
  BY BaseFacts
<1>2. /\ obj \in Object /\ ~obj.deleted /\ Cached(obj)
      /\ AccountView(obj) = UndoRead(f, AccountView(base))
  BY <1>1, UndoFacts
<1>3. AccountView(base) = UndoRead(e, AccountView(obj)) /\ e.kind # "touch"
  BY <1>2 DEF Base, FieldKinds
<1>. HIDE DEF base, obj
<1>4. SetsField(a, e, <<e>>, 0, obj)
  BY <1>3 DEF SetsField, base
<1>5. Setter(a, <<e>>, 0, obj)
  BY <1>2, <1>4 DEF Setter
<1>6. Set(a, <<e>>, 0, obj)
  BY DEF obj, base
<1>7. Inv' /\ View' = PutRead(View, a, AccountView(obj)) /\ Keeps
  BY <1>5, <1>6, SetStep
<1>8. UNCHANGED <<trie, revVars>>
  BY <1>6 DEF Set
<1>. QED
  BY <1>2, <1>7, <1>8 DEF Wrote, Base, base

\* A setter without an entry, and a touch, leave the account as it was.
LEMMA PlainStep ==
    ASSUME Inv, pc = "ready", NEW a \in Addresses, NEW explicit \in Nat, NEW entries,
           \/ entries = << >> /\ explicit = 0
           \/ /\ entries = <<[kind |-> "touch", account |-> a]>>
              /\ explicit # 0 => a = Ripemd,
           Set(a, entries, explicit, GetOrNewStateObject(a))
    PROVE  Inv' /\ Wrote(a, Base(a))
<1> DEFINE base == GetOrNewStateObject(a)
           e == [kind |-> "touch", account |-> a]
<1>1. base \in Object /\ ~base.deleted /\ Cached(base)
  BY BaseFacts
<1>2. e \in Entry /\ e.kind = "touch" /\ e.account = a
  BY DEF Entry
<1>. HIDE DEF base, e
<1>3. SetsNothing(a, entries, explicit, base) \/ SetsField(a, e, entries, explicit, base)
  BY <1>2 DEF SetsNothing, SetsField, base, e
<1>4. Setter(a, entries, explicit, base)
  BY <1>1, <1>2, <1>3 DEF Setter
<1>5. Set(a, entries, explicit, base)
  BY DEF base
<1>6. Inv' /\ View' = PutRead(View, a, AccountView(base)) /\ Keeps
  BY <1>4, <1>5, SetStep
<1>7. UNCHANGED <<trie, revVars>>
  BY <1>5 DEF Set
<1>. QED
  BY <1>6, <1>7 DEF Wrote, Base, base

\* The fields of the account a setter works on.
LEMMA BaseFields ==
    ASSUME Inv, NEW a \in Addresses
    PROVE  /\ Base(a) \in ReadAccount
           /\ Base(a).nonce = GetOrNewStateObject(a).data.nonce
           /\ Base(a).balance = GetOrNewStateObject(a).data.balance
           /\ Base(a).code = GetOrNewStateObject(a).data.code
           /\ Base(a).suicided = GetOrNewStateObject(a).suicided
           /\ \A k \in Keys : Base(a).storage[k] = readState(GetOrNewStateObject(a), k)
           /\ \A k \in PdxKeys : Base(a).pdx[k] = readPDXState(GetOrNewStateObject(a), k)
<1> DEFINE base == GetOrNewStateObject(a)
<1>1. base \in Object
  BY BaseFacts
<1>. HIDE DEF base
<1>2. Base(a) = AccountView(base)
  BY DEF Base, base
<1>3. AccountView(base) \in ReadAccount
  BY <1>1, ReadTypes
<1>. QED
  BY <1>1, <1>2, <1>3, ReadRecord DEF base

\* A balance is written with an entry that keeps the old one.
LEMMA BalanceStep ==
    ASSUME Inv, pc = "ready", NEW a \in Addresses, NEW amount \in Balances,
           Set(a, <<BalanceEntry(a, GetOrNewStateObject(a))>>, 0,
               [GetOrNewStateObject(a) EXCEPT !.data.balance = amount])
    PROVE  Inv' /\ Wrote(a, [Base(a) EXCEPT !.balance = amount])
<1> DEFINE base == GetOrNewStateObject(a)
           e == BalanceEntry(a, base)
           f == [kind |-> "balance", account |-> a, prev |-> amount]
<1>1. Base(a) \in ReadAccount /\ Base(a).balance = base.data.balance
  BY BaseFields
<1>2. base.data.balance \in Balances
  BY <1>1 DEF ReadAccount
<1>3. /\ e \in Entry /\ e.kind = "balance" /\ e.account = a /\ e.prev = Base(a).balance
      /\ f \in Entry /\ f.kind = "balance" /\ f.prev = amount
  BY <1>1, <1>2 DEF BalanceEntry, Entry
<1>. HIDE DEF base, e, f
<1>4. undo(f, base) = [base EXCEPT !.data.balance = amount]
  BY <1>3 DEF undo
<1>5. UndoRead(f, Base(a)) = [Base(a) EXCEPT !.balance = amount]
  BY <1>3 DEF UndoRead
<1>6. UndoRead(e, UndoRead(f, Base(a))) = Base(a) /\ e.kind \in FieldKinds /\ f.kind = e.kind
  BY <1>1, <1>3, UndoChange DEF FieldKinds
<1>7. Set(a, <<e>>, 0, undo(f, base))
  BY <1>4 DEF base, e
<1>8. Inv' /\ Wrote(a, UndoRead(f, Base(a)))
  BY <1>3, <1>6, <1>7, FieldStep DEF base
<1>. QED
  BY <1>5, <1>8

\* StateDB.SetBalance.
LEMMA SetBalanceStep ==
    ASSUME Inv, NEW a \in Addresses, NEW amount \in Balances, SetBalance(a, amount)
    PROVE  Inv' /\ Wrote(a, [Base(a) EXCEPT !.balance = amount])
BY BalanceStep DEF SetBalance

\* StateDB.AddBalance: an addition of nothing leaves the account as it was.
LEMMA AddBalanceStep ==
    ASSUME Inv, NEW a \in Addresses, NEW amount \in Balances, AddBalance(a, amount)
    PROVE  \E b \in Balances : Inv' /\ Wrote(a, [Base(a) EXCEPT !.balance = b])
<1> DEFINE base == GetOrNewStateObject(a)
           touched == amount = 0 /\ empty(base.data)
<1>1. base \in Object /\ base.data.balance \in Balances
  <2>1. base \in Object
    BY BaseFacts
  <2>. QED
    BY <2>1 DEF Object, Account
<1>2. pc = "ready" /\ base.data.balance + amount \in Balances
  BY DEF AddBalance
<1>3. CASE amount # 0
  <2>1. Set(a, <<BalanceEntry(a, base)>>, 0,
            [base EXCEPT !.data.balance = base.data.balance + amount])
    BY <1>3 DEF AddBalance
  <2>. QED
    BY <2>1, <1>2, BalanceStep
<1>4. CASE amount = 0
  <2>1. [base EXCEPT !.data.balance = @ + amount] = base
    <3>1. base.data.balance + amount = base.data.balance
      <4>1. PICK b \in Nat : b = base.data.balance
        BY <1>1, ValuesAssumption
      <4>. QED
        BY <4>1, <1>4
    <3>2. [base EXCEPT !.data.balance = base.data.balance] = base
      BY <1>1 DEF Object, Account
    <3>. QED
      BY <3>1, <3>2
  <2>2. ASSUME touched PROVE Inv' /\ Wrote(a, Base(a))
    <3>1. PICK k \in Nat : k = IF a = Ripemd THEN 1 ELSE 0
      OBVIOUS
    <3>2. Set(a, <<[kind |-> "touch", account |-> a]>>, k, base)
      <4>1. CASE a = Ripemd
        BY <4>1, <3>1, <2>1, <2>2 DEF AddBalance
      <4>2. CASE a # Ripemd
        BY <4>2, <3>1, <2>1, <2>2 DEF AddBalance
      <4>. QED
        BY <4>1, <4>2
    <3>3. k # 0 => a = Ripemd
      BY <3>1
    <3>. QED
      BY <3>2, <3>3, <1>2, PlainStep
  <2>3. ASSUME ~touched PROVE Inv' /\ Wrote(a, Base(a))
    <3>1. Set(a, << >>, 0, base)
      BY <2>3, <1>4, <2>1 DEF AddBalance
    <3>. QED
      BY <3>1, <1>2, PlainStep
  <2>4. Base(a) = [Base(a) EXCEPT !.balance = Base(a).balance] /\ Base(a).balance \in Balances
    BY BaseFields DEF ReadAccount
  <2>. QED
    BY <2>2, <2>3, <2>4
<1>. QED
  BY <1>3, <1>4

\* StateDB.SubBalance.
LEMMA SubBalanceStep ==
    ASSUME Inv, NEW a \in Addresses, NEW amount \in Balances, SubBalance(a, amount)
    PROVE  \E b \in Balances : Inv' /\ Wrote(a, [Base(a) EXCEPT !.balance = b])
<1> DEFINE base == GetOrNewStateObject(a)
<1>1. base \in Object /\ base.data.balance \in Balances
  <2>1. base \in Object
    BY BaseFacts
  <2>. QED
    BY <2>1 DEF Object, Account
<1>2. pc = "ready" /\ base.data.balance - amount \in Balances
  BY DEF SubBalance
<1>3. CASE amount # 0
  <2>1. Set(a, <<BalanceEntry(a, base)>>, 0,
            [base EXCEPT !.data.balance = base.data.balance - amount])
    BY <1>3 DEF SubBalance
  <2>. QED
    BY <2>1, <1>2, BalanceStep
<1>4. CASE amount = 0
  <2>1. [base EXCEPT !.data.balance = @ - amount] = base
    <3>1. base.data.balance - amount = base.data.balance
      <4>1. PICK b \in Nat : b = base.data.balance
        BY <1>1, ValuesAssumption
      <4>. QED
        BY <4>1, <1>4
    <3>2. [base EXCEPT !.data.balance = base.data.balance] = base
      BY <1>1 DEF Object, Account
    <3>. QED
      BY <3>1, <3>2
  <2>2. Set(a, << >>, 0, base)
    BY <1>4, <2>1 DEF SubBalance
  <2>3. Inv' /\ Wrote(a, Base(a))
    BY <2>2, <1>2, PlainStep
  <2>4. Base(a) = [Base(a) EXCEPT !.balance = Base(a).balance] /\ Base(a).balance \in Balances
    BY BaseFields DEF ReadAccount
  <2>. QED
    BY <2>3, <2>4
<1>. QED
  BY <1>3, <1>4

\* StateDB.SetNonce.
LEMMA SetNonceStep ==
    ASSUME Inv, NEW a \in Addresses, NEW nonce \in Nonces, SetNonce(a, nonce)
    PROVE  Inv' /\ Wrote(a, [Base(a) EXCEPT !.nonce = nonce])
<1> DEFINE base == GetOrNewStateObject(a)
           e == [kind |-> "nonce", account |-> a, prev |-> base.data.nonce]
           f == [kind |-> "nonce", account |-> a, prev |-> nonce]
<1>1. Base(a) \in ReadAccount /\ Base(a).nonce = base.data.nonce
  BY BaseFields
<1>2. base.data.nonce \in Nonces
  BY <1>1 DEF ReadAccount
<1>3. /\ e \in Entry /\ e.kind = "nonce" /\ e.account = a /\ e.prev = Base(a).nonce
      /\ f \in Entry /\ f.kind = "nonce" /\ f.prev = nonce
  BY <1>1, <1>2 DEF Entry
<1>4. pc = "ready" /\ Set(a, <<e>>, 0, [base EXCEPT !.data.nonce = nonce])
  BY DEF SetNonce
<1>. HIDE DEF base, e, f
<1>5. undo(f, base) = [base EXCEPT !.data.nonce = nonce]
  BY <1>3 DEF undo
<1>6. UndoRead(f, Base(a)) = [Base(a) EXCEPT !.nonce = nonce]
  BY <1>3 DEF UndoRead
<1>7. UndoRead(e, UndoRead(f, Base(a))) = Base(a) /\ e.kind \in FieldKinds /\ f.kind = e.kind
  BY <1>1, <1>3, UndoChange DEF FieldKinds
<1>8. Inv' /\ Wrote(a, UndoRead(f, Base(a)))
  BY <1>3, <1>4, <1>5, <1>7, FieldStep DEF base
<1>. QED
  BY <1>6, <1>8

\* StateDB.SetCode.
LEMMA SetCodeStep ==
    ASSUME Inv, NEW a \in Addresses, NEW code \in Codes, SetCode(a, code)
    PROVE  Inv' /\ Wrote(a, [Base(a) EXCEPT !.code = code])
<1> DEFINE base == GetOrNewStateObject(a)
           e == [kind |-> "code", account |-> a, prev |-> base.data.code]
           f == [kind |-> "code", account |-> a, prev |-> code]
<1>1. Base(a) \in ReadAccount /\ Base(a).code = base.data.code
  BY BaseFields
<1>2. base.data.code \in Codes
  BY <1>1 DEF ReadAccount
<1>3. /\ e \in Entry /\ e.kind = "code" /\ e.account = a /\ e.prev = Base(a).code
      /\ f \in Entry /\ f.kind = "code" /\ f.prev = code
  BY <1>1, <1>2 DEF Entry
<1>4. pc = "ready" /\ Set(a, <<e>>, 0, [base EXCEPT !.data.code = code])
  BY DEF SetCode
<1>. HIDE DEF base, e, f
<1>5. undo(f, base) = [base EXCEPT !.data.code = code]
  BY <1>3 DEF undo
<1>6. UndoRead(f, Base(a)) = [Base(a) EXCEPT !.code = code]
  BY <1>3 DEF UndoRead
<1>7. UndoRead(e, UndoRead(f, Base(a))) = Base(a) /\ e.kind \in FieldKinds /\ f.kind = e.kind
  BY <1>1, <1>3, UndoChange DEF FieldKinds
<1>8. Inv' /\ Wrote(a, UndoRead(f, Base(a)))
  BY <1>3, <1>4, <1>5, <1>7, FieldStep DEF base
<1>. QED
  BY <1>6, <1>8

\* StateDB.SetState.
LEMMA SetStateStep ==
    ASSUME Inv, NEW a \in Addresses, NEW k \in Keys, NEW v \in Values, SetState(a, k, v)
    PROVE  Inv' /\ Wrote(a, [Base(a) EXCEPT !.storage[k] = v])
<1> DEFINE base == GetOrNewStateObject(a)
           e == [kind |-> "storage", account |-> a, key |-> k, prev |-> readState(base, k)]
           f == [kind |-> "storage", account |-> a, key |-> k, prev |-> v]
<1>1. Base(a) \in ReadAccount /\ Base(a).storage[k] = readState(base, k)
  BY BaseFields
<1>2. readState(base, k) \in Values
  BY <1>1 DEF ReadAccount
<1>3. /\ e \in Entry /\ e.kind = "storage" /\ e.account = a /\ e.key = k
      /\ e.prev = Base(a).storage[k]
      /\ f \in Entry /\ f.kind = "storage" /\ f.key = k /\ f.prev = v
  BY <1>1, <1>2 DEF Entry
<1>4. pc = "ready" /\ Set(a, <<e>>, 0, setState(base, k, v))
  BY DEF SetState
<1>. HIDE DEF base, e, f
<1>5. undo(f, base) = setState(base, k, v)
  BY <1>3 DEF undo
<1>6. UndoRead(f, Base(a)) = [Base(a) EXCEPT !.storage[k] = v]
  BY <1>3 DEF UndoRead
<1>7. UndoRead(e, UndoRead(f, Base(a))) = Base(a) /\ e.kind \in FieldKinds /\ f.kind = e.kind
  BY <1>1, <1>3, UndoChange DEF FieldKinds
<1>8. Inv' /\ Wrote(a, UndoRead(f, Base(a)))
  BY <1>3, <1>4, <1>5, <1>7, FieldStep DEF base
<1>. QED
  BY <1>6, <1>8

\* StateDB.SetPDXState.
LEMMA SetPDXStateStep ==
    ASSUME Inv, NEW a \in Addresses, NEW k \in PdxKeys, NEW v \in Values, SetPDXState(a, k, v)
    PROVE  Inv' /\ Wrote(a, [Base(a) EXCEPT !.pdx[k] = v])
<1> DEFINE base == GetOrNewStateObject(a)
           e == [kind |-> "pdxStorage", account |-> a, key |-> k, prev |-> readPDXState(base, k)]
           f == [kind |-> "pdxStorage", account |-> a, key |-> k, prev |-> v]
<1>1. Base(a) \in ReadAccount /\ Base(a).pdx[k] = readPDXState(base, k)
  BY BaseFields
<1>2. readPDXState(base, k) \in Values
  BY <1>1 DEF ReadAccount
<1>3. /\ e \in Entry /\ e.kind = "pdxStorage" /\ e.account = a /\ e.key = k
      /\ e.prev = Base(a).pdx[k]
      /\ f \in Entry /\ f.kind = "pdxStorage" /\ f.key = k /\ f.prev = v
  BY <1>1, <1>2 DEF Entry
<1>4. pc = "ready" /\ Set(a, <<e>>, 0, setPDXState(base, k, v))
  BY DEF SetPDXState
<1>. HIDE DEF base, e, f
<1>5. undo(f, base) = setPDXState(base, k, v)
  BY <1>3 DEF undo
<1>6. UndoRead(f, Base(a)) = [Base(a) EXCEPT !.pdx[k] = v]
  BY <1>3 DEF UndoRead
<1>7. UndoRead(e, UndoRead(f, Base(a))) = Base(a) /\ e.kind \in FieldKinds /\ f.kind = e.kind
  BY <1>1, <1>3, UndoChange DEF FieldKinds
<1>8. Inv' /\ Wrote(a, UndoRead(f, Base(a)))
  BY <1>3, <1>4, <1>5, <1>7, FieldStep DEF base
<1>. QED
  BY <1>6, <1>8

\* StateDB.Suicide of an account that exists.
LEMMA SuicideStep ==
    ASSUME Inv, NEW a \in Addresses, Suicide(a)
    PROVE  /\ Inv' /\ ~IsNew(a)
           /\ Wrote(a, [Base(a) EXCEPT !.suicided = TRUE, !.balance = 0])
<1> DEFINE base == GetOrNewStateObject(a)
           e == [kind |-> "suicide", account |-> a, prev |-> base.suicided,
                 prevbalance |-> base.data.balance]
           f == [kind |-> "suicide", account |-> a, prev |-> TRUE, prevbalance |-> 0]
<1>1. /\ Base(a) \in ReadAccount /\ Base(a).balance = base.data.balance
      /\ Base(a).suicided = base.suicided
  BY BaseFields
<1>2. base.data.balance \in Balances /\ base.suicided \in BOOLEAN
  BY <1>1 DEF ReadAccount
<1>3. /\ e \in Entry /\ e.kind = "suicide" /\ e.account = a
      /\ e.prev = Base(a).suicided /\ e.prevbalance = Base(a).balance
      /\ f \in Entry /\ f.kind = "suicide" /\ f.prev = TRUE /\ f.prevbalance = 0
  BY <1>1, <1>2, ValuesAssumption DEF Entry
<1>4. /\ pc = "ready" /\ ~IsNew(a)
      /\ Set(a, <<e>>, 0, [base EXCEPT !.suicided = TRUE, !.data.balance = 0])
  <2>1. ~IsNew(a)
    BY DEF Suicide, IsNew
  <2>2. base = getStateObject(a)
    BY <2>1 DEF GetOrNewStateObject
  <2>. QED
    BY <2>1, <2>2 DEF Suicide
<1>. HIDE DEF base, e, f
<1>5. undo(f, base) = [base EXCEPT !.suicided = TRUE, !.data.balance = 0]
  BY <1>3 DEF undo
<1>6. UndoRead(f, Base(a)) = [Base(a) EXCEPT !.suicided = TRUE, !.balance = 0]
  BY <1>3 DEF UndoRead
<1>7. UndoRead(e, UndoRead(f, Base(a))) = Base(a) /\ e.kind \in FieldKinds /\ f.kind = e.kind
  BY <1>1, <1>3, UndoChange DEF FieldKinds
<1>8. Inv' /\ Wrote(a, UndoRead(f, Base(a)))
  BY <1>3, <1>4, <1>5, <1>7, FieldStep DEF base
<1>. QED
  BY <1>4, <1>6, <1>8

\* createObject on an address without an account.
LEMMA CreateNewStep ==
    ASSUME Inv, NEW a \in Addresses, CreateNew(a)
    PROVE  Inv' /\ IsNew(a) /\ Wrote(a, Base(a))
<1>1. pc = "ready" /\ IsNew(a) /\ Set(a, << >>, 0, GetOrNewStateObject(a))
  BY DEF CreateNew, GetOrNewStateObject
<1>2. 0 \in Nat
  OBVIOUS
<1>. QED
  BY <1>1, <1>2, PlainStep
-----------------------------------------------------------------------------
\* createObject on an existing account: its reset entry keeps the old object.
LEMMA CreateOverStep ==
    ASSUME Inv, NEW a \in Addresses, CreateOver(a)
    PROVE  /\ Inv' /\ ~IsNew(a)
           /\ Wrote(a, AccountView(newObject([NewAccount EXCEPT !.balance = Base(a).balance])))
<1> DEFINE prev == getStateObject(a)
           data == [NewAccount EXCEPT !.balance = prev.data.balance]
           obj == newObject(data)
           e == [kind |-> "reset", account |-> a, prev |-> prev]
           X == PutRead(View, a, AccountView(obj))
<1>1. /\ TypeOK /\ Log(trie, dirties, journal, views, View)
      /\ Objects(trie, stateObjects, dirties, journal)
  BY InvLog DEF Inv
<1>2. /\ journal \in Seq(Entry) /\ views \in Seq(World) /\ Len(views) = Len(journal)
      /\ View \in World /\ dirties \in [Addresses -> Nat] /\ Exact(dirties, journal)
      /\ Resets(journal) /\ History(trie, journal, views, View)
  BY <1>1 DEF Log, History
<1>3. /\ pc = "ready" /\ ResetExisting /\ ~IsNew(a) /\ prev # NoObject
      /\ stateObjects' = [stateObjects EXCEPT ![a] = obj]
      /\ journal' = Append(journal, e) /\ views' = Append(views, View)
      /\ UNCHANGED <<trie, stateObjectsDirty, refund, preimages, dirties, revVars>>
  BY DEF CreateOver, IsNew
<1>4. /\ prev \in Object /\ Cached(prev) /\ ~prev.deleted
      /\ AccountView(prev) = View.accounts[a]
  BY <1>1, <1>3, GetTypes, GetCached, ViewTypes
<1>5. Base(a) = AccountView(prev) /\ Base(a).balance = prev.data.balance
  <2>1. GetOrNewStateObject(a) = prev
    BY <1>3 DEF GetOrNewStateObject
  <2>. QED
    BY <2>1, BaseFields DEF Base
<1>6. data \in Account
  <2>1. prev.data.balance \in Balances
    BY <1>4 DEF Object, Account
  <2>. QED
    BY <2>1, NewAccountType DEF Account
<1>7. e \in Entry /\ e.kind = "reset" /\ e.account = a /\ e.prev = prev
  BY <1>4 DEF Entry
<1>. HIDE DEF prev, data, e
<1>8. obj \in Object /\ Cached(obj) /\ ~obj.deleted /\ ~obj.suicided
  BY <1>6, NewObjectFacts
<1>. HIDE DEF obj
<1>9. /\ AccountView(obj) \in ReadAccount /\ AccountView(obj) # NoObject
      /\ ~AccountView(obj).suicided
  BY <1>8, ReadTypes, ReadRecord
<1>10. View' = X
  BY <1>1, <1>3, <1>8, ViewPut
<1>11. /\ X \in World /\ X.accounts[a] = AccountView(obj)
       /\ \A b \in Addresses \ {a} : X.accounts[b] = View.accounts[b]
  BY <1>2, <1>9, PutFacts
<1>12. View = UndoView(e, X)
  <2>1. UndoView(e, X) = PutRead(X, a, AccountView(prev))
    BY <1>7 DEF UndoView, FieldKinds, PutRead
  <2>2. PutRead(X, a, AccountView(prev)) = PutRead(View, a, AccountView(prev))
    BY <1>2, PutFacts
  <2>. QED
    BY <2>1, <2>2, <1>2, <1>4, PutFacts
<1>13. /\ \A b \in Addresses : Of(e, b) <=> b = a
       /\ \A b \in Addresses : ~Marks(e, b)
  BY <1>7 DEF Of, Marks, AccountKinds, DirtyKinds, FieldKinds
<1>. HIDE DEF X
<1>14. History(trie, Append(journal, e), Append(views, View), X)
  BY <1>2, <1>7, <1>9, <1>11, <1>12, <1>13, PushHistory
<1>15. Exact(dirties, Append(journal, e))
  <2>1. \A b \in Addresses : Mark(e, b) = 0
    BY <1>13 DEF Mark
  <2>2. \A b \in Addresses : dirties[b] >= dirties[b] + Mark(e, b)
                             /\ dirties[b] = dirties[b] + Mark(e, b)
    BY <2>1, <1>2
  <2>. QED
    BY <2>2, <1>2, ExactPush
<1>16. Resets(Append(journal, e))
  BY <1>2, <1>3, <1>4, <1>7, ResetsPush
<1>17. Log(trie, dirties', journal', views', View')
  BY <1>2, <1>3, <1>10, <1>14, <1>15, <1>16 DEF Log
<1>18. Len(journal') >= Len(journal)
  <2>1. Len(Append(journal, e)) = Len(journal) + 1 /\ Len(journal) \in Nat
    BY <1>2
  <2>. QED
    BY <2>1, <1>3
<1>19. Keeps
  BY <1>2, <1>3, <1>10, AtPush DEF Keeps
<1>20. Inv'
  <2>1. stateObjects' \in [Addresses -> Object \cup {NoObject}]
    BY <1>1, <1>3, <1>8 DEF TypeOK
  <2>2. \A b \in Addresses : stateObjects'[b] = IF b = a THEN obj ELSE stateObjects[b]
    BY <1>1, <1>3 DEF TypeOK
  <2>3. \A b \in Addresses :
           \/ stateObjects'[b] = stateObjects[b] /\ dirties'[b] = dirties[b]
           \/ /\ stateObjects'[b] # NoObject /\ Cached(stateObjects'[b])
              /\ ~stateObjects'[b].deleted
    BY <2>2, <1>3, <1>8, ReadTypes
  <2>4. refund' \in Nat /\ preimages' \subseteq Hashes
    BY <1>1, <1>3 DEF TypeOK
  <2>. QED
    BY <2>1, <2>3, <2>4, <1>3, <1>17, <1>18, InvStep
<1>21. Wrote(a, AccountView(obj))
  BY <1>3, <1>10, <1>19 DEF Wrote, X
<1>. QED
  BY <1>3, <1>5, <1>20, <1>21 DEF obj, data

\* A getter loads an object and changes nothing that can be read.
LEMMA LoadStep ==
    ASSUME Inv, pc = "ready", NEW a \in Addresses, NEW obj \in Object,
           ~obj.deleted, Cached(obj), AccountView(obj) = View.accounts[a],
           stateObjects' = [stateObjects EXCEPT ![a] = obj],
           UNCHANGED <<trie, stateObjectsDirty, refund, preimages, jrnVars, revVars>>
    PROVE  Inv' /\ View' = View
<1>1. TypeOK /\ Log(trie, dirties, journal, views, View)
  BY InvLog DEF Inv
<1>2. View \in World /\ Len(journal) \in Nat
  BY <1>1 DEF Log, History
<1>3. View' = PutRead(View, a, AccountView(obj))
  BY <1>1, ViewPut
<1>4. View' = View
  BY <1>2, <1>3, PutFacts
<1>5. stateObjects' \in [Addresses -> Object \cup {NoObject}]
  BY <1>1 DEF TypeOK
<1>6. \A b \in Addresses : stateObjects'[b] = IF b = a THEN obj ELSE stateObjects[b]
  BY <1>1 DEF TypeOK
<1>7. \A b \in Addresses :
         \/ stateObjects'[b] = stateObjects[b] /\ dirties'[b] = dirties[b]
         \/ /\ stateObjects'[b] # NoObject /\ Cached(stateObjects'[b])
            /\ ~stateObjects'[b].deleted
  BY <1>6, ReadTypes DEF jrnVars
<1>8. refund' \in Nat /\ preimages' \subseteq Hashes
  BY <1>1 DEF TypeOK
<1>9. Log(trie, dirties', journal', views', View') /\ Len(journal') >= Len(journal)
  BY <1>1, <1>2, <1>4 DEF jrnVars
<1>. QED
  BY <1>4, <1>5, <1>7, <1>8, <1>9, InvStep

\* The types of the variables that snapshots and calls in progress live in.
RevTypes ==
    /\ validRevisions \in Seq([id : Nat, journalIndex : Nat])
    /\ nextRevisionId \in Nat
    /\ pc \in {"ready", "reverting", "panicked", "rejected"}
    /\ revertTo \in 0..Len(validRevisions)
    /\ finalised \in Nat

\* A step that changes the snapshots only keeps what the others say.
LEMMA KeepStep ==
    ASSUME Inv, UNCHANGED <<objVars, refund, preimages, jrnVars>>, RevTypes', Revisions'
    PROVE  Inv' /\ View' = View
<1>1. /\ TypeOK /\ Log(trie, dirties, journal, views, View)
      /\ Objects(trie, stateObjects, dirties, journal) /\ DirtyIsLive
  BY InvLog DEF Inv
<1>2. UNCHANGED <<trie, stateObjects, stateObjectsDirty, refund, preimages, journal, dirties, views>>
  BY DEF objVars, jrnVars
<1>3. View' = View
  BY <1>2 DEF View, AccountView, getStateObject, readState, readPDXState
<1>4. TypeOK'
  BY <1>1, <1>2 DEF TypeOK, RevTypes
<1>5. Log(trie, dirties, journal, views, View)'
  BY <1>1, <1>2, <1>3
<1>6. Objects(trie, stateObjects, dirties, journal)'
  BY <1>1, <1>2
<1>7. DirtyIsLive'
  BY <1>1, <1>2 DEF DirtyIsLive
<1>8. (TypeOK => (Inv <=> /\ Log(trie, dirties, journal, views, View)
                          /\ Objects(trie, stateObjects, dirties, journal)
                          /\ DirtyIsLive /\ Revisions))'
  BY InvLog, PTL
<1>. QED
  BY <1>3, <1>4, <1>5, <1>6, <1>7, <1>8

\* A step that changes nothing.
LEMMA StutterStep ==
    ASSUME Inv, UNCHANGED vars
    PROVE  Inv' /\ View' = View
<1>1. RevTypes /\ Revisions
  BY DEF Inv, TypeOK, RevTypes
<1>2. UNCHANGED <<objVars, refund, preimages, jrnVars, revVars>>
  BY DEF vars
<1>3. UNCHANGED <<validRevisions, nextRevisionId, pc, revertTo, finalised, journal>>
  BY <1>2 DEF revVars, jrnVars
<1>4. RevTypes' /\ Revisions'
  BY <1>1, <1>3 DEF RevTypes, Revisions, Target
<1>. QED
  BY <1>2, <1>4, KeepStep

\* The getters other than GetState.
LEMMA ReadStep ==
    ASSUME Inv, NEW a \in Addresses, Read(a)
    PROVE  Inv' /\ View' = View
<1>1. TypeOK
  BY DEF Inv
<1>2. /\ pc = "ready" /\ stateObjects' = Loaded(a)
      /\ UNCHANGED <<trie, stateObjectsDirty, refund, preimages, jrnVars, revVars>>
  BY DEF Read
<1>3. CASE stateObjects[a] = NoObject /\ trie[a] # NoObject
  <2>1. trie[a] \in Account
    BY <1>1, <1>3 DEF TypeOK
  <2>2. getStateObject(a) = newObject(trie[a]) /\ Loaded(a) = [stateObjects EXCEPT ![a] = newObject(trie[a])]
    BY <1>3 DEF getStateObject, Loaded
  <2>3. View.accounts[a] = AccountView(newObject(trie[a]))
    BY <1>1, <2>2, ViewTypes
  <2>. QED
    BY <1>2, <2>1, <2>2, <2>3, NewObjectFacts, LoadStep
<1>4. CASE ~(stateObjects[a] = NoObject /\ trie[a] # NoObject)
  <2>1. UNCHANGED vars
    BY <1>2, <1>4 DEF Loaded, vars, objVars
  <2>. QED
    BY <2>1, StutterStep
<1>. QED
  BY <1>3, <1>4

\* GetState also caches the value it read.
LEMMA GetStateStep ==
    ASSUME Inv, NEW a \in Addresses, NEW k \in Keys, GetState(a, k)
    PROVE  Inv' /\ View' = View
<1> DEFINE obj == getStateObject(a)
           new == [obj EXCEPT !.cached[k] = readState(obj, k)]
<1>1. TypeOK /\ Objects(trie, stateObjects, dirties, journal)
  BY DEF Inv
<1>2. /\ pc = "ready" /\ obj # NoObject /\ stateObjects' = [stateObjects EXCEPT ![a] = new]
      /\ UNCHANGED <<trie, stateObjectsDirty, refund, preimages, jrnVars, revVars>>
  BY DEF GetState
<1>3. /\ obj \in Object /\ Cached(obj) /\ ~obj.deleted
      /\ AccountView(obj) = View.accounts[a]
  BY <1>1, <1>2, GetTypes, GetCached, ViewTypes
<1>. HIDE DEF obj
<1>4. PICK c : c = [obj.cached EXCEPT ![k] = readState(obj, k)]
  OBVIOUS
<1>5. new = [obj EXCEPT !.cached = c]
  BY <1>4
<1>6. readState(obj, k) \in Values /\ readState(obj, k) # Miss
  BY <1>3, ValuesAssumption DEF readState, Object, Account
<1>7. /\ c \in [Keys -> Values \cup {Miss}] /\ c[k] = readState(obj, k)
      /\ \A j \in Keys \ {k} : c[j] = obj.cached[j]
  BY <1>3, <1>4, <1>6 DEF Object
<1>. HIDE DEF new
<1>8. /\ new \in Object /\ ~new.deleted /\ new.cached = c
      /\ new.data = obj.data /\ new.suicided = obj.suicided /\ new.dirty = obj.dirty
      /\ new.pdxCached = obj.pdxCached /\ new.pdxDirty = obj.pdxDirty
  BY <1>3, <1>5, <1>7 DEF Object
<1>9. \A j \in Keys : readState(new, j) = readState(obj, j)
  BY <1>6, <1>7, <1>8 DEF readState
<1>10. \A j \in PdxKeys : readPDXState(new, j) = readPDXState(obj, j)
  BY <1>8 DEF readPDXState
<1>11. AccountView(new) = AccountView(obj)
  <2>1. /\ [j \in Keys |-> readState(new, j)] = [j \in Keys |-> readState(obj, j)]
        /\ [j \in PdxKeys |-> readPDXState(new, j)] = [j \in PdxKeys |-> readPDXState(obj, j)]
    BY <1>9, <1>10
  <2>. QED
    BY <2>1, <1>3, <1>8, ReadRecord
<1>12. Cached(new)
  <2>1. ASSUME NEW j \in Keys
        PROVE  IF new.cached[j] = Miss THEN new.dirty[j] = Miss
               ELSE new.cached[j] = IF new.dirty[j] # Miss THEN new.dirty[j]
                                    ELSE new.data.root[j]
    BY <1>3, <1>6, <1>7, <1>8 DEF Cached, readState
  <2>. QED
    BY <2>1, <1>3, <1>8 DEF Cached
<1>. QED
  BY <1>2, <1>3, <1>8, <1>11, <1>12, LoadStep

\* The entries that are not about an account.
LEMMA OtherStep ==
    ASSUME Inv, pc = "ready", NEW e \in Entry, e.kind \in {"refund", "preimage"},
           View' \in World, View'.accounts = View.accounts, View = UndoView(e, View'),
           journal' = Append(journal, e), views' = Append(views, View),
           refund' \in Nat, preimages' \subseteq Hashes,
           UNCHANGED <<objVars, dirties, revVars>>
    PROVE  Inv' /\ Keeps
<1>1. TypeOK /\ Log(trie, dirties, journal, views, View)
  BY InvLog DEF Inv
<1>2. /\ journal \in Seq(Entry) /\ views \in Seq(World) /\ Len(views) = Len(journal)
      /\ View \in World /\ dirties \in [Addresses -> Nat] /\ Exact(dirties, journal)
      /\ Resets(journal) /\ History(trie, journal, views, View)
  BY <1>1 DEF Log, History
<1>3. UNCHANGED <<trie, stateObjects, stateObjectsDirty, dirties>>
  BY DEF objVars
<1>4. \A b \in Addresses : ~Of(e, b) /\ ~Marks(e, b)
  BY DEF Of, Marks, AccountKinds, DirtyKinds, FieldKinds
<1>5. History(trie, Append(journal, e), Append(views, View), View')
  BY <1>2, <1>4, PushHistory
<1>6. Exact(dirties, Append(journal, e))
  <2>1. \A b \in Addresses : Mark(e, b) = 0
    BY <1>4 DEF Mark
  <2>2. \A b \in Addresses : dirties[b] >= dirties[b] + Mark(e, b)
                             /\ dirties[b] = dirties[b] + Mark(e, b)
    BY <2>1, <1>2
  <2>. QED
    BY <2>2, <1>2, ExactPush
<1>7. Resets(Append(journal, e))
  BY <1>2, ResetsPush
<1>8. Log(trie, dirties', journal', views', View')
  BY <1>2, <1>3, <1>5, <1>6, <1>7 DEF Log
<1>9. Len(journal') >= Len(journal)
  <2>1. Len(Append(journal, e)) = Len(journal) + 1 /\ Len(journal) \in Nat
    BY <1>2
  <2>. QED
    BY <2>1
<1>10. Keeps
  BY <1>2, AtPush DEF Keeps
<1>11. stateObjects' \in [Addresses -> Object \cup {NoObject}]
  BY <1>1, <1>3 DEF TypeOK
<1>. QED
  BY <1>3, <1>8, <1>9, <1>10, <1>11, InvStep

\* StateDB.AddRefund.
LEMMA AddRefundStep ==
    ASSUME Inv, NEW gas \in Nat, AddRefund(gas)
    PROVE  /\ Inv' /\ Keeps /\ UNCHANGED revVars
           /\ View' = [View EXCEPT !.refund = View.refund + gas]
<1> DEFINE e == [kind |-> "refund", prev |-> refund]
<1>1. TypeOK
  BY DEF Inv
<1>2. /\ pc = "ready" /\ journal' = Append(journal, e) /\ views' = Append(views, View)
      /\ refund' = refund + gas /\ UNCHANGED <<objVars, preimages, dirties, revVars>>
  BY DEF AddRefund
<1>3. refund \in Nat /\ refund' \in Nat /\ preimages' \subseteq Hashes
  BY <1>1, <1>2 DEF TypeOK
<1>4. e \in Entry /\ e.kind = "refund" /\ e.prev = refund
  BY <1>3 DEF Entry
<1>5. PICK m : m = [a \in Addresses |-> AccountView(getStateObject(a))]
  OBVIOUS
<1>6. View = [accounts |-> m, refund |-> refund, preimages |-> preimages]
  BY <1>5 DEF View
<1>7. View' = [accounts |-> m, refund |-> refund', preimages |-> preimages]
  <2>1. UNCHANGED <<trie, stateObjects, preimages>>
    BY <1>2 DEF objVars
  <2>2. [a \in Addresses |-> AccountView(getStateObject(a))]' = m
    BY <2>1, <1>5 DEF AccountView, getStateObject, readState, readPDXState
  <2>. QED
    BY <2>1, <2>2 DEF View
<1>8. View \in World
  BY <1>1, ViewTypes
<1>9. View' \in World
  BY <1>3, <1>6, <1>7, <1>8 DEF World
<1>. HIDE DEF e
<1>10. UndoView(e, View') = [View' EXCEPT !.refund = refund]
  BY <1>4 DEF UndoView, FieldKinds
<1>11. UndoView(e, View') = View
  BY <1>6, <1>7, <1>10
<1>12. Inv' /\ Keeps
  BY <1>2, <1>3, <1>4, <1>6, <1>7, <1>9, <1>11, OtherStep
<1>. QED
  BY <1>2, <1>6, <1>7, <1>12

\* StateDB.AddPreimage of a hash that has none.
LEMMA AddPreimageStep ==
    ASSUME Inv, NEW hash \in Hashes, AddPreimage(hash)
    PROVE  /\ Inv' /\ Keeps /\ UNCHANGED revVars
           /\ View' = [View EXCEPT !.preimages = @ \cup {hash}]
<1> DEFINE e == [kind |-> "preimage", hash |-> hash]
<1>1. TypeOK
  BY DEF Inv
<1>2. /\ pc = "ready" /\ journal' = Append(journal, e) /\ views' = Append(views, View)
      /\ hash \notin preimages /\ preimages' = preimages \cup {hash}
      /\ UNCHANGED <<objVars, refund, dirties, revVars>>
  BY DEF AddPreimage
<1>3. refund' \in Nat /\ preimages' \subseteq Hashes
  BY <1>1, <1>2 DEF TypeOK
<1>4. e \in Entry /\ e.kind = "preimage" /\ e.hash = hash
  BY DEF Entry
<1>5. PICK m : m = [a \in Addresses |-> AccountView(getStateObject(a))]
  OBVIOUS
<1>6. View = [accounts |-> m, refund |-> refund, preimages |-> preimages]
  BY <1>5 DEF View
<1>7. View' = [accounts |-> m, refund |-> refund, preimages |-> preimages']
  <2>1. UNCHANGED <<trie, stateObjects, refund>>
    BY <1>2 DEF objVars
  <2>2. [a \in Addresses |-> AccountView(getStateObject(a))]' = m
    BY <2>1, <1>5 DEF AccountView, getStateObject, readState, readPDXState
  <2>. QED
    BY <2>1, <2>2 DEF View
<1>8. View \in World
  BY <1>1, ViewTypes
<1>9. View' \in World
  BY <1>3, <1>6, <1>7, <1>8 DEF World
<1>. HIDE DEF e
<1>10. UndoView(e, View') = [View' EXCEPT !.preimages = View'.preimages \ {hash}]
  BY <1>4 DEF UndoView, FieldKinds
<1>11. View'.preimages \ {hash} = preimages
  BY <1>2, <1>7
<1>12. UndoView(e, View') = View
  BY <1>6, <1>7, <1>10, <1>11
<1>13. Inv' /\ Keeps
  <2>1. View'.accounts = View.accounts
    BY <1>6, <1>7
  <2>2. e.kind \in {"refund", "preimage"}
    BY <1>4
  <2>3. UNCHANGED <<objVars, dirties, revVars>>
    BY <1>2
  <2>4. pc = "ready" /\ journal' = Append(journal, e) /\ views' = Append(views, View)
    BY <1>2
  <2>. QED
    BY <2>1, <2>2, <2>3, <2>4, <1>3, <1>4, <1>9, <1>12, OtherStep
<1>14. View' = [View EXCEPT !.preimages = @ \cup {hash}]
  <2>1. PICK p : p = preimages \cup {hash}
    OBVIOUS
  <2>2. View' = [accounts |-> m, refund |-> refund, preimages |-> p]
    BY <1>2, <1>7, <2>1
  <2>3. [View EXCEPT !.preimages = @ \cup {hash}] = [View EXCEPT !.preimages = p]
    BY <1>6, <2>1
  <2>. QED
    BY <1>6, <2>2, <2>3
<1>. QED
  BY <1>2, <1>13, <1>14
-----------------------------------------------------------------------------
\* The fields of the revisions are numbers.
LEMMA RevisionTypes ==
    ASSUME TypeOK
    PROVE  /\ RevTypes
           /\ Len(validRevisions) \in Nat /\ Len(journal) \in Nat
           /\ \A i \in 1..Len(validRevisions) :
                 /\ validRevisions[i] \in [id : Nat, journalIndex : Nat]
                 /\ validRevisions[i].id \in Nat /\ validRevisions[i].journalIndex \in Nat
<1>1. RevTypes /\ journal \in Seq(Entry)
  BY DEF TypeOK, RevTypes
<1>2. validRevisions \in Seq([id : Nat, journalIndex : Nat])
  BY <1>1 DEF RevTypes
<1>3. \A i \in 1..Len(validRevisions) : validRevisions[i] \in [id : Nat, journalIndex : Nat]
  BY <1>2, ElementOfSeq
<1>. QED
  BY <1>1, <1>2, <1>3

\* StateDB.Snapshot pushes the length of the journal.
LEMMA SnapshotStep ==
    ASSUME Inv, Snapshot
    PROVE  Inv' /\ View' = View
<1> DEFINE r == [id |-> nextRevisionId, journalIndex |-> Len(journal)]
           n == Len(validRevisions)
<1>1. /\ TypeOK /\ Revisions /\ RevTypes /\ n \in Nat /\ Len(journal) \in Nat
      /\ nextRevisionId \in Nat
      /\ validRevisions \in Seq([id : Nat, journalIndex : Nat])
      /\ \A i \in 1..n : /\ validRevisions[i].id \in Nat
                         /\ validRevisions[i].journalIndex \in Nat
  BY RevisionTypes DEF Inv, RevTypes
<1>2. /\ pc = "ready" /\ validRevisions' = Append(validRevisions, r)
      /\ nextRevisionId' = nextRevisionId + 1
      /\ UNCHANGED <<objVars, refund, preimages, jrnVars, pc, revertTo, finalised>>
  BY DEF Snapshot
<1>3. UNCHANGED journal
  BY <1>2 DEF jrnVars
<1>4. r \in [id : Nat, journalIndex : Nat] /\ r.id = nextRevisionId /\ r.journalIndex = Len(journal)
  BY <1>1
<1>. HIDE DEF r
<1>5. /\ validRevisions' \in Seq([id : Nat, journalIndex : Nat])
      /\ Len(validRevisions') = n + 1 /\ validRevisions'[n + 1] = r
      /\ \A i \in 1..n : validRevisions'[i] = validRevisions[i]
  BY <1>1, <1>2, <1>4
<1>. HIDE DEF n
<1>6. RevTypes'
  <2>1. revertTo = 0
    BY <1>1, <1>2 DEF Revisions
  <2>. QED
    BY <2>1, <1>1, <1>2, <1>5 DEF RevTypes
<1>7. \A i \in 1..n + 1 : i \in 1..n \/ i = n + 1
  BY <1>1
<1>8. \A i \in 1..n : /\ validRevisions[i].id < nextRevisionId
                      /\ validRevisions[i].journalIndex <= Len(journal)
  BY <1>1, <1>2 DEF Revisions, n
<1>9. Revisions'
  <2>1. ASSUME NEW i \in 1..n + 1, NEW j \in 1..n + 1, i < j
        PROVE  /\ validRevisions'[i].id < validRevisions'[j].id
               /\ validRevisions'[i].journalIndex <= validRevisions'[j].journalIndex
    <3>1. i \in 1..n
      BY <2>1, <1>1
    <3>2. CASE j \in 1..n
      BY <2>1, <3>1, <3>2, <1>1, <1>5 DEF Revisions, n
    <3>3. CASE j = n + 1
      BY <3>1, <3>3, <1>4, <1>5, <1>8
    <3>. QED
      BY <3>2, <3>3, <1>7
  <2>2. ASSUME NEW i \in 1..n + 1
        PROVE  /\ validRevisions'[i].id < nextRevisionId'
               /\ validRevisions'[i].journalIndex <= Len(journal)
    <3>1. CASE i \in 1..n
      BY <3>1, <1>1, <1>2, <1>5, <1>8, SMTT(60)
    <3>2. CASE i = n + 1
      BY <3>2, <1>1, <1>2, <1>4, <1>5
    <3>. QED
      BY <3>1, <3>2, <1>7
  <2>3. pc' = "ready" /\ revertTo' = 0
    BY <1>1, <1>2 DEF Revisions
  <2>. QED
    BY <2>1, <2>2, <2>3, <1>3, <1>5 DEF Revisions
<1>. QED
  BY <1>2, <1>6, <1>9, KeepStep

\* StateDB.RevertToSnapshot has found the revision.
LEMMA RevertStep ==
    ASSUME Inv, NEW id, RevertToSnapshot(id)
    PROVE  Inv' /\ View' = View
<1>1. /\ TypeOK /\ Revisions /\ RevTypes
  BY RevisionTypes DEF Inv
<1>2. /\ pc = "ready" /\ pc' = "reverting" /\ revertTo' \in 1..Len(validRevisions)
      /\ UNCHANGED <<objVars, refund, preimages, jrnVars, validRevisions,
                     nextRevisionId, finalised>>
  BY DEF RevertToSnapshot
<1>3. UNCHANGED journal
  BY <1>2 DEF jrnVars
<1>4. RevTypes'
  <2>1. revertTo' \in 0..Len(validRevisions)
    BY <1>2
  <2>. QED
    BY <2>1, <1>1, <1>2 DEF RevTypes
<1>5. Revisions'
  <2>1. validRevisions[revertTo'].journalIndex <= Len(journal)
    BY <1>1, <1>2 DEF Revisions
  <2>. QED
    BY <2>1, <1>1, <1>2, <1>3 DEF Revisions, Target
<1>. QED
  BY <1>2, <1>4, <1>5, KeepStep

\* The panics leave the state as it is.
LEMMA PanicStep ==
    ASSUME Inv, FinalisePanics \/ \E id \in 0..nextRevisionId : RevertUnknown(id)
    PROVE  Inv' /\ View' = View
<1>1. /\ TypeOK /\ Revisions /\ RevTypes
  BY RevisionTypes DEF Inv
<1>2. /\ pc = "ready" /\ pc' \in {"panicked", "rejected"}
      /\ UNCHANGED <<objVars, refund, preimages, jrnVars, validRevisions,
                     nextRevisionId, revertTo, finalised>>
  BY DEF FinalisePanics, RevertUnknown
<1>3. UNCHANGED journal
  BY <1>2 DEF jrnVars
<1>4. RevTypes' /\ Revisions'
  BY <1>1, <1>2, <1>3 DEF RevTypes, Revisions
<1>. QED
  BY <1>2, <1>4, KeepStep

\* The revision and the later ones are dropped.
LEMMA RevertDoneStep ==
    ASSUME Inv, RevertDone
    PROVE  Inv' /\ View' = View
<1> DEFINE n == Len(validRevisions)
           m == revertTo - 1
<1>1. /\ TypeOK /\ Revisions /\ RevTypes /\ n \in Nat /\ Len(journal) \in Nat
      /\ \A i \in 1..n : /\ validRevisions[i].id \in Nat
                         /\ validRevisions[i].journalIndex \in Nat
                         /\ validRevisions[i] \in [id : Nat, journalIndex : Nat]
  BY RevisionTypes DEF Inv
<1>2. /\ pc = "reverting" /\ Len(journal) = Target
      /\ validRevisions' = SubSeq(validRevisions, 1, m)
      /\ revertTo' = 0 /\ pc' = "ready"
      /\ UNCHANGED <<objVars, refund, preimages, jrnVars, nextRevisionId, finalised>>
  BY DEF RevertDone
<1>3. UNCHANGED journal
  BY <1>2 DEF jrnVars
<1>4. revertTo \in 1..n /\ m \in Nat /\ m < n /\ m < revertTo
  BY <1>1, <1>2 DEF Revisions
<1>5. /\ validRevisions' \in Seq([id : Nat, journalIndex : Nat]) /\ Len(validRevisions') = m
      /\ \A i \in 1..m : validRevisions'[i] = validRevisions[i]
  <2>1. \A i \in 1..m : validRevisions[i] \in [id : Nat, journalIndex : Nat]
    BY <1>1, <1>4
  <2>2. /\ validRevisions' \in Seq([id : Nat, journalIndex : Nat])
        /\ Len(validRevisions') = IF 1 <= m THEN m - 1 + 1 ELSE 0
        /\ \A i \in 1..m - 1 + 1 : validRevisions'[i] = validRevisions[1 + i - 1]
    BY <1>2, <1>4, <2>1, SubSeqProperties
  <2>. HIDE DEF n, m
  <2>3. Len(validRevisions') = m
    BY <1>4, <2>2
  <2>4. \A i \in 1..m : validRevisions'[i] = validRevisions[i]
    BY <1>4, <2>2
  <2>. QED
    BY <2>2, <2>3, <2>4
<1>6. RevTypes'
  BY <1>1, <1>2, <1>5 DEF RevTypes
<1>7. Revisions'
  <2>1. \A i \in 1..m : i \in 1..n /\ i < revertTo
    BY <1>1, <1>4
  <2>2. \A i \in 1..m : validRevisions[i].journalIndex <= Len(journal)
    BY <2>1, <1>1, <1>2, <1>4 DEF Revisions, Target
  <2>3. \A i \in 1..m : validRevisions[i].id < nextRevisionId
    BY <2>1, <1>1 DEF Revisions
  <2>4. \A i, j \in 1..m : i < j =>
           /\ validRevisions[i].id < validRevisions[j].id
           /\ validRevisions[i].journalIndex <= validRevisions[j].journalIndex
    BY <2>1, <1>1 DEF Revisions
  <2>. HIDE DEF n, m
  <2>. QED
    BY <2>2, <2>3, <2>4, <1>2, <1>3, <1>5 DEF Revisions
<1>. QED
  BY <1>2, <1>6, <1>7, KeepStep
-----------------------------------------------------------------------------
\* Dropping the object of an account that the trie does not hold.
LEMMA ViewDrop ==
    ASSUME TypeOK, NEW a \in Addresses, trie[a] = NoObject,
           stateObjects' = [stateObjects EXCEPT ![a] = NoObject],
           UNCHANGED <<trie, refund, preimages>>
    PROVE  View' = PutRead(View, a, NoObject)
<1>1. stateObjects'[a] = NoObject /\ \A b \in Addresses \ {a} : stateObjects'[b] = stateObjects[b]
  BY DEF TypeOK
<1>2. AccountView(getStateObject(a)') = NoObject
  BY <1>1 DEF getStateObject, AccountView
<1>3. \A b \in Addresses \ {a} : getStateObject(b)' = getStateObject(b)
  BY <1>1 DEF getStateObject
<1>4. [b \in Addresses |-> AccountView(getStateObject(b))]'
         = [[b \in Addresses |-> AccountView(getStateObject(b))] EXCEPT ![a] = NoObject]
  <2>1. \A b \in Addresses : AccountView(getStateObject(b))'
           = IF b = a THEN NoObject ELSE AccountView(getStateObject(b))
    BY <1>2, <1>3 DEF AccountView, readState, readPDXState
  <2>. QED
    BY <2>1
<1>5. PICK m : m = [b \in Addresses |-> AccountView(getStateObject(b))]
  OBVIOUS
<1>6. View = [accounts |-> m, refund |-> refund, preimages |-> preimages]
  BY <1>5 DEF View
<1>7. View' = [accounts |-> [m EXCEPT ![a] = NoObject],
               refund |-> refund, preimages |-> preimages]
  BY <1>4, <1>5 DEF View
<1>. QED
  BY <1>6, <1>7 DEF PutRead

\* What can be read when the objects stay what they are.
LEMMA ViewRest ==
    ASSUME UNCHANGED <<trie, stateObjects>>
    PROVE  View' = [accounts |-> View.accounts, refund |-> refund', preimages |-> preimages']
<1>1. PICK m : m = [b \in Addresses |-> AccountView(getStateObject(b))]
  OBVIOUS
<1>2. [b \in Addresses |-> AccountView(getStateObject(b))]' = m
  BY <1>1 DEF AccountView, getStateObject, readState, readPDXState
<1>. QED
  BY <1>1, <1>2 DEF View

\* An entry that is undone takes back what it did.
Undone(e) ==
    /\ View' = UndoView(e, View)
    /\ stateObjects' \in [Addresses -> Object \cup {NoObject}]
    /\ \A a \in Addresses : stateObjects'[a] # NoObject => Cached(stateObjects'[a])
    /\ \A a \in Addresses : \/ stateObjects'[a] = stateObjects[a]
                            \/ stateObjects'[a] = NoObject
                            \/ ~stateObjects'[a].deleted
    /\ \A a \in stateObjectsDirty' : stateObjects'[a] # NoObject
    /\ refund' \in Nat /\ preimages' \subseteq Hashes
    /\ stateObjectsDirty' \subseteq Addresses
    /\ ~UndoPanics(e)

\* ... with an entry that puts an object in the place of another.
LEMMA UndonePut ==
    ASSUME Inv, NEW e \in Entry, e.kind \in AccountKinds, NEW obj \in Object,
           Cached(obj), ~obj.deleted, ~UndoPanics(e),
           stateObjects' = [stateObjects EXCEPT ![e.account] = obj],
           UNCHANGED <<trie, stateObjectsDirty, refund, preimages>>,
           UndoView(e, View) = PutRead(View, e.account, AccountView(obj))
    PROVE  Undone(e)
<1> DEFINE a == e.account
<1>1. TypeOK /\ Objects(trie, stateObjects, dirties, journal) /\ DirtyIsLive
  BY DEF Inv
<1>2. a \in Addresses
  BY EntryTypes
<1>. HIDE DEF a
<1>3. View' = UndoView(e, View)
  <2>1. View' = PutRead(View, a, AccountView(obj))
    BY <1>1, <1>2, ViewPut DEF a
  <2>. QED
    BY <2>1 DEF a
<1>4. stateObjects' \in [Addresses -> Object \cup {NoObject}]
  BY <1>1 DEF TypeOK
<1>5. \A b \in Addresses : stateObjects'[b] = IF b = a THEN obj ELSE stateObjects[b]
  BY <1>1 DEF TypeOK, a
<1>6. obj # NoObject
  BY ReadTypes
<1>7. stateObjectsDirty \subseteq Addresses /\ refund \in Nat /\ preimages \subseteq Hashes
  BY <1>1 DEF TypeOK
<1>8. \A b \in stateObjectsDirty' : stateObjects'[b] # NoObject
  BY <1>1, <1>5, <1>6, <1>7 DEF DirtyIsLive
<1>9. \A b \in Addresses : stateObjects'[b] # NoObject => Cached(stateObjects'[b])
  BY <1>1, <1>5 DEF Objects
<1>. QED
  BY <1>3, <1>4, <1>5, <1>7, <1>8, <1>9 DEF Undone

\* Every kind of entry undoes what it was appended for.
LEMMA RevertedEntry ==
    ASSUME Inv, NEW e \in Entry, revertEntry(e), UNCHANGED trie,
           e.kind = "create" => trie[e.account] = NoObject,
           e.kind = "reset" => Cached(e.prev) /\ ~e.prev.deleted,
           \A a \in Addresses : Of(e, a) => View.accounts[a] # NoObject
    PROVE  Undone(e)
<1> DEFINE a == e.account
<1>1. TypeOK /\ Objects(trie, stateObjects, dirties, journal) /\ DirtyIsLive
  BY DEF Inv
<1>2. /\ stateObjects \in [Addresses -> Object \cup {NoObject}]
      /\ stateObjectsDirty \subseteq Addresses /\ refund \in Nat /\ preimages \subseteq Hashes
  BY <1>1 DEF TypeOK
<1>3. View \in World /\ View.refund = refund /\ View.preimages = preimages
  BY <1>1, ViewTypes
<1>4. CASE e.kind = "create"
  <2>1. /\ stateObjects' = [stateObjects EXCEPT ![a] = NoObject]
        /\ stateObjectsDirty' = stateObjectsDirty \ {a}
        /\ refund' = refund /\ preimages' = preimages
    BY <1>4 DEF revertEntry, FieldKinds
  <2>2. a \in Addresses
    BY <1>4, EntryTypes DEF AccountKinds, DirtyKinds
  <2>. HIDE DEF a
  <2>3. View' = PutRead(View, a, NoObject)
    BY <1>1, <1>4, <2>1, <2>2, ViewDrop DEF a
  <2>4. UndoView(e, View) = PutRead(View, a, NoObject)
    BY <1>4 DEF UndoView, FieldKinds, PutRead, a
  <2>5. \A b \in Addresses : stateObjects'[b] = IF b = a THEN NoObject ELSE stateObjects[b]
    BY <1>2, <2>1
  <2>6. stateObjects' \in [Addresses -> Object \cup {NoObject}]
    BY <1>2, <2>1
  <2>7. ~UndoPanics(e)
    BY <1>4 DEF UndoPanics, FieldKinds
  <2>8. \A b \in stateObjectsDirty' : stateObjects'[b] # NoObject
    BY <1>1, <1>2, <2>1, <2>5 DEF DirtyIsLive
  <2>9. \A b \in Addresses : stateObjects'[b] # NoObject => Cached(stateObjects'[b])
    BY <1>1, <2>5 DEF Objects
  <2>. QED
    BY <1>2, <2>1, <2>3, <2>4, <2>5, <2>6, <2>7, <2>8, <2>9 DEF Undone
<1>5. CASE e.kind = "reset"
  <2>1. /\ stateObjects' = [stateObjects EXCEPT ![a] = e.prev]
        /\ UNCHANGED <<stateObjectsDirty, refund, preimages>>
    BY <1>5 DEF revertEntry, FieldKinds
  <2>2. e.prev \in Object /\ e.kind \in AccountKinds
    BY <1>5, EntryTypes DEF AccountKinds
  <2>3. UndoView(e, View) = PutRead(View, a, AccountView(e.prev))
    BY <1>5 DEF UndoView, FieldKinds, PutRead
  <2>4. ~UndoPanics(e)
    BY <1>5 DEF UndoPanics, FieldKinds
  <2>. QED
    BY <1>5, <2>1, <2>2, <2>3, <2>4, UndonePut
<1>6. CASE e.kind \in FieldKinds
  <2>1. a \in Addresses /\ Of(e, a)
    BY <1>6, EntryTypes DEF AccountKinds, DirtyKinds, Of
  <2>2. View.accounts[a] # NoObject
    BY <2>1
  <2>3. getStateObject(a) # NoObject /\ View.accounts[a] = AccountView(getStateObject(a))
    BY <1>1, <2>1, <2>2, ViewTypes
  <2>4. /\ getStateObject(a) \in Object /\ ~getStateObject(a).deleted
        /\ Cached(getStateObject(a))
    BY <1>1, <2>1, <2>3, GetTypes, GetCached
  <2>5. PICK obj : obj = undo(e, getStateObject(a))
    OBVIOUS
  <2>6. /\ obj \in Object /\ ~obj.deleted /\ Cached(obj)
        /\ AccountView(obj) = UndoRead(e, View.accounts[a])
    BY <1>6, <2>3, <2>4, <2>5, UndoFacts
  <2>7. /\ stateObjects' = [stateObjects EXCEPT ![a] = obj]
        /\ UNCHANGED <<stateObjectsDirty, refund, preimages>>
    BY <1>6, <2>3, <2>5 DEF revertEntry, FieldKinds
  <2>8. UndoView(e, View) = PutRead(View, a, AccountView(obj))
    BY <1>6, <2>6 DEF UndoView, FieldKinds, PutRead
  <2>9. ~UndoPanics(e)
    BY <2>3 DEF UndoPanics
  <2>10. e.kind \in AccountKinds
    BY <2>1 DEF Of
  <2>. QED
    BY <2>6, <2>7, <2>8, <2>9, <2>10, UndonePut
<1>7. CASE e.kind \in {"touch", "refund", "preimage"}
  <2>1. /\ stateObjects' = stateObjects /\ stateObjectsDirty' = stateObjectsDirty
        /\ refund' = IF e.kind = "refund" THEN e.prev ELSE refund
        /\ preimages' = IF e.kind = "preimage" THEN preimages \ {e.hash} ELSE preimages
    BY <1>7 DEF revertEntry, FieldKinds
  <2>2. View' = [accounts |-> View.accounts, refund |-> refund', preimages |-> preimages']
    BY <2>1, ViewRest
  <2>3. View = [accounts |-> View.accounts, refund |-> refund, preimages |-> preimages]
    BY DEF View
  <2>4. View' = UndoView(e, View)
    <3>1. CASE e.kind = "touch"
      <4>1. UndoView(e, View) = View
        BY <3>1 DEF UndoView, FieldKinds
      <4>. QED
        BY <4>1, <3>1, <2>1, <2>2, <2>3
    <3>2. CASE e.kind = "refund"
      <4>1. UndoView(e, View) = [View EXCEPT !.refund = e.prev]
        BY <3>2 DEF UndoView, FieldKinds
      <4>2. PICK m : m = View.accounts
        OBVIOUS
      <4>3. [View EXCEPT !.refund = e.prev]
               = [accounts |-> m, refund |-> e.prev, preimages |-> preimages]
        BY <4>2, <2>3
      <4>. QED
        BY <4>1, <4>2, <4>3, <3>2, <2>1, <2>2
    <3>3. CASE e.kind = "preimage"
      <4>1. UndoView(e, View) = [View EXCEPT !.preimages = @ \ {e.hash}]
        BY <3>3 DEF UndoView, FieldKinds
      <4>2. PICK m : m = View.accounts
        OBVIOUS
      <4>3. PICK p : p = preimages \ {e.hash}
        OBVIOUS
      <4>4. [View EXCEPT !.preimages = @ \ {e.hash}] = [View EXCEPT !.preimages = p]
        BY <4>3, <1>3
      <4>5. [View EXCEPT !.preimages = p]
               = [accounts |-> m, refund |-> refund, preimages |-> p]
        BY <4>2, <2>3
      <4>. QED
        BY <4>1, <4>2, <4>3, <4>4, <4>5, <3>3, <2>1, <2>2
    <3>. QED
      BY <3>1, <3>2, <3>3, <1>7
  <2>5. refund' \in Nat /\ preimages' \subseteq Hashes
    BY <1>2, <1>7, <2>1, EntryTypes
  <2>6. ~UndoPanics(e)
    BY <1>7 DEF UndoPanics, FieldKinds
  <2>. QED
    BY <1>1, <1>2, <2>1, <2>4, <2>5, <2>6 DEF Undone, Objects, DirtyIsLive
<1>8. e.kind \in FieldKinds \cup {"create", "reset", "touch", "refund", "preimage"}
  BY EntryTypes DEF AccountKinds, DirtyKinds
<1>. QED
  BY <1>4, <1>5, <1>6, <1>7, <1>8

\* One pass of the loop of journal.revert: nothing panics, and what could be
\* read before the entry can be read again.
LEMMA RevertEntryStep ==
    ASSUME Inv, RevertEntry
    PROVE  /\ Inv' /\ pc = "reverting"
           /\ UNCHANGED <<trie, revVars>> /\ Target < Len(journal)
           /\ Len(journal') = Len(journal) - 1
           /\ \A i \in 0..Len(journal) - 1 :
                 At(journal', views', View', i) = At(journal, views, View, i)
<1> DEFINE n == Len(journal)
           e == journal[n]
<1>1. /\ TypeOK /\ Log(trie, dirties, journal, views, View) /\ Revisions
      /\ Objects(trie, stateObjects, dirties, journal)
  BY InvLog DEF Inv
<1>2. /\ journal \in Seq(Entry) /\ views \in Seq(World) /\ Len(views) = n /\ n \in Nat
      /\ View \in World /\ dirties \in [Addresses -> Nat] /\ Exact(dirties, journal)
      /\ Resets(journal) /\ History(trie, journal, views, View)
      /\ Touched(journal, views, View) /\ Created(trie, journal)
  BY <1>1 DEF Log, History
<1>3. /\ pc = "reverting" /\ n > Target /\ revertEntry(e)
      /\ dirties' = IF e.kind \in DirtyKinds THEN [dirties EXCEPT ![e.account] = @ - 1]
                    ELSE dirties
      /\ journal' = SubSeq(journal, 1, n - 1) /\ views' = SubSeq(views, 1, n - 1)
      /\ pc' = IF UndoPanics(e) THEN "panicked" ELSE pc
      /\ UNCHANGED <<trie, validRevisions, nextRevisionId, revertTo, finalised>>
  BY DEF RevertEntry, LastEntry
<1>4. Target \in Nat
  <2>1. revertTo \in 1..Len(validRevisions)
    BY <1>1, <1>3 DEF Revisions
  <2>. QED
    BY <2>1, <1>1, RevisionTypes DEF Target
<1>5. n > 0 /\ n \in 1..n /\ n - 1 \in Nat /\ Target <= n - 1 /\ journal # << >>
  BY <1>2, <1>3, <1>4
<1>6. e \in Entry
  BY <1>2, <1>5
<1>7. /\ e.kind = "create" => trie[e.account] = NoObject
      /\ e.kind = "reset" => Cached(e.prev) /\ ~e.prev.deleted
  BY <1>2, <1>5 DEF Created, Resets
<1>8. \A a \in Addresses : Of(e, a) => View.accounts[a] # NoObject
  <2>1. n \in 0..n /\ n <= n /\ At(journal, views, View, n) = View
    BY <1>2 DEF At
  <2>. QED
    BY <2>1, <1>2, <1>5 DEF Touched
<1>9. Undone(e)
  BY <1>3, <1>6, <1>7, <1>8, RevertedEntry
<1>10. /\ History(trie, journal', views', views[n])
       /\ views[n] = UndoView(e, View)
  BY <1>2, <1>3, <1>5, PopHistory
<1>11. View' = views[n]
  BY <1>9, <1>10 DEF Undone
<1>12. /\ Len(journal') = n - 1
       /\ \A i \in 1..n - 1 : journal'[i] = journal[i]
       /\ \A i \in 0..n - 1 : At(journal', views', views[n], i) = At(journal, views, View, i)
  BY <1>2, <1>3, <1>5, AtPop
<1>13. \A a \in Addresses : dirties'[a] = dirties[a] - Mark(e, a)
  BY <1>2, <1>3, <1>6, EntryTypes DEF Mark, Marks, AccountKinds
<1>14. dirties' \in [Addresses -> Nat] /\ Exact(dirties', journal')
  <2>1. DOMAIN dirties' = Addresses /\ dirties' = [x \in DOMAIN dirties' |-> dirties'[x]]
    BY <1>2, <1>3
  <2>2. \A a \in Addresses : dirties'[a] = dirties[a] - Mark(journal[Len(journal)], a)
    BY <1>13
  <2>3. dirties' \in [Addresses -> Nat] /\ Exact(dirties', SubSeq(journal, 1, Len(journal) - 1))
    <3>1. /\ journal \in Seq(Entry) /\ dirties \in [Addresses -> Nat]
          /\ Exact(dirties, journal) /\ journal # << >>
      BY <1>2, <1>5
    <3>. QED
      BY <2>1, <2>2, <3>1, ExactPop
  <2>4. journal' = SubSeq(journal, 1, Len(journal) - 1)
    BY <1>3
  <2>. QED
    BY <2>3, <2>4
<1>15. Resets(journal')
  BY <1>2, <1>12 DEF Resets
<1>16. Log(trie, dirties', journal', views', View')
  BY <1>10, <1>11, <1>14, <1>15 DEF Log
<1>17. UNCHANGED <<trie, revVars>>
  BY <1>3, <1>9 DEF Undone, revVars
<1>. HIDE DEF n, e
<1>18. TypeOK'
  <2>1. journal' \in Seq(Entry) /\ Len(views') = Len(journal')
    BY <1>16 DEF Log, History
  <2>. QED
    BY <2>1, <1>1, <1>9, <1>14, <1>17 DEF TypeOK, Undone, revVars
<1>19. Objects(trie, stateObjects', dirties', journal')
  <2>1. ASSUME NEW a \in Addresses, stateObjects'[a] # NoObject, stateObjects'[a].deleted
        PROVE  trie[a] = NoObject /\ dirties'[a] = 0
    <3>1. stateObjects'[a] = stateObjects[a]
      BY <2>1, <1>9 DEF Undone
    <3>2. trie[a] = NoObject /\ dirties[a] = 0
      BY <2>1, <3>1, <1>1 DEF Objects
    <3>3. dirties'[a] = 0 - Mark(e, a) /\ dirties'[a] \in Nat /\ Mark(e, a) \in {0, 1}
      BY <3>2, <1>13, <1>14 DEF Mark
    <3>. QED
      BY <3>2, <3>3
  <2>. QED
    BY <2>1, <1>9, <1>15 DEF Objects, Undone, Resets
<1>20. DirtyIsLive'
  BY <1>9 DEF DirtyIsLive, Undone
<1>21. Revisions'
  <2>1. UNCHANGED <<validRevisions, nextRevisionId, revertTo, pc>>
    BY <1>17 DEF revVars
  <2>2. Target' = Target
    BY <2>1 DEF Target
  <2>. QED
    BY <2>1, <2>2, <1>1, <1>3, <1>5, <1>12 DEF Revisions
<1>22. Inv'
  <2>1. Log(trie, dirties, journal, views, View)'
    BY <1>16, <1>17
  <2>2. Objects(trie, stateObjects, dirties, journal)'
    BY <1>17, <1>19
  <2>3. (TypeOK => (Inv <=> /\ Log(trie, dirties, journal, views, View)
                            /\ Objects(trie, stateObjects, dirties, journal)
                            /\ DirtyIsLive /\ Revisions))'
    BY InvLog, PTL
  <2>. QED
    BY <2>1, <2>2, <2>3, <1>18, <1>20, <1>21
<1>. QED
  BY <1>3, <1>11, <1>12, <1>17, <1>22 DEF n
-----------------------------------------------------------------------------
\* updateRoot writes what can be read to the storage trie and keeps it.
LEMMA UpdateRootFacts ==
    ASSUME NEW obj \in Object, Cached(obj)
    PROVE  /\ updateRoot(obj) \in Object /\ Cached(updateRoot(obj))
           /\ updateRoot(obj).deleted = obj.deleted
           /\ updateRoot(obj).data \in Account
           /\ AccountView(updateRoot(obj)) = AccountView(obj)
           /\ ~obj.suicided
                => AccountView(newObject(updateRoot(obj).data)) = AccountView(obj)
<1> DEFINE new == updateRoot(obj)
           root == [k \in Keys \cup PdxKeys |->
                       IF k \in PdxKeys /\ obj.pdxDirty[k] # Miss THEN obj.pdxDirty[k]
                       ELSE IF k \in Keys /\ obj.dirty[k] # Miss THEN obj.dirty[k]
                       ELSE obj.data.root[k]]
<1>1. /\ obj.data \in Account
      /\ obj.data.root \in [Keys \cup PdxKeys -> Values]
      /\ obj.dirty \in [Keys -> Values \cup {Miss}]
      /\ obj.pdxDirty \in [PdxKeys -> Values \cup {Miss}]
      /\ obj.cached \in [Keys -> Values \cup {Miss}]
      /\ obj.pdxCached \in [PdxKeys -> Values \cup {Miss}]
  BY DEF Object, Account
<1>2. root \in [Keys \cup PdxKeys -> Values]
  <2>1. ASSUME NEW k \in Keys \cup PdxKeys PROVE root[k] \in Values
    BY <1>1
  <2>. QED
    BY <2>1
<1>3. \A k \in Keys : root[k] = IF obj.dirty[k] # Miss THEN obj.dirty[k] ELSE obj.data.root[k]
  BY KeysAssumption
<1>4. \A k \in PdxKeys : root[k] = IF obj.pdxDirty[k] # Miss THEN obj.pdxDirty[k]
                                   ELSE obj.data.root[k]
  BY KeysAssumption
<1>5. new = [obj EXCEPT !.data.root = root, !.dirty = NoWrites(Keys),
                        !.pdxDirty = NoWrites(PdxKeys)]
  BY DEF updateRoot
<1>. HIDE DEF root, new
<1>6. NoWrites(Keys) \in [Keys -> Values \cup {Miss}] /\ NoWrites(PdxKeys) \in [PdxKeys -> Values \cup {Miss}]
  BY DEF NoWrites
<1>7. PICK data : data = [obj.data EXCEPT !.root = root]
  OBVIOUS
<1>8. /\ data \in Account /\ data.root = root /\ data.nonce = obj.data.nonce
      /\ data.balance = obj.data.balance /\ data.code = obj.data.code
  BY <1>1, <1>2, <1>7 DEF Account
<1>9. new = [obj EXCEPT !.data = data, !.dirty = NoWrites(Keys), !.pdxDirty = NoWrites(PdxKeys)]
  BY <1>5, <1>7
<1>10. /\ new \in Object /\ new.data = data /\ new.deleted = obj.deleted
       /\ new.suicided = obj.suicided
       /\ new.cached = obj.cached /\ new.pdxCached = obj.pdxCached
       /\ new.dirty = NoWrites(Keys) /\ new.pdxDirty = NoWrites(PdxKeys)
  BY <1>6, <1>8, <1>9 DEF Object
<1>11. /\ \A k \in Keys : readState(new, k) = readState(obj, k)
       /\ \A k \in Keys : root[k] = readState(obj, k)
  BY <1>1, <1>3, <1>8, <1>10 DEF readState, Cached
<1>12. /\ \A k \in PdxKeys : readPDXState(new, k) = readPDXState(obj, k)
       /\ \A k \in PdxKeys : root[k] = readPDXState(obj, k)
  BY <1>1, <1>4, <1>8, <1>10 DEF readPDXState, Cached
<1>13. Cached(new)
  BY <1>1, <1>3, <1>4, <1>8, <1>10 DEF Cached, NoWrites
<1>14. AccountView(new) = AccountView(obj)
  <2>1. /\ [k \in Keys |-> readState(new, k)] = [k \in Keys |-> readState(obj, k)]
        /\ [k \in PdxKeys |-> readPDXState(new, k)] = [k \in PdxKeys |-> readPDXState(obj, k)]
    BY <1>11, <1>12
  <2>. QED
    BY <2>1, <1>8, <1>10, ReadRecord
<1>15. ASSUME ~obj.suicided PROVE AccountView(newObject(data)) = AccountView(obj)
  <2>1. newObject(data) \in Object /\ ~newObject(data).suicided /\ newObject(data).data = data
    BY <1>8, NewObjectFacts
  <2>2. obj.suicided = newObject(data).suicided
    <3>1. obj.suicided \in BOOLEAN /\ newObject(data).suicided \in BOOLEAN
      BY <2>1 DEF Object
    <3>. QED
      BY <3>1, <2>1, <1>15
  <2>3. /\ \A k \in Keys : readState(newObject(data), k) = root[k]
        /\ \A k \in PdxKeys : readPDXState(newObject(data), k) = root[k]
    BY <1>8 DEF newObject, NoWrites, readState, readPDXState
  <2>4. /\ [k \in Keys |-> readState(newObject(data), k)] = [k \in Keys |-> readState(obj, k)]
        /\ [k \in PdxKeys |-> readPDXState(newObject(data), k)]
              = [k \in PdxKeys |-> readPDXState(obj, k)]
    BY <2>3, <1>11, <1>12
  <2>. HIDE DEF newObject
  <2>. QED
    BY <2>1, <2>2, <2>4, <1>8, ReadRecord
<1>. QED
  BY <1>8, <1>10, <1>13, <1>14, <1>15 DEF new

\* Finalise leaves an account alone, deletes it or writes it.
Gone(deleteEmptyObjects) ==
    {a \in DirtyAddrs : IsGone(finalObject(a), deleteEmptyObjects)}

Kept(deleteEmptyObjects) == DirtyAddrs \ Gone(deleteEmptyObjects)

\* The passes of the loop of Finalise.
LEMMA FinalObjects ==
    ASSUME Inv, NEW deleteEmptyObjects \in BOOLEAN, Finalise(deleteEmptyObjects),
           NEW a \in Addresses
    PROVE  /\ a \notin DirtyAddrs => /\ stateObjects'[a] = stateObjects[a]
                                     /\ trie'[a] = trie[a]
           /\ a \in DirtyAddrs =>
                 /\ getStateObject(a) \in Object /\ ~getStateObject(a).deleted
                 /\ Cached(getStateObject(a))
                 /\ finalObject(a) = getStateObject(a)
           /\ a \in Gone(deleteEmptyObjects) =>
                 /\ stateObjects'[a] = [getStateObject(a) EXCEPT !.deleted = TRUE]
                 /\ trie'[a] = NoObject
                 /\ IsGone(getStateObject(a), deleteEmptyObjects)
           /\ a \in Kept(deleteEmptyObjects) =>
                 /\ stateObjects'[a] = updateRoot(getStateObject(a))
                 /\ trie'[a] = updateRoot(getStateObject(a)).data
                 /\ ~IsGone(getStateObject(a), deleteEmptyObjects)
<1>1. TypeOK /\ Objects(trie, stateObjects, dirties, journal)
  BY DEF Inv
<1>2. /\ \A b \in DirtyAddrs : finalObject(b) # NoObject
      /\ stateObjects' = [b \in Addresses |->
            IF b \notin DirtyAddrs THEN stateObjects[b]
            ELSE IF IsGone(finalObject(b), deleteEmptyObjects)
            THEN [finalObject(b) EXCEPT !.deleted = TRUE]
            ELSE updateRoot(finalObject(b))]
      /\ trie' = [b \in Addresses |->
            IF b \notin DirtyAddrs THEN trie[b]
            ELSE IF IsGone(finalObject(b), deleteEmptyObjects) THEN NoObject
            ELSE updateRoot(finalObject(b)).data]
  BY DEF Finalise
<1>3. ASSUME a \in DirtyAddrs
      PROVE  /\ getStateObject(a) \in Object /\ ~getStateObject(a).deleted
             /\ Cached(getStateObject(a))
             /\ finalObject(a) = getStateObject(a)
  <2>1. stateObjects[a] # NoObject => ~stateObjects[a].deleted
    <3>1. dirties[a] \in Nat /\ dirties[a] > 0
      BY <1>1, <1>3 DEF DirtyAddrs, TypeOK
    <3>. QED
      BY <3>1, <1>1 DEF Objects
  <2>2. finalObject(a) = getStateObject(a)
    BY <2>1 DEF finalObject, getStateObject
  <2>3. getStateObject(a) # NoObject
    BY <2>2, <1>2, <1>3
  <2>. QED
    BY <2>2, <2>3, <1>1, GetTypes, GetCached
<1>. QED
  BY <1>2, <1>3 DEF Gone, Kept

\* What can be read of an account after Finalise.
LEMMA FinalReads ==
    ASSUME Inv, NEW deleteEmptyObjects \in BOOLEAN, Finalise(deleteEmptyObjects),
           NEW a \in Addresses
    PROVE  /\ stateObjects'[a] \in Object \cup {NoObject}
           /\ trie'[a] \in Account \cup {NoObject}
           /\ stateObjects'[a] # NoObject => Cached(stateObjects'[a])
           /\ stateObjects'[a] # NoObject /\ stateObjects'[a].deleted => trie'[a] = NoObject
           /\ a \in DirtyAddrs => stateObjects'[a] # NoObject
           /\ a \notin DirtyAddrs => /\ stateObjects'[a] = stateObjects[a]
                                     /\ trie'[a] = trie[a]
           /\ AccountView(getStateObject(a)') =
                 IF a \in Gone(deleteEmptyObjects) THEN NoObject ELSE View.accounts[a]
           /\ a \in DirtyAddrs =>
                 AccountView(getStateObject(a)') =
                    AccountView(IF trie'[a] = NoObject THEN NoObject ELSE newObject(trie'[a]))
<1> DEFINE obj == getStateObject(a)
<1>1. /\ TypeOK /\ Objects(trie, stateObjects, dirties, journal)
      /\ stateObjects[a] \in Object \cup {NoObject} /\ trie[a] \in Account \cup {NoObject}
  BY DEF Inv, TypeOK
<1>2. View.accounts[a] = AccountView(obj)
  BY <1>1, ViewTypes
<1>3. CASE a \notin DirtyAddrs
  <2>1. stateObjects'[a] = stateObjects[a] /\ trie'[a] = trie[a]
    BY <1>3, FinalObjects
  <2>2. getStateObject(a)' = getStateObject(a)
    BY <2>1 DEF getStateObject
  <2>3. a \notin Gone(deleteEmptyObjects)
    BY <1>3 DEF Gone
  <2>. QED
    BY <1>1, <1>2, <1>3, <2>1, <2>2, <2>3 DEF Objects
<1>4. CASE a \in Gone(deleteEmptyObjects)
  <2>1. a \in DirtyAddrs
    BY <1>4 DEF Gone
  <2>2. /\ stateObjects'[a] = [obj EXCEPT !.deleted = TRUE] /\ trie'[a] = NoObject
        /\ obj \in Object /\ Cached(obj)
    BY <1>4, <2>1, FinalObjects
  <2>. HIDE DEF obj
  <2>3. stateObjects'[a] \in Object /\ stateObjects'[a].deleted /\ Cached(stateObjects'[a])
    BY <2>2, ZenonT(90) DEF Object, Cached
  <2>4. stateObjects'[a] # NoObject
    BY <2>3, ReadTypes
  <2>5. getStateObject(a)' = NoObject
    BY <2>3, <2>4 DEF getStateObject
  <2>. QED
    BY <1>4, <2>1, <2>2, <2>3, <2>4, <2>5 DEF AccountView
<1>5. CASE a \in Kept(deleteEmptyObjects)
  <2>1. a \in DirtyAddrs /\ a \notin Gone(deleteEmptyObjects)
    BY <1>5 DEF Kept
  <2>2. /\ stateObjects'[a] = updateRoot(obj) /\ trie'[a] = updateRoot(obj).data
        /\ ~IsGone(obj, deleteEmptyObjects)
        /\ obj \in Object /\ Cached(obj) /\ ~obj.deleted
    BY <1>5, <2>1, FinalObjects
  <2>3. ~obj.suicided
    BY <2>2 DEF IsGone
  <2>. HIDE DEF obj
  <2>4. /\ stateObjects'[a] \in Object /\ Cached(stateObjects'[a]) /\ ~stateObjects'[a].deleted
        /\ trie'[a] \in Account
        /\ AccountView(stateObjects'[a]) = AccountView(obj)
        /\ AccountView(newObject(trie'[a])) = AccountView(obj)
    BY <2>2, <2>3, UpdateRootFacts
  <2>5. stateObjects'[a] # NoObject /\ trie'[a] # NoObject
    BY <2>4, ReadTypes, NoObjectAssumption
  <2>6. getStateObject(a)' = stateObjects'[a]
    BY <2>4, <2>5 DEF getStateObject
  <2>. QED
    BY <1>2, <2>1, <2>4, <2>5, <2>6
<1>. QED
  BY <1>3, <1>4, <1>5 DEF Kept

\* Finalise deletes accounts, keeps the others as they read, and starts a new
\* journal.
LEMMA FinaliseStep ==
    ASSUME Inv, NEW deleteEmptyObjects \in BOOLEAN, Finalise(deleteEmptyObjects)
    PROVE  /\ Inv'
           /\ View' = [accounts |-> [a \in Addresses |->
                          IF a \in Gone(deleteEmptyObjects) THEN NoObject
                          ELSE View.accounts[a]],
                       refund |-> 0, preimages |-> View.preimages]
           /\ \A a \in Addresses :
                 /\ View.accounts[a] # NoObject /\ View.accounts[a].suicided
                      => a \in Gone(deleteEmptyObjects)
                 /\ a \in Gone(deleteEmptyObjects) =>
                       /\ View.accounts[a] # NoObject
                       /\ \/ View.accounts[a].suicided
                          \/ /\ View.accounts[a].nonce = 0
                             /\ View.accounts[a].balance = 0
                             /\ View.accounts[a].code = EmptyCode
<1> DEFINE gone == Gone(deleteEmptyObjects)
<1>1. /\ TypeOK /\ Log(trie, dirties, journal, views, View)
      /\ Objects(trie, stateObjects, dirties, journal) /\ DirtyIsLive /\ Revisions
  BY InvLog DEF Inv
<1>2. /\ journal \in Seq(Entry) /\ Len(journal) \in Nat
      /\ View \in World /\ dirties \in [Addresses -> Nat] /\ Exact(dirties, journal)
      /\ Resets(journal) /\ Killed(journal, views, View)
      /\ NoReset => Untouched(trie, journal, views, View)
  BY <1>1 DEF Log, History
<1>3. /\ pc = "ready"
      /\ stateObjectsDirty' = stateObjectsDirty \cup DirtyAddrs
      /\ journal' = << >> /\ dirties' = [a \in Addresses |-> 0] /\ views' = << >>
      /\ validRevisions' = << >> /\ refund' = 0 /\ finalised' = finalised + 1
      /\ UNCHANGED <<preimages, nextRevisionId, pc, revertTo>>
      /\ stateObjects' = [a \in Addresses |-> stateObjects'[a]]
      /\ trie' = [a \in Addresses |-> trie'[a]]
  BY DEF Finalise
<1>4. View' = [accounts |-> [a \in Addresses |->
                  IF a \in gone THEN NoObject ELSE View.accounts[a]],
               refund |-> 0, preimages |-> preimages]
  <2>1. \A a \in Addresses : AccountView(getStateObject(a))' =
           IF a \in gone THEN NoObject ELSE View.accounts[a]
    <3>1. \A a \in Addresses : AccountView(getStateObject(a))' = AccountView(getStateObject(a)')
      BY DEF AccountView, readState, readPDXState
    <3>. QED
      BY <3>1, FinalReads
  <2>2. [a \in Addresses |-> AccountView(getStateObject(a))]'
           = [a \in Addresses |-> IF a \in gone THEN NoObject ELSE View.accounts[a]]
    BY <2>1
  <2>. QED
    BY <2>2, <1>3 DEF View
<1>. HIDE DEF gone
<1>5. At(journal, views, View, Len(journal)) = View /\ Len(journal) \in 0..Len(journal)
  BY <1>2 DEF At
<1>6. ASSUME NEW a \in Addresses, View.accounts[a] # NoObject, View.accounts[a].suicided
      PROVE  a \in gone
  <2>1. PICK k \in 1..Len(journal) : Marks(journal[k], a)
    BY <1>2, <1>5, <1>6 DEF Killed
  <2>2. a \in DirtyAddrs
    BY <2>1, <1>2, MarkedDirty DEF DirtyAddrs
  <2>3. getStateObject(a) \in Object /\ finalObject(a) = getStateObject(a)
    BY <2>2, FinalObjects
  <2>4. View.accounts[a].suicided = getStateObject(a).suicided
    BY <2>3, <1>1, ViewTypes, ReadRecord
  <2>. QED
    BY <2>2, <2>3, <2>4, <1>6 DEF gone, Gone, IsGone
<1>7. ASSUME NEW a \in Addresses, a \in gone
      PROVE  /\ View.accounts[a] # NoObject
             /\ \/ View.accounts[a].suicided
                \/ /\ View.accounts[a].nonce = 0
                   /\ View.accounts[a].balance = 0
                   /\ View.accounts[a].code = EmptyCode
  <2>1. a \in DirtyAddrs
    BY <1>7 DEF gone, Gone
  <2>2. getStateObject(a) \in Object /\ IsGone(getStateObject(a), deleteEmptyObjects)
    BY <2>1, <1>7, FinalObjects DEF gone
  <2>3. View.accounts[a] = AccountView(getStateObject(a))
    BY <1>1, ViewTypes
  <2>4. /\ View.accounts[a] # NoObject
        /\ View.accounts[a].suicided = getStateObject(a).suicided
        /\ View.accounts[a].nonce = getStateObject(a).data.nonce
        /\ View.accounts[a].balance = getStateObject(a).data.balance
        /\ View.accounts[a].code = getStateObject(a).data.code
    BY <2>2, <2>3, ReadTypes, ReadRecord
  <2>. QED
    BY <2>2, <2>4 DEF IsGone, empty
<1>8. View' \in World
  <2>1. 0 \in Nat /\ preimages \subseteq Hashes
    BY <1>1 DEF TypeOK
  <2>2. View.accounts \in [Addresses -> ReadAccount \cup {NoObject}]
    BY <1>2 DEF World
  <2>3. [a \in Addresses |-> IF a \in gone THEN NoObject ELSE View.accounts[a]]
           \in [Addresses -> ReadAccount \cup {NoObject}]
    BY <2>2
  <2>. QED
    BY <2>1, <2>3, <1>4 DEF World
<1>9. \A a \in Addresses : View'.accounts[a] = IF a \in gone THEN NoObject ELSE View.accounts[a]
  BY <1>4
<1>10. /\ journal' \in Seq(Entry) /\ views' \in Seq(World) /\ Len(journal') = 0 /\ Len(views') = 0
       /\ \A i \in 0..0 : i = 0
       /\ At(journal', views', View', 0) = View'
  BY <1>3 DEF At
<1>11. ASSUME NoReset PROVE Untouched(trie', journal', views', View')
  <2>1. ASSUME NEW a \in Addresses
        PROVE  View'.accounts[a] =
                  AccountView(IF trie'[a] = NoObject THEN NoObject ELSE newObject(trie'[a]))
    <3>1. CASE a \in DirtyAddrs
      BY <3>1, <1>9, FinalReads DEF gone
    <3>2. CASE a \notin DirtyAddrs
      <4>1. \A k \in 1..Len(journal) : ~Marks(journal[k], a)
        <5>1. ASSUME NEW k \in 1..Len(journal), Marks(journal[k], a) PROVE FALSE
          <6>1. dirties[a] > 0
            BY <5>1, <1>2, MarkedDirty
          <6>. QED
            BY <6>1, <3>2 DEF DirtyAddrs
        <5>. QED
          BY <5>1
      <4>2. \A k \in 1..Len(journal) : ~Of(journal[k], a)
        BY <4>1, <1>2, <1>11 DEF Of, Marks, AccountKinds, Resets, NoReset
      <4>3. View.accounts[a] =
               AccountView(IF trie[a] = NoObject THEN NoObject ELSE newObject(trie[a]))
        BY <4>2, <1>2, <1>5, <1>11 DEF Untouched
      <4>4. trie'[a] = trie[a] /\ a \notin gone
        BY <3>2, FinalReads DEF gone, Gone
      <4>. QED
        BY <4>3, <4>4, <1>9
    <3>. QED
      BY <3>1, <3>2
  <2>. QED
    BY <2>1, <1>10 DEF Untouched
<1>12. History(trie', journal', views', View')
  <2>1. Chain(journal', views', View') /\ Created(trie', journal')
    BY <1>10 DEF Chain, Created
  <2>2. Touched(journal', views', View')
    BY <1>10 DEF Touched
  <2>3. Killed(journal', views', View')
    BY <1>6, <1>9, <1>10 DEF Killed
  <2>. QED
    BY <2>1, <2>2, <2>3, <1>8, <1>10, <1>11 DEF History
<1>13. dirties' \in [Addresses -> Nat] /\ Exact(dirties', journal')
  <2>1. \A a \in Addresses : Entries(journal', a) = {}
    BY <1>10 DEF Entries
  <2>2. Cardinality({}) = 0
    BY FS_EmptySet
  <2>3. dirties' \in [Addresses -> Nat] /\ \A a \in Addresses : dirties'[a] = 0
    BY <1>3
  <2>4. \A a \in Addresses : Cardinality(Entries(journal', a)) = 0
    BY <2>1, <2>2
  <2>. QED
    BY <2>3, <2>4 DEF Exact
<1>14. Log(trie', dirties', journal', views', View')
  BY <1>10, <1>12, <1>13 DEF Log, Resets
<1>15. TypeOK'
  <2>1. stateObjects' \in [Addresses -> Object \cup {NoObject}]
    BY <1>3, FinalReads
  <2>2. trie' \in [Addresses -> Account \cup {NoObject}]
    BY <1>3, FinalReads
  <2>3. stateObjectsDirty' \subseteq Addresses
    BY <1>1, <1>3 DEF TypeOK, DirtyAddrs
  <2>4. /\ validRevisions' \in Seq([id : Nat, journalIndex : Nat]) /\ Len(validRevisions') = 0
        /\ revertTo' = 0 /\ finalised' \in Nat
    BY <1>1, <1>3 DEF TypeOK, Revisions
  <2>. QED
    BY <2>1, <2>2, <2>3, <2>4, <1>1, <1>3, <1>10, <1>13 DEF TypeOK
<1>16. Objects(trie', stateObjects', dirties', journal')
  <2>1. ASSUME NEW a \in Addresses, stateObjects'[a] # NoObject
        PROVE  /\ Cached(stateObjects'[a])
               /\ stateObjects'[a].deleted => trie'[a] = NoObject /\ dirties'[a] = 0
    BY <2>1, <1>3, FinalReads
  <2>. QED
    BY <2>1, <1>10 DEF Objects
<1>17. DirtyIsLive'
  <2>1. ASSUME NEW a \in stateObjectsDirty' PROVE stateObjects'[a] # NoObject
    <3>1. a \in Addresses /\ a \in stateObjectsDirty \cup DirtyAddrs
      BY <1>3, <1>15 DEF TypeOK
    <3>2. CASE a \in DirtyAddrs
      BY <3>1, <3>2, FinalReads
    <3>3. CASE a \notin DirtyAddrs
      BY <3>1, <3>3, <1>1, FinalReads DEF DirtyIsLive
    <3>. QED
      BY <3>2, <3>3
  <2>. QED
    BY <2>1 DEF DirtyIsLive
<1>18. Revisions'
  <2>1. Len(validRevisions') = 0 /\ pc' = "ready" /\ revertTo' = 0
    BY <1>1, <1>3 DEF Revisions
  <2>. QED
    BY <2>1 DEF Revisions
<1>19. Inv'
  <2>1. Log(trie, dirties, journal, views, View)'
    BY <1>14
  <2>2. Objects(trie, stateObjects, dirties, journal)'
    BY <1>16
  <2>3. (TypeOK => (Inv <=> /\ Log(trie, dirties, journal, views, View)
                            /\ Objects(trie, stateObjects, dirties, journal)
                            /\ DirtyIsLive /\ Revisions))'
    BY InvLog, PTL
  <2>. QED
    BY <2>1, <2>2, <2>3, <1>15, <1>17, <1>18
<1>20. preimages = View.preimages
  BY DEF View
<1>. QED
  BY <1>4, <1>6, <1>7, <1>19, <1>20 DEF gone
-----------------------------------------------------------------------------
\* A StateDB that was just opened.
LEMMA InitInv == Init => Inv
<1> SUFFICES ASSUME Init PROVE Inv
  OBVIOUS
<1>1. TypeOK
  <2>1. trie \in [Addresses -> Account \cup {NoObject}]
    BY StoredAssumption DEF Init
  <2>2. /\ << >> \in Seq(Entry) /\ << >> \in Seq([id : Nat, journalIndex : Nat])
        /\ Len(<< >>) = 0 /\ 0 \in 0..0
    OBVIOUS
  <2>. QED
    BY <2>1, <2>2 DEF Init, TypeOK
<1>2. /\ journal = << >> /\ views = << >> /\ Len(journal) = 0 /\ Len(views) = 0
      /\ View \in World /\ At(journal, views, View, 0) = View /\ \A i \in 0..0 : i = 0
  BY <1>1, ViewTypes DEF Init, At
<1>3. \A a \in Addresses :
         View.accounts[a] = AccountView(IF trie[a] = NoObject THEN NoObject ELSE newObject(trie[a]))
  <2>1. \A a \in Addresses :
           getStateObject(a) = IF trie[a] = NoObject THEN NoObject ELSE newObject(trie[a])
    BY DEF Init, getStateObject
  <2>. QED
    BY <2>1, <1>1, ViewTypes
<1>4. \A a \in Addresses : View.accounts[a] # NoObject => ~View.accounts[a].suicided
  <2>1. ASSUME NEW a \in Addresses, View.accounts[a] # NoObject
        PROVE  ~View.accounts[a].suicided
    <3>1. trie[a] \in Account
      BY <2>1, <1>1, <1>3 DEF TypeOK, AccountView
    <3>2. trie[a] # NoObject /\ View.accounts[a] = AccountView(newObject(trie[a]))
      BY <3>1, <1>3, NoObjectAssumption
    <3>. QED
      BY <3>1, <3>2, NewObjectFacts, ReadRecord
  <2>. QED
    BY <2>1
<1>5. History(trie, journal, views, View)
  <2>1. journal \in Seq(Entry) /\ views \in Seq(World)
    BY <1>2
  <2>2. Chain(journal, views, View) /\ Touched(journal, views, View) /\ Created(trie, journal)
    BY <1>2 DEF Chain, Touched, Created
  <2>3. Killed(journal, views, View)
    BY <1>2, <1>4 DEF Killed
  <2>4. Untouched(trie, journal, views, View)
    BY <1>2, <1>3 DEF Untouched
  <2>. QED
    BY <2>1, <2>2, <2>3, <2>4, <1>2 DEF History
<1>6. Objects(trie, stateObjects, dirties, journal)
  BY <1>2 DEF Init, Objects
<1>7. DirtiesExact
  <2>1. \A a \in Addresses : Entries(journal, a) = {}
    BY <1>2 DEF Entries
  <2>2. Cardinality({}) = 0
    BY FS_EmptySet
  <2>3. \A a \in Addresses : dirties[a] = 0 /\ Cardinality(Entries(journal, a)) = 0
    BY <2>1, <2>2 DEF Init
  <2>. QED
    BY <2>3, ExactDirties DEF Exact
<1>8. DirtyIsLive /\ Revisions
  BY DEF Init, DirtyIsLive, Revisions
<1>. QED
  BY <1>1, <1>5, <1>6, <1>7, <1>8 DEF Inv

\* The setters: one account is written.
Writes(a) ==
    \/ \E n \in Nonces : Wrote(a, [Base(a) EXCEPT !.nonce = n])
    \/ \E b \in Balances : Wrote(a, [Base(a) EXCEPT !.balance = b])
    \/ \E c \in Codes : Wrote(a, [Base(a) EXCEPT !.code = c])
    \/ \E k \in Keys, v \in Values : Wrote(a, [Base(a) EXCEPT !.storage[k] = v])
    \/ \E k \in PdxKeys, v \in Values : Wrote(a, [Base(a) EXCEPT !.pdx[k] = v])

\* createObject: an account that did not exist is new, one that did keeps its
\* balance only.
Creates(a) ==
    \/ IsNew(a) /\ Wrote(a, Base(a))
    \/ /\ ~IsNew(a)
       /\ Wrote(a, AccountView(newObject([NewAccount EXCEPT !.balance = Base(a).balance])))

Kills(a) == ~IsNew(a) /\ Wrote(a, [Base(a) EXCEPT !.suicided = TRUE, !.balance = 0])

Reads == View' = View /\ Keeps /\ UNCHANGED revVars

\* What a call on an account does to the invariant and to what can be read.
LEMMA AccessStep ==
    ASSUME Inv, NEW a \in Addresses, Access(a)
    PROVE  Inv' /\ (Reads \/ Writes(a) \/ Creates(a) \/ Kills(a))
<1>1. ASSUME Read(a) \/ \E k \in Keys : GetState(a, k)
      PROVE  Inv' /\ Reads
  <2>1. Inv' /\ View' = View
    BY <1>1, ReadStep, GetStateStep
  <2>2. UNCHANGED <<jrnVars, revVars>>
    BY <1>1 DEF Read, GetState
  <2>. QED
    BY <2>1, <2>2 DEF Reads, Keeps, Extends, jrnVars
<1>2. ASSUME NEW b \in Balances, SetBalance(a, b) \/ AddBalance(a, b) \/ SubBalance(a, b)
      PROVE  Inv' /\ Writes(a)
  BY <1>2, SetBalanceStep, AddBalanceStep, SubBalanceStep DEF Writes
<1>3. ASSUME NEW n \in Nonces, SetNonce(a, n) PROVE Inv' /\ Writes(a)
  BY <1>3, SetNonceStep DEF Writes
<1>4. ASSUME NEW c \in Codes, SetCode(a, c) PROVE Inv' /\ Writes(a)
  BY <1>4, SetCodeStep DEF Writes
<1>5. ASSUME NEW k \in Keys, NEW v \in Values, SetState(a, k, v) PROVE Inv' /\ Writes(a)
  BY <1>5, SetStateStep DEF Writes
<1>6. ASSUME NEW k \in PdxKeys, NEW v \in Values, SetPDXState(a, k, v) PROVE Inv' /\ Writes(a)
  BY <1>6, SetPDXStateStep DEF Writes
<1>7. ASSUME CreateAccount(a) PROVE Inv' /\ Creates(a)
  BY <1>7, CreateNewStep, CreateOverStep DEF Creates, CreateAccount
<1>8. ASSUME Suicide(a) PROVE Inv' /\ Kills(a)
  BY <1>8, SuicideStep DEF Kills
<1>. QED
  BY <1>1, <1>2, <1>3, <1>4, <1>5, <1>6, <1>7, <1>8 DEF Access

\* Every step keeps the invariant.
LEMMA NextInv == Inv /\ [Next]_vars => Inv'
<1> SUFFICES ASSUME Inv, [Next]_vars PROVE Inv'
  OBVIOUS
<1>1. ASSUME NEW a \in Addresses, Access(a) PROVE Inv'
  BY <1>1, AccessStep
<1>2. CASE AddRefund(1)
  BY <1>2, AddRefundStep
<1>3. ASSUME NEW h \in Hashes, AddPreimage(h) PROVE Inv'
  BY <1>3, AddPreimageStep
<1>4. CASE Snapshot
  BY <1>4, SnapshotStep
<1>5. ASSUME NEW id \in 0..nextRevisionId, RevertToSnapshot(id) PROVE Inv'
  BY <1>5, RevertStep
<1>6. CASE RevertEntry
  BY <1>6, RevertEntryStep
<1>7. CASE RevertDone
  BY <1>7, RevertDoneStep
<1>8. ASSUME NEW d \in BOOLEAN, Finalise(d) PROVE Inv'
  BY <1>8, FinaliseStep
<1>9. CASE FinalisePanics \/ \E id \in 0..nextRevisionId : RevertUnknown(id)
  BY <1>9, PanicStep
<1>10. CASE Stopped \/ UNCHANGED vars
  BY <1>10, StutterStep DEF Stopped
<1>. QED
  BY <1>1, <1>2, <1>3, <1>4, <1>5, <1>6, <1>7, <1>8, <1>9, <1>10 DEF Next

\* The invariant holds in every state of every run.
THEOREM Invariance == Spec => []Inv
BY InitInv, NextInv, PTL DEF Spec

-----------------------------------------------------------------------------
\* Without the precompile that is marked explicitly nothing dereferences nil:
\* no revert, no Finalise and no Copy (statedb.go:513, :562, journal.go:67).
THEOREM SoundUnlessRipemd ==
    ASSUME NoRipemd
    PROVE  Spec => []Sound
<1>1. Init => NeverPanics
  BY DEF Init, NeverPanics
<1>2. Inv /\ NeverPanics /\ [Next]_vars => NeverPanics'
  <2> SUFFICES ASSUME Inv, NeverPanics, [Next]_vars PROVE NeverPanics'
    OBVIOUS
  <2>1. CASE RevertEntry
    BY <2>1, RevertEntryStep DEF NeverPanics, revVars
  <2>2. ASSUME FinalisePanics PROVE FALSE
    <3>1. PICK a \in DirtyAddrs : finalObject(a) = NoObject
      BY <2>2 DEF FinalisePanics
    <3>2. a \in Addresses /\ dirties[a] > 0 /\ a # Ripemd
      BY <3>1, NoRipemd DEF DirtyAddrs, NoRipemd
    <3>3. /\ TypeOK /\ Exact(dirties, journal) /\ dirties \in [Addresses -> Nat]
          /\ Touched(journal, views, View)
      BY ExactDirties DEF Inv, TypeOK, History
    <3>4. PICK k \in 1..Len(journal) : Marks(journal[k], a)
      BY <3>2, <3>3, DirtyMarked
    <3>5. Len(journal) \in 0..Len(journal) /\ At(journal, views, View, Len(journal)) = View
      BY <3>3 DEF TypeOK, At
    <3>6. Of(journal[k], a) /\ k <= Len(journal)
      BY <3>4, <3>5 DEF Marks, Of, AccountKinds
    <3>7. View.accounts[a] # NoObject
      BY <3>2, <3>3, <3>5, <3>6 DEF Touched
    <3>8. getStateObject(a) # NoObject
      BY <3>2, <3>3, <3>7, ViewTypes
    <3>. QED
      BY <3>1, <3>8, <3>2 DEF finalObject, getStateObject
  <2>3. CASE Next /\ ~RevertEntry /\ ~FinalisePanics
    <3>1. ASSUME NEW a \in Addresses, Access(a) PROVE pc' = pc
      BY <3>1 DEF Access, Read, GetState, SetBalance, AddBalance, SubBalance, SetNonce,
                  SetCode, SetState, SetPDXState, CreateAccount, CreateNew, CreateOver,
                  Suicide, Set, revVars
    <3>. QED
      BY <2>3, <3>1 DEF Next, NeverPanics, AddRefund, AddPreimage, Snapshot, RevertToSnapshot,
                        RevertUnknown, RevertDone, Finalise, Stopped, vars, revVars
  <2>. QED
    BY <2>1, <2>2, <2>3 DEF NeverPanics, vars, revVars
<1>3. Inv /\ NeverPanics => Sound
  BY DEF Inv, Sound
<1>. QED
  BY <1>1, <1>2, <1>3, InitInv, NextInv, PTL DEF Spec

\* Without resets of existing accounts, dirties says exactly which accounts
\* Finalise has to write (journal.go:58-83, statedb.go:454).
THEOREM MarksAreExact ==
    ASSUME NoReset
    PROVE  Spec => []MarksExact
<1>1. Inv => MarksExact
  <2> SUFFICES ASSUME Inv, NEW a \in Addresses,
                      AccountView(getStateObject(a)) # TrieView(a)
               PROVE  dirties[a] > 0
    BY DEF MarksExact, ChangedIsDirty, Inv
  <2>1. /\ TypeOK /\ Exact(dirties, journal) /\ dirties \in [Addresses -> Nat]
        /\ journal \in Seq(Entry) /\ Untouched(trie, journal, views, View)
        /\ Objects(trie, stateObjects, dirties, journal)
    BY ExactDirties, NoReset DEF Inv, TypeOK, History
  <2>2. Len(journal) \in 0..Len(journal) /\ At(journal, views, View, Len(journal)) = View
    BY <2>1 DEF At
  <2>3. View.accounts[a] # AccountView(IF trie[a] = NoObject THEN NoObject
                                       ELSE newObject(trie[a]))
    BY <2>1, ViewTypes DEF TrieView
  <2>4. PICK k \in 1..Len(journal) : Of(journal[k], a)
    BY <2>1, <2>2, <2>3 DEF Untouched
  <2>5. Marks(journal[k], a)
    BY <2>1, <2>4, NoReset DEF Of, Marks, AccountKinds, Objects, NoReset
  <2>. QED
    BY <2>1, <2>5, MarkedDirty
<1>. QED
  BY <1>1, Invariance, PTL

-----------------------------------------------------------------------------
(***************************************************************************)
(* StateDB implements WorldState: what the refinement maps the state to.   *)
(***************************************************************************)
AbsWorld == IF pc = "reverting" THEN ViewAt(Target) ELSE View

AbsCount == IF pc = "reverting" THEN revertTo - 1 ELSE Len(validRevisions)

AbsSnapshot(i) == [id |-> validRevisions[i].id,
                   world |-> ViewAt(validRevisions[i].journalIndex)]

AbsSnapshots == [i \in 1..AbsCount |-> AbsSnapshot(i)]

\* The parts of the state that the two depend on.
LEMMA AbsFacts ==
    ASSUME Inv
    PROVE  /\ AbsCount \in Nat /\ AbsCount <= Len(validRevisions)
           /\ Len(journal) \in Nat
           /\ ViewAt(Len(journal)) = View
           /\ \A i \in 1..AbsCount :
                 /\ i \in 1..Len(validRevisions)
                 /\ validRevisions[i].journalIndex \in 0..Len(journal)
                 /\ pc = "reverting" => validRevisions[i].journalIndex <= Target
           /\ pc = "reverting" => Target \in 0..Len(journal)
           /\ View \in World
<1>1. /\ TypeOK /\ Revisions /\ Len(validRevisions) \in Nat /\ Len(journal) \in Nat
      /\ \A i \in 1..Len(validRevisions) : validRevisions[i].journalIndex \in Nat
      /\ View \in World
  BY RevisionTypes, ViewTypes DEF Inv
<1>2. ViewAt(Len(journal)) = View
  BY <1>1 DEF ViewAt
<1>3. CASE pc # "reverting"
  <2>1. AbsCount = Len(validRevisions)
    BY <1>3 DEF AbsCount
  <2>2. \A i \in 1..Len(validRevisions) : validRevisions[i].journalIndex <= Len(journal)
    BY <1>1, <1>3 DEF Revisions
  <2>. QED
    BY <1>1, <1>2, <1>3, <2>1, <2>2
<1>4. CASE pc = "reverting"
  <2>1. AbsCount = revertTo - 1 /\ revertTo \in 1..Len(validRevisions)
    BY <1>1, <1>4 DEF AbsCount, Revisions
  <2>2. Target \in Nat /\ Target <= Len(journal)
    BY <1>1, <1>4, <2>1 DEF Revisions, Target
  <2>3. ASSUME NEW i \in 1..AbsCount
        PROVE  /\ i \in 1..Len(validRevisions)
               /\ validRevisions[i].journalIndex \in Nat
               /\ validRevisions[i].journalIndex <= Target
    <3>1. i \in 1..Len(validRevisions) /\ i < revertTo
      BY <2>1, <1>1
    <3>. QED
      BY <3>1, <2>1, <1>1 DEF Revisions, Target
  <2>4. ASSUME NEW i \in 1..AbsCount
        PROVE  validRevisions[i].journalIndex \in 0..Len(journal)
    BY <2>2, <2>3, <1>1
  <2>. QED
    BY <1>1, <1>2, <2>1, <2>2, <2>3, <2>4
<1>. QED
  BY <1>3, <1>4

\* The same snapshots with the same worlds.
LEMMA SameSnapshots ==
    ASSUME AbsCount' = AbsCount,
           \A i \in 1..AbsCount : AbsSnapshot(i)' = AbsSnapshot(i)
    PROVE  AbsSnapshots' = AbsSnapshots
<1>1. PICK n : n = AbsCount
  OBVIOUS
<1>2. [i \in 1..n |-> AbsSnapshot(i)'] = [i \in 1..n |-> AbsSnapshot(i)]
  BY <1>1
<1>. QED
  BY <1>1, <1>2 DEF AbsSnapshots

\* A step of a StateDB that reverts nothing, with the same revisions.
LEMMA ReadyStep ==
    ASSUME Inv, pc = "ready", Keeps, UNCHANGED revVars
    PROVE  AbsWorld = View /\ AbsWorld' = View' /\ AbsSnapshots' = AbsSnapshots
<1>1. UNCHANGED <<validRevisions, pc, revertTo>>
  BY DEF revVars
<1>2. AbsWorld = View /\ AbsWorld' = View'
  BY <1>1 DEF AbsWorld
<1>3. AbsCount' = AbsCount
  BY <1>1 DEF AbsCount
<1>4. \A i \in 0..Len(journal) : ViewAt(i)' = ViewAt(i)
  BY DEF Keeps, Extends, ViewAt, At
<1>5. ASSUME NEW i \in 1..AbsCount PROVE AbsSnapshot(i)' = AbsSnapshot(i)
  <2>1. PICK j : j = validRevisions[i].journalIndex
    OBVIOUS
  <2>2. j \in 0..Len(journal)
    BY <2>1, AbsFacts
  <2>3. ViewAt(j)' = ViewAt(j)
    BY <2>2, <1>4
  <2>4. validRevisions'[i].journalIndex = j
    BY <1>1, <2>1
  <2>. QED
    BY <1>1, <2>1, <2>3, <2>4 DEF AbsSnapshot, ViewAt
<1>. QED
  BY <1>2, <1>3, <1>5, SameSnapshots

\* What a fresh account reads as.
LEMMA FreshReads ==
    /\ WS!Fresh = AccountView(newObject(NewAccount))
    /\ \A b \in Balances :
          AccountView(newObject([NewAccount EXCEPT !.balance = b]))
             = [WS!Fresh EXCEPT !.balance = b]
<1>1. ASSUME NEW b \in Balances
      PROVE  AccountView(newObject([NewAccount EXCEPT !.balance = b])) =
                [nonce |-> 0, balance |-> b, code |-> EmptyCode, suicided |-> FALSE,
                 storage |-> [k \in Keys |-> Zero], pdx |-> [k \in PdxKeys |-> Zero]]
  <2>1. PICK data : data = [NewAccount EXCEPT !.balance = b]
    OBVIOUS
  <2>2. /\ data \in Account /\ data.nonce = 0 /\ data.balance = b /\ data.code = EmptyCode
        /\ data.root = [k \in Keys \cup PdxKeys |-> Zero]
    BY <2>1, NewAccountType, ValuesAssumption DEF NewAccount, Account
  <2>3. /\ newObject(data) \in Object /\ newObject(data).data = data
        /\ newObject(data).suicided = FALSE
    BY <2>2, NewObjectFacts DEF newObject
  <2>4. /\ \A k \in Keys : readState(newObject(data), k) = Zero
        /\ \A k \in PdxKeys : readPDXState(newObject(data), k) = Zero
    BY <2>2 DEF newObject, NoWrites, readState, readPDXState
  <2>5. /\ [k \in Keys |-> readState(newObject(data), k)] = [k \in Keys |-> Zero]
        /\ [k \in PdxKeys |-> readPDXState(newObject(data), k)] = [k \in PdxKeys |-> Zero]
    BY <2>4
  <2>. QED
    BY <2>1, <2>2, <2>3, <2>5, ReadRecord, ZenonT(90)
<1>2. NewAccount = [NewAccount EXCEPT !.balance = 0] /\ 0 \in Balances
  BY ValuesAssumption DEF NewAccount
<1>3. AccountView(newObject(NewAccount)) =
                [nonce |-> 0, balance |-> 0, code |-> EmptyCode, suicided |-> FALSE,
                 storage |-> [k \in Keys |-> Zero], pdx |-> [k \in PdxKeys |-> Zero]]
  BY <1>1, <1>2
<1>4. WS!Fresh = [nonce |-> 0, balance |-> 0, code |-> EmptyCode, suicided |-> FALSE,
                  storage |-> [k \in Keys |-> Zero], pdx |-> [k \in PdxKeys |-> Zero]]
  BY DEF WS!Fresh
<1>. QED
  BY <1>1, <1>3, <1>4

\* The account that WorldState works on is the one that StateDB works on.
LEMMA OrNewIsBase ==
    ASSUME Inv, pc = "ready", NEW a \in Addresses
    PROVE  WS!OrNew(a) = Base(a) /\ (WS!Exists(a) <=> ~IsNew(a))
           /\ (~IsNew(a) => AbsWorld.accounts[a] = Base(a))
<1>1. AbsWorld = View
  BY DEF AbsWorld
<1>2. WS!Exists(a) <=> AbsWorld.accounts[a] # NoObject
  BY DEF WS!Exists, AbsWorld
<1>3. WS!OrNew(a) = IF AbsWorld.accounts[a] # NoObject THEN AbsWorld.accounts[a] ELSE WS!Fresh
  BY DEF WS!OrNew, WS!Exists, AbsWorld
<1>4. TypeOK
  BY DEF Inv
<1>5. CASE IsNew(a)
  <2>1. View.accounts[a] = NoObject /\ Base(a) = AccountView(newObject(NewAccount))
    BY <1>5, BaseFacts DEF Base
  <2>. QED
    BY <2>1, <1>1, <1>2, <1>3, <1>5, FreshReads
<1>6. CASE ~IsNew(a)
  <2>1. View.accounts[a] = Base(a)
    BY <1>6, BaseFacts DEF Base
  <2>2. View.accounts[a] # NoObject
    BY <1>4, <1>6, ViewTypes DEF IsNew
  <2>. QED
    BY <2>1, <2>2, <1>1, <1>2, <1>3, <1>6
<1>. QED
  BY <1>5, <1>6

\* A setter writes one account of the world.
LEMMA WrotePut ==
    ASSUME Inv, pc = "ready", NEW a \in Addresses, NEW acc, Wrote(a, acc)
    PROVE  WS!Put(a, acc)
<1>1. AbsWorld = View /\ AbsWorld' = View' /\ AbsSnapshots' = AbsSnapshots
  BY ReadyStep DEF Wrote
<1>2. AbsWorld' = [AbsWorld EXCEPT !.accounts[a] = acc]
  BY <1>1 DEF Wrote, PutRead
<1>. QED
  BY <1>1, <1>2 DEF WS!Put, AbsWorld, AbsSnapshots, AbsSnapshot, AbsCount

\* Steps that change neither the world nor the snapshots.
LEMMA Stutters ==
    ASSUME AbsWorld' = AbsWorld, AbsSnapshots' = AbsSnapshots
    PROVE  UNCHANGED WS!vars
BY DEF WS!vars, AbsWorld, AbsSnapshots, AbsSnapshot, AbsCount

\* A call on an account does what WorldState says.
LEMMA AccessRefines ==
    ASSUME Inv, NEW a \in Addresses, Access(a)
    PROVE  WS!Write(a) \/ WS!CreateAccount(a) \/ WS!Suicide(a) \/ UNCHANGED WS!vars
<1>1. pc = "ready"
  BY DEF Access, Read, GetState, SetBalance, AddBalance, SubBalance, SetNonce, SetCode,
         SetState, SetPDXState, CreateAccount, CreateNew, CreateOver, Suicide
<1>2. /\ WS!OrNew(a) = Base(a) /\ (WS!Exists(a) <=> ~IsNew(a))
      /\ ~IsNew(a) => AbsWorld.accounts[a] = Base(a)
  BY <1>1, OrNewIsBase
<1>3. Base(a) \in ReadAccount
  BY BaseFields
<1>4. CASE Reads
  <2>1. AbsWorld = View /\ AbsWorld' = View' /\ AbsSnapshots' = AbsSnapshots
    BY <1>1, <1>4, ReadyStep DEF Reads
  <2>. QED
    BY <2>1, <1>4, Stutters DEF Reads
<1>5. CASE Writes(a)
  <2>1. \A acc : Wrote(a, acc) => WS!Put(a, acc)
    BY <1>1, WrotePut
  <2>2. \/ \E n \in Nonces : WS!Put(a, [WS!OrNew(a) EXCEPT !.nonce = n])
        \/ \E b \in Balances : WS!Put(a, [WS!OrNew(a) EXCEPT !.balance = b])
        \/ \E c \in Codes : WS!Put(a, [WS!OrNew(a) EXCEPT !.code = c])
        \/ \E k \in Keys, v \in Values : WS!Put(a, [WS!OrNew(a) EXCEPT !.storage[k] = v])
        \/ \E k \in PdxKeys, v \in Values : WS!Put(a, [WS!OrNew(a) EXCEPT !.pdx[k] = v])
    <3>1. PICK o : o = WS!OrNew(a)
      OBVIOUS
    <3>2. o = Base(a)
      BY <3>1, <1>2
    <3>3. CASE \E n \in Nonces : Wrote(a, [Base(a) EXCEPT !.nonce = n])
      <4>1. PICK n \in Nonces : Wrote(a, [Base(a) EXCEPT !.nonce = n])
        BY <3>3
      <4>2. WS!Put(a, [o EXCEPT !.nonce = n])
        BY <4>1, <2>1, <3>2
      <4>. QED
        BY <4>2, <3>1
    <3>4. CASE \E b \in Balances : Wrote(a, [Base(a) EXCEPT !.balance = b])
      <4>1. PICK b \in Balances : Wrote(a, [Base(a) EXCEPT !.balance = b])
        BY <3>4
      <4>2. WS!Put(a, [o EXCEPT !.balance = b])
        BY <4>1, <2>1, <3>2
      <4>. QED
        BY <4>2, <3>1
    <3>5. CASE \E c \in Codes : Wrote(a, [Base(a) EXCEPT !.code = c])
      <4>1. PICK c \in Codes : Wrote(a, [Base(a) EXCEPT !.code = c])
        BY <3>5
      <4>2. WS!Put(a, [o EXCEPT !.code = c])
        BY <4>1, <2>1, <3>2
      <4>. QED
        BY <4>2, <3>1
    <3>6. CASE \E k \in Keys, v \in Values : Wrote(a, [Base(a) EXCEPT !.storage[k] = v])
      <4>1. PICK k \in Keys, v \in Values : Wrote(a, [Base(a) EXCEPT !.storage[k] = v])
        BY <3>6
      <4>2. WS!Put(a, [o EXCEPT !.storage[k] = v])
        BY <4>1, <2>1, <3>2
      <4>. QED
        BY <4>2, <3>1
    <3>7. CASE \E k \in PdxKeys, v \in Values : Wrote(a, [Base(a) EXCEPT !.pdx[k] = v])
      <4>1. PICK k \in PdxKeys, v \in Values : Wrote(a, [Base(a) EXCEPT !.pdx[k] = v])
        BY <3>7
      <4>2. WS!Put(a, [o EXCEPT !.pdx[k] = v])
        BY <4>1, <2>1, <3>2
      <4>. QED
        BY <4>2, <3>1
    <3>. QED
      BY <3>3, <3>4, <3>5, <3>6, <3>7, <1>5 DEF Writes
  <2>. QED
    BY <2>2 DEF WS!Write
<1>6. CASE Creates(a)
  <2>1. [WS!Fresh EXCEPT !.balance = 0] = WS!Fresh /\ WS!Fresh.balance = 0
    <3>1. WS!Fresh \in ReadAccount
      BY FreshReads, NewAccountType, NewObjectFacts, ReadTypes
    <3>2. WS!Fresh.balance = 0
      BY DEF WS!Fresh
    <3>. QED
      BY <3>1, <3>2 DEF ReadAccount
  <2>2. Wrote(a, [WS!Fresh EXCEPT !.balance = Base(a).balance])
    <3>1. CASE IsNew(a)
      <4>1. Base(a) = WS!Fresh
        BY <3>1, FreshReads DEF Base, GetOrNewStateObject
      <4>2. Wrote(a, Base(a))
        BY <3>1, <1>6 DEF Creates
      <4>. QED
        BY <4>1, <4>2, <2>1
    <3>2. CASE ~IsNew(a)
      <4>1. Base(a).balance \in Balances
        BY <1>3 DEF ReadAccount
      <4>2. Wrote(a, AccountView(newObject([NewAccount EXCEPT !.balance = Base(a).balance])))
        BY <3>2, <1>6 DEF Creates
      <4>. QED
        BY <4>1, <4>2, FreshReads
    <3>. QED
      BY <3>1, <3>2
  <2>3. WS!Put(a, [WS!Fresh EXCEPT !.balance = WS!OrNew(a).balance])
    <3>1. PICK acc : acc = [WS!Fresh EXCEPT !.balance = Base(a).balance]
      OBVIOUS
    <3>2. WS!Put(a, acc)
      BY <3>1, <2>2, <1>1, WrotePut
    <3>. QED
      BY <3>1, <3>2, <1>2
  <2>. QED
    BY <2>3 DEF WS!CreateAccount
<1>7. CASE Kills(a)
  <2>1. ~IsNew(a) /\ Wrote(a, [Base(a) EXCEPT !.suicided = TRUE, !.balance = 0])
    BY <1>7 DEF Kills
  <2>2. PICK acc : acc = [Base(a) EXCEPT !.suicided = TRUE, !.balance = 0]
    OBVIOUS
  <2>3. WS!Put(a, acc)
    BY <2>1, <2>2, <1>1, WrotePut
  <2>4. acc = [AbsWorld.accounts[a] EXCEPT !.suicided = TRUE, !.balance = 0]
    BY <2>1, <2>2, <1>2
  <2>5. WS!Exists(a)
    BY <2>1, <1>2
  <2>. QED
    BY <2>3, <2>4, <2>5 DEF WS!Suicide, AbsWorld
<1>. QED
  BY <1>4, <1>5, <1>6, <1>7, AccessStep

\* The refund and the preimages.
LEMMA OtherRefines ==
    ASSUME Inv
    PROVE  /\ AddRefund(1) => WS!AddRefund
           /\ \A h \in Hashes : AddPreimage(h) => WS!AddPreimage(h)
<1>1. View \in World /\ TypeOK
  BY ViewTypes DEF Inv
<1>2. ASSUME AddRefund(1) PROVE WS!AddRefund
  <2>1. pc = "ready" /\ Keeps /\ UNCHANGED revVars
        /\ View' = [View EXCEPT !.refund = View.refund + 1]
    BY <1>2, AddRefundStep DEF AddRefund
  <2>2. AbsWorld = View /\ AbsWorld' = View' /\ AbsSnapshots' = AbsSnapshots
    BY <2>1, ReadyStep
  <2>3. View.refund \in Nat
    BY <1>1 DEF World
  <2>4. View'.refund = View.refund + 1
    BY <1>1, <2>1 DEF World
  <2>5. AbsWorld'.refund > AbsWorld.refund
    BY <2>2, <2>3, <2>4
  <2>6. AbsWorld' = [AbsWorld EXCEPT !.refund = AbsWorld'.refund]
    BY <2>1, <2>2, <2>4
  <2>. QED
    BY <2>2, <2>5, <2>6 DEF WS!AddRefund, AbsWorld, AbsSnapshots, AbsSnapshot, AbsCount
<1>3. ASSUME NEW h \in Hashes, AddPreimage(h) PROVE WS!AddPreimage(h)
  <2>1. pc = "ready" /\ Keeps /\ UNCHANGED revVars
        /\ View' = [View EXCEPT !.preimages = @ \cup {h}]
    BY <1>3, AddPreimageStep DEF AddPreimage
  <2>2. AbsWorld = View /\ AbsWorld' = View' /\ AbsSnapshots' = AbsSnapshots
    BY <2>1, ReadyStep
  <2>3. AbsWorld' = [AbsWorld EXCEPT !.preimages = @ \cup {h}]
    BY <2>1, <2>2
  <2>. QED
    BY <2>2, <2>3 DEF WS!AddPreimage, AbsWorld, AbsSnapshots, AbsSnapshot, AbsCount
<1>. QED
  BY <1>2, <1>3

\* Snapshot pushes the world of now under an id that is larger than the others.
LEMMA SnapshotRefines ==
    ASSUME Inv, Snapshot
    PROVE  WS!Snapshot
<1>0. PICK n : n = Len(validRevisions)
  OBVIOUS
<1> DEFINE r == [id |-> nextRevisionId, journalIndex |-> Len(journal)]
           s == [id |-> nextRevisionId, world |-> View]
<1>1. /\ n \in Nat /\ Len(journal) \in Nat
      /\ \A i \in 1..n : validRevisions[i].id < nextRevisionId
      /\ validRevisions \in Seq([id : Nat, journalIndex : Nat])
  BY <1>0, RevisionTypes DEF Inv, Revisions, TypeOK
<1>2. /\ pc = "ready" /\ pc' = "ready" /\ validRevisions' = Append(validRevisions, r)
      /\ UNCHANGED <<journal, views>> /\ View' = View
  BY SnapshotStep DEF Snapshot, jrnVars
<1>3. /\ Len(validRevisions') = n + 1 /\ validRevisions'[n + 1] = r
      /\ \A i \in 1..n : validRevisions'[i] = validRevisions[i]
  BY <1>0, <1>1, <1>2
<1>4. AbsWorld = View /\ AbsWorld' = View /\ AbsCount = n /\ AbsCount' = n + 1
  BY <1>0, <1>2, <1>3 DEF AbsWorld, AbsCount
<1>5. \A i : ViewAt(i)' = ViewAt(i)
  BY <1>2 DEF ViewAt
<1>6. \A i \in 1..n : AbsSnapshot(i)' = AbsSnapshot(i)
  BY <1>3, <1>5 DEF AbsSnapshot, ViewAt
<1>7. AbsSnapshot(n + 1)' = s
  <2>1. ViewAt(Len(journal)) = View
    BY AbsFacts
  <2>2. /\ validRevisions'[n + 1].id = nextRevisionId
        /\ validRevisions'[n + 1].journalIndex = Len(journal)
    BY <1>3
  <2>3. PICK j : j = validRevisions'[n + 1].journalIndex
    OBVIOUS
  <2>4. (IF j < Len(journal') THEN views'[j + 1] ELSE View') = View
    BY <2>2, <2>3, <1>1, <1>2
  <2>. QED
    BY <2>2, <2>3, <2>4 DEF AbsSnapshot, ViewAt
<1>8. AbsSnapshots = [i \in 1..n |-> AbsSnapshot(i)]
  BY <1>4 DEF AbsSnapshots
<1>9. AbsSnapshots' = [i \in 1..n + 1 |-> AbsSnapshot(i)']
  BY <1>4 DEF AbsSnapshots
<1>10. PICK S : S = AbsSnapshots
  OBVIOUS
<1>11. S \in Seq({AbsSnapshot(i) : i \in 1..n}) /\ Len(S) = n
       /\ \A i \in 1..n : S[i] = AbsSnapshot(i)
  <2>1. PICK T : T = {AbsSnapshot(i) : i \in 1..n}
    OBVIOUS
  <2>2. S = [i \in 1..n |-> AbsSnapshot(i)]
    BY <1>8, <1>10
  <2>3. S \in [1..n -> T] /\ \A i \in 1..n : S[i] = AbsSnapshot(i)
    BY <2>1, <2>2
  <2>4. S \in Seq(T) /\ Len(S) = n
    BY <2>3, <1>1
  <2>. QED
    BY <2>1, <2>3, <2>4
<1>. HIDE DEF r, s
<1>12. AbsSnapshots' = Append(S, s)
  <2>1. /\ Append(S, s) = [i \in 1..n + 1 |-> Append(S, s)[i]]
        /\ \A i \in 1..n : Append(S, s)[i] = S[i]
        /\ Append(S, s)[n + 1] = s
    <3>1. PICK T : S \in Seq(T)
      BY <1>11
    <3>2. S \in Seq(T \cup {s}) /\ s \in T \cup {s}
      BY <3>1, SeqMonotonic
    <3>3. /\ Append(S, s) \in Seq(T \cup {s}) /\ Len(Append(S, s)) = n + 1
          /\ \A i \in 1..n : Append(S, s)[i] = S[i]
          /\ Append(S, s)[n + 1] = s
      BY <3>2, <1>11, AppendProperties
    <3>4. Append(S, s) \in [1..n + 1 -> T \cup {s}]
      BY <3>3, LenProperties
    <3>. QED
      BY <3>3, <3>4
  <2>2. \A i \in 1..n + 1 : i \in 1..n \/ i = n + 1
    BY <1>1
  <2>3. \A i \in 1..n + 1 : Append(S, s)[i] = AbsSnapshot(i)'
    BY <2>1, <2>2, <1>6, <1>7, <1>11
  <2>. QED
    BY <2>1, <2>3, <1>9
<1>13. /\ AbsSnapshots' # << >> /\ Len(AbsSnapshots') = n + 1
       /\ AbsSnapshots'[Len(AbsSnapshots')] = s
  BY <1>1, <1>11, <1>12
<1>14. /\ AbsSnapshots'[Len(AbsSnapshots')].id = nextRevisionId
       /\ s = [id |-> nextRevisionId, world |-> AbsWorld]
  BY <1>4, <1>13 DEF s
<1>15. \A i \in 1..Len(AbsSnapshots) : AbsSnapshots[i].id < nextRevisionId
  <2>1. ASSUME NEW i \in 1..n PROVE S[i].id < nextRevisionId
    <3>1. S[i].id = validRevisions[i].id
      BY <1>11 DEF AbsSnapshot
    <3>. QED
      BY <3>1, <1>1
  <2>. QED
    BY <2>1, <1>10, <1>11
<1>16. /\ AbsSnapshots' # << >>
       /\ \A i \in 1..Len(AbsSnapshots) : AbsSnapshots[i].id < AbsSnapshots'[Len(AbsSnapshots')].id
       /\ AbsSnapshots' = Append(AbsSnapshots, [id |-> AbsSnapshots'[Len(AbsSnapshots')].id,
                                                world |-> AbsWorld])
       /\ AbsWorld' = AbsWorld
  BY <1>4, <1>10, <1>12, <1>13, <1>14, <1>15
<1>. QED
  BY <1>16 DEF WS!Snapshot, AbsWorld, AbsSnapshots, AbsSnapshot, AbsCount

\* A function that agrees with the first k - 1 elements of a sequence.
LEMMA Prefix ==
    ASSUME NEW T, NEW S \in Seq(T), NEW k \in 1..Len(S), NEW P,
           P = [i \in 1..k - 1 |-> P[i]], \A i \in 1..k - 1 : P[i] = S[i]
    PROVE  P = SubSeq(S, 1, k - 1)
<1> DEFINE m == k - 1
           Q == SubSeq(S, 1, m)
<1>1. Len(S) \in Nat /\ m \in Nat /\ \A i \in 1..m : i \in 1..Len(S)
  OBVIOUS
<1>2. \A i \in 1..m : S[i] \in T
  BY <1>1
<1>3. /\ Q \in Seq(T) /\ Len(Q) = IF 1 <= m THEN m - 1 + 1 ELSE 0
      /\ \A i \in 1..m - 1 + 1 : Q[i] = S[1 + i - 1]
  BY <1>1, <1>2, SubSeqProperties
<1>. HIDE DEF Q
<1>4. P = [i \in 1..m |-> P[i]] /\ \A i \in 1..m : P[i] = S[i]
  OBVIOUS
<1>. HIDE DEF m
<1>5. Len(Q) = m /\ \A i \in 1..m : Q[i] = S[i]
  BY <1>1, <1>3
<1>6. Q = [i \in 1..m |-> Q[i]]
  BY <1>3, <1>5, LenProperties
<1>. QED
  BY <1>4, <1>5, <1>6 DEF Q, m

\* The snapshots as a sequence.
LEMMA SnapshotSeq ==
    ASSUME Inv, NEW n, n = AbsCount
    PROVE  /\ \E T : AbsSnapshots \in Seq(T)
           /\ Len(AbsSnapshots) = n /\ n \in Nat
           /\ \A i \in 1..n : AbsSnapshots[i] = AbsSnapshot(i)
<1>1. n \in Nat
  BY AbsFacts
<1>2. PICK S : S = AbsSnapshots
  OBVIOUS
<1>3. S = [i \in 1..n |-> AbsSnapshot(i)]
  BY <1>2 DEF AbsSnapshots
<1>4. PICK T : T = {AbsSnapshot(i) : i \in 1..n}
  OBVIOUS
<1>5. S \in [1..n -> T] /\ \A i \in 1..n : S[i] = AbsSnapshot(i)
  BY <1>3, <1>4
<1>6. S \in Seq(T) /\ Len(S) = n
  BY <1>1, <1>5
<1>. QED
  BY <1>1, <1>2, <1>5, <1>6

\* RevertToSnapshot takes the world of the snapshot and drops the later ones.
LEMMA RevertRefines ==
    ASSUME Inv, NEW id, RevertToSnapshot(id)
    PROVE  \E idx \in 1..Len(AbsSnapshots) : WS!RevertToSnapshot(idx)
<1>1. /\ pc = "ready" /\ pc' = "reverting"
      /\ UNCHANGED <<journal, views, validRevisions>> /\ View' = View
  BY RevertStep DEF RevertToSnapshot, jrnVars
<1>2. PICK idx \in 1..Len(validRevisions) : revertTo' = idx
  BY DEF RevertToSnapshot
<1>3. PICK n : n = AbsCount
  OBVIOUS
<1>4. n = Len(validRevisions)
  BY <1>1, <1>3 DEF AbsCount
<1>5. PICK T : AbsSnapshots \in Seq(T)
  BY <1>3, SnapshotSeq
<1>6. /\ Len(AbsSnapshots) = n /\ n \in Nat
      /\ \A i \in 1..n : AbsSnapshots[i] = AbsSnapshot(i)
  BY <1>3, SnapshotSeq
<1>7. idx \in 1..Len(AbsSnapshots) /\ idx - 1 \in Nat /\ \A i \in 1..idx - 1 : i \in 1..n
  BY <1>2, <1>4, <1>6
<1>8. \A i : ViewAt(i)' = ViewAt(i)
  BY <1>1 DEF ViewAt
<1>9. \A i : AbsSnapshot(i)' = AbsSnapshot(i)
  BY <1>1, <1>8 DEF AbsSnapshot, ViewAt
<1>10. AbsWorld' = AbsSnapshots[idx].world
  <2>1. AbsSnapshots[idx] = AbsSnapshot(idx)
    BY <1>2, <1>4, <1>6
  <2>2. AbsSnapshots[idx].world = ViewAt(validRevisions[idx].journalIndex)
    BY <2>1 DEF AbsSnapshot
  <2>3. PICK j : j = validRevisions[idx].journalIndex
    OBVIOUS
  <2>4. Target' = j
    BY <1>1, <1>2, <2>3 DEF Target
  <2>5. AbsWorld' = ViewAt(j)'
    BY <1>1, <2>4 DEF AbsWorld, ViewAt
  <2>. QED
    BY <2>2, <2>3, <2>5, <1>8
<1>11. AbsSnapshots' = [i \in 1..idx - 1 |-> AbsSnapshot(i)']
  <2>1. AbsCount' = idx - 1
    BY <1>1, <1>2 DEF AbsCount
  <2>. QED
    BY <2>1 DEF AbsSnapshots
<1>12. PICK P : P = AbsSnapshots'
  OBVIOUS
<1>13. P = [i \in 1..idx - 1 |-> P[i]] /\ \A i \in 1..idx - 1 : P[i] = AbsSnapshots[i]
  BY <1>6, <1>7, <1>9, <1>11, <1>12
<1>14. P = SubSeq(AbsSnapshots, 1, idx - 1)
  BY <1>5, <1>7, <1>13, Prefix
<1>15. AbsSnapshots' = SubSeq(AbsSnapshots, 1, idx - 1)
  BY <1>12, <1>14
<1>16. WS!RevertToSnapshot(idx)
  BY <1>10, <1>15 DEF WS!RevertToSnapshot, AbsWorld, AbsSnapshots, AbsSnapshot, AbsCount
<1>. QED
  BY <1>7, <1>16

\* While entries are undone the world is the one of the snapshot already.
LEMMA RevertEntryRefines ==
    ASSUME Inv, RevertEntry
    PROVE  UNCHANGED WS!vars
<1>1. /\ pc = "reverting" /\ UNCHANGED <<validRevisions, pc, revertTo>> /\ Target < Len(journal)
      /\ \A i \in 0..Len(journal) - 1 :
            At(journal', views', View', i) = At(journal, views, View, i)
  BY RevertEntryStep DEF revVars
<1>2. PICK t : t = Target
  OBVIOUS
<1>3. PICK l : l = Len(journal)
  OBVIOUS
<1>4. l \in Nat /\ t \in 0..l - 1
  BY <1>1, <1>2, <1>3, AbsFacts
<1>5. \A i \in 0..l - 1 : ViewAt(i)' = ViewAt(i)
  BY <1>1, <1>3 DEF ViewAt, At
<1>6. AbsWorld' = AbsWorld
  <2>1. Target' = t
    BY <1>1, <1>2 DEF Target
  <2>2. AbsWorld' = ViewAt(t)'
    BY <1>1, <2>1 DEF AbsWorld, ViewAt
  <2>3. AbsWorld = ViewAt(t)
    BY <1>1, <1>2 DEF AbsWorld
  <2>. QED
    BY <2>2, <2>3, <1>4, <1>5
<1>7. AbsCount' = AbsCount
  BY <1>1 DEF AbsCount
<1>8. ASSUME NEW i \in 1..AbsCount PROVE AbsSnapshot(i)' = AbsSnapshot(i)
  <2>1. PICK j : j = validRevisions[i].journalIndex
    OBVIOUS
  <2>2. j \in 0..l /\ j <= t
    BY <2>1, <1>1, <1>2, <1>3, AbsFacts
  <2>3. j \in 0..l - 1
    BY <2>2, <1>4
  <2>4. ViewAt(j)' = ViewAt(j)
    BY <2>3, <1>5
  <2>5. validRevisions'[i].journalIndex = j
    BY <1>1, <2>1
  <2>. QED
    BY <1>1, <2>1, <2>4, <2>5 DEF AbsSnapshot, ViewAt
<1>. QED
  BY <1>6, <1>7, <1>8, SameSnapshots, Stutters

\* When they are all undone the world is what is read again.
LEMMA RevertDoneRefines ==
    ASSUME Inv, RevertDone
    PROVE  UNCHANGED WS!vars
<1>1. /\ pc = "reverting" /\ pc' = "ready" /\ Len(journal) = Target
      /\ validRevisions' = SubSeq(validRevisions, 1, revertTo - 1)
      /\ UNCHANGED <<journal, views>> /\ View' = View
  BY RevertDoneStep DEF RevertDone, jrnVars
<1>2. AbsWorld = View /\ AbsWorld' = View
  BY <1>1, AbsFacts DEF AbsWorld
<1>3. /\ revertTo \in 1..Len(validRevisions) /\ Len(validRevisions) \in Nat
      /\ validRevisions \in Seq([id : Nat, journalIndex : Nat])
      /\ \A i \in 1..Len(validRevisions) : validRevisions[i] \in [id : Nat, journalIndex : Nat]
  BY <1>1, RevisionTypes DEF Inv, Revisions, RevTypes
<1>4. PICK m : m = revertTo - 1
  OBVIOUS
<1>5. m \in Nat /\ \A i \in 1..m : i \in 1..Len(validRevisions)
  BY <1>3, <1>4
<1>6. /\ Len(validRevisions') = m
      /\ \A i \in 1..m : validRevisions'[i] = validRevisions[i]
  <2>1. \A i \in 1..m : validRevisions[i] \in [id : Nat, journalIndex : Nat]
    BY <1>3, <1>5
  <2>2. /\ Len(validRevisions') = IF 1 <= m THEN m - 1 + 1 ELSE 0
        /\ \A i \in 1..m - 1 + 1 : validRevisions'[i] = validRevisions[1 + i - 1]
    BY <1>1, <1>4, <1>5, <2>1, SubSeqProperties
  <2>. QED
    BY <1>5, <2>2
<1>7. AbsCount = m /\ AbsCount' = m
  BY <1>1, <1>4, <1>6 DEF AbsCount
<1>8. \A i : ViewAt(i)' = ViewAt(i)
  BY <1>1 DEF ViewAt
<1>9. ASSUME NEW i \in 1..m PROVE AbsSnapshot(i)' = AbsSnapshot(i)
  <2>1. PICK j : j = validRevisions[i].journalIndex
    OBVIOUS
  <2>2. validRevisions'[i] = validRevisions[i] /\ validRevisions'[i].journalIndex = j
    BY <1>6, <2>1
  <2>. QED
    BY <2>1, <2>2, <1>8 DEF AbsSnapshot, ViewAt
<1>. QED
  BY <1>2, <1>7, <1>9, SameSnapshots, Stutters

\* A panic changes nothing that is promised.
LEMMA PanicRefines ==
    ASSUME Inv, FinalisePanics \/ \E id \in 0..nextRevisionId : RevertUnknown(id)
    PROVE  UNCHANGED WS!vars
<1>1. /\ pc = "ready" /\ pc' # "reverting"
      /\ UNCHANGED <<journal, views, validRevisions>> /\ View' = View
  BY PanicStep DEF FinalisePanics, RevertUnknown, jrnVars
<1>2. AbsWorld' = AbsWorld /\ AbsCount' = AbsCount
  BY <1>1 DEF AbsWorld, AbsCount
<1>3. \A i : AbsSnapshot(i)' = AbsSnapshot(i)
  BY <1>1 DEF AbsSnapshot, ViewAt
<1>. QED
  BY <1>2, <1>3, SameSnapshots, Stutters

\* Finalise deletes the accounts that are gone and all snapshots.
LEMMA FinaliseRefines ==
    ASSUME Inv, NEW d \in BOOLEAN, Finalise(d)
    PROVE  WS!Finalise
<1>1. /\ pc = "ready" /\ pc' = "ready" /\ validRevisions' = << >>
  BY DEF Finalise
<1>2. AbsWorld = View /\ AbsWorld' = View'
  BY <1>1 DEF AbsWorld
<1>3. AbsSnapshots' = << >>
  <2>1. AbsCount' = 0
    BY <1>1 DEF AbsCount
  <2>2. AbsSnapshots' = [i \in 1..0 |-> AbsSnapshot(i)']
    BY <2>1 DEF AbsSnapshots
  <2>. QED
    BY <2>2
<1>4. PICK gone : gone = Gone(d)
  OBVIOUS
<1>5. /\ View' = [accounts |-> [a \in Addresses |->
                     IF a \in gone THEN NoObject ELSE View.accounts[a]],
                  refund |-> 0, preimages |-> View.preimages]
      /\ \A a \in Addresses :
            /\ View.accounts[a] # NoObject /\ View.accounts[a].suicided => a \in gone
            /\ a \in gone =>
                  /\ View.accounts[a] # NoObject
                  /\ \/ View.accounts[a].suicided
                     \/ /\ View.accounts[a].nonce = 0
                        /\ View.accounts[a].balance = 0
                        /\ View.accounts[a].code = EmptyCode
  BY <1>4, FinaliseStep
<1>6. gone \subseteq Addresses
  BY <1>4 DEF Gone, DirtyAddrs
<1>7. gone \in SUBSET {a \in Addresses : AbsWorld.accounts[a] # NoObject}
  BY <1>2, <1>5, <1>6
<1>8. \A a \in Addresses : AbsWorld.accounts[a] # NoObject =>
         /\ AbsWorld.accounts[a].suicided => a \in gone
         /\ a \in gone => \/ AbsWorld.accounts[a].suicided
                          \/ WS!IsEmpty(AbsWorld.accounts[a])
  BY <1>2, <1>5 DEF WS!IsEmpty
<1>9. AbsWorld' = [AbsWorld EXCEPT
                      !.accounts = [a \in Addresses |-> IF a \in gone THEN NoObject ELSE @[a]],
                      !.refund = 0]
  <2>1. PICK m : m = View.accounts
    OBVIOUS
  <2>2. PICK p : p = View.preimages
    OBVIOUS
  <2>3. PICK r : r = View.refund
    OBVIOUS
  <2>4. View = [accounts |-> m, refund |-> r, preimages |-> p]
    BY <2>1, <2>2, <2>3 DEF View
  <2>5. PICK m2 : m2 = [a \in Addresses |-> IF a \in gone THEN NoObject ELSE m[a]]
    OBVIOUS
  <2>6. View' = [accounts |-> m2, refund |-> 0, preimages |-> p]
    BY <1>5, <2>1, <2>2, <2>5
  <2>7. PICK v : v = View
    OBVIOUS
  <2>8. v = [accounts |-> m, refund |-> r, preimages |-> p]
    BY <2>4, <2>7
  <2>9. [v EXCEPT !.accounts = [a \in Addresses |-> IF a \in gone THEN NoObject ELSE @[a]],
                  !.refund = 0]
           = [accounts |-> m2, refund |-> 0, preimages |-> p]
    <3>1. m2 = [a \in Addresses |-> IF a \in gone THEN NoObject ELSE v.accounts[a]]
      BY <2>5, <2>8
    <3>2. [v EXCEPT !.accounts = m2, !.refund = 0]
             = [accounts |-> m2, refund |-> 0, preimages |-> p]
      <4>1. DOMAIN v = {"accounts", "refund", "preimages"}
        BY <2>8
      <4>2. [v EXCEPT !.accounts = m2, !.refund = 0]
               = [f \in DOMAIN v |->
                     IF f = "refund" THEN 0 ELSE IF f = "accounts" THEN m2 ELSE v[f]]
        OBVIOUS
      <4>3. [accounts |-> m2, refund |-> 0, preimages |-> p]
               = [f \in {"accounts", "refund", "preimages"} |->
                     IF f = "accounts" THEN m2 ELSE IF f = "refund" THEN 0 ELSE p]
        OBVIOUS
      <4>4. v.preimages = p
        BY <2>8
      <4>. QED
        BY <4>1, <4>2, <4>3, <4>4
    <3>. QED
      BY <3>1, <3>2
  <2>10. AbsWorld = v /\ AbsWorld' = [accounts |-> m2, refund |-> 0, preimages |-> p]
    BY <1>2, <2>6, <2>7
  <2>. QED
    BY <2>9, <2>10
<1>. QED
  BY <1>3, <1>7, <1>8, <1>9 DEF WS!Finalise, WS!Exists, AbsWorld, AbsSnapshots, AbsSnapshot, AbsCount

\* A StateDB that was just opened has no refund, no preimages, no snapshots.
LEMMA InitRefines == Init => WS!Init
<1> SUFFICES ASSUME Init PROVE WS!Init
  OBVIOUS
<1>1. pc # "reverting" /\ Len(validRevisions) = 0 /\ refund = 0 /\ preimages = {}
  BY DEF Init
<1>2. AbsWorld = View /\ AbsCount = 0
  BY <1>1 DEF AbsWorld, AbsCount
<1>3. AbsSnapshots = << >>
  BY <1>2 DEF AbsSnapshots
<1>4. View.refund = 0 /\ View.preimages = {}
  BY <1>1 DEF View
<1>. QED
  BY <1>2, <1>3, <1>4 DEF WS!Init, AbsWorld, AbsSnapshots, AbsSnapshot, AbsCount

\* Every step is a step of WorldState or changes nothing that it speaks of.
LEMMA NextRefines == Inv /\ [Next]_vars => [WS!Next]_(WS!vars)
<1> SUFFICES ASSUME Inv, [Next]_vars PROVE WS!Next \/ UNCHANGED WS!vars
  OBVIOUS
<1>1. ASSUME NEW a \in Addresses, Access(a) PROVE WS!Next \/ UNCHANGED WS!vars
  BY <1>1, AccessRefines DEF WS!Next
<1>2. ASSUME AddRefund(1) \/ \E h \in Hashes : AddPreimage(h) PROVE WS!Next
  BY <1>2, OtherRefines DEF WS!Next
<1>3. ASSUME Snapshot PROVE WS!Next
  BY <1>3, SnapshotRefines DEF WS!Next
<1>4. ASSUME NEW id \in 0..nextRevisionId, RevertToSnapshot(id) PROVE WS!Next
  <2>1. PICK idx \in 1..Len(AbsSnapshots) : WS!RevertToSnapshot(idx)
    BY <1>4, RevertRefines
  <2>. QED
    BY <2>1 DEF WS!Next, AbsSnapshots, AbsSnapshot, AbsCount
<1>5. ASSUME RevertEntry \/ RevertDone PROVE UNCHANGED WS!vars
  BY <1>5, RevertEntryRefines, RevertDoneRefines
<1>6. ASSUME NEW d \in BOOLEAN, Finalise(d) PROVE WS!Next
  BY <1>6, FinaliseRefines DEF WS!Next
<1>7. ASSUME FinalisePanics \/ \E id \in 0..nextRevisionId : RevertUnknown(id)
      PROVE  UNCHANGED WS!vars
  BY <1>7, PanicRefines
<1>8. ASSUME UNCHANGED vars PROVE UNCHANGED WS!vars
  <2>1. View' = View /\ UNCHANGED <<journal, views, validRevisions, pc, revertTo>>
    BY <1>8, StutterStep DEF vars, jrnVars, revVars
  <2>2. AbsWorld' = AbsWorld /\ AbsCount' = AbsCount
    BY <2>1 DEF AbsWorld, AbsCount, ViewAt, Target
  <2>3. \A i : AbsSnapshot(i)' = AbsSnapshot(i)
    BY <2>1 DEF AbsSnapshot, ViewAt
  <2>. QED
    BY <2>2, <2>3, SameSnapshots, Stutters
<1>. QED
  BY <1>1, <1>2, <1>3, <1>4, <1>5, <1>6, <1>7, <1>8 DEF Next, Stopped

\* Whatever is called in whatever order, callers read what WorldState says;
\* above all RevertToSnapshot, undoing entry by entry, restores all that could
\* be read when the snapshot was taken (journal.go:59-73, statedb.go:545).
THEOREM RevertRestores == Spec => ImplementsWorldState
BY InitInv, NextInv, InitRefines, NextRefines, PTL DEF Spec, ImplementsWorldState, WS!Spec
=============================================================================
