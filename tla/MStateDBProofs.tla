--------------------------- MODULE MStateDBProofs ---------------------------
(***************************************************************************)
(* Proofs about MStateDB, for any number of workers, accounts, objects and *)
(* transactions: what another worker holds is out of reach of every call   *)
(* (Isolation), and for the calm accounts the tables are coherent and      *)
(* implement SerialState, whatever is done to the other accounts.          *)
(***************************************************************************)
EXTENDS MStateDB, SequenceTheorems, TLAPS

Types ==
    /\ holder \in [Accounts -> Workers \cup {Free}]
    /\ heap \in Seq(Object)
    /\ own \in [Workers -> [Accounts -> Ref \cup {Nil}]]
    /\ shared \in [Accounts -> Ref \cup {Nil}]
    /\ trie \in [Accounts -> Account \cup {Absent}]
    /\ journal \in [Workers -> Seq(Entry)]
    /\ phase \in [Workers -> {"idle", "running", "reverting", "finalised"}]
    /\ begun \in 0..MaxTxs

(* The references an account is reached by, or will be after an undo *)
Used(r, a) ==
    \/ shared[a] = r
    \/ \E w \in Workers : own[w][a] = r
    \/ \E w \in Workers : \E i \in 1..Len(journal[w]) :
          /\ journal[w][i].kind = "reset" /\ journal[w][i].account = a
          /\ journal[w][i].prev = r

(* No object serves two accounts. *)
Distinct == \A a, b \in Accounts, r \in Ref : Used(r, a) /\ Used(r, b) => a = b

(* A worker journals only accounts it holds; the objects its entries will  *)
(* undo exist; and the first entry of an account is the one that creates   *)
(* it, if one does.                                                        *)
JournalInv ==
    \A w \in Workers : \A i \in 1..Len(journal[w]) :
        LET e == journal[w][i] IN
        /\ holder[e.account] = w
        /\ own[w][e.account] # Nil /\ ~heap[own[w][e.account]].deleted
        /\ e.kind = "reset" => e.prev \in Ref /\ ~heap[e.prev].deleted
        /\ e.kind = "create" => \A j \in 1..i - 1 : journal[w][j].account # e.account

(* Between transactions, and once one is finalised, nothing is journaled.  *)
PhaseInv == \A w \in Workers : phase[w] \in {"idle", "finalised"} => journal[w] = << >>

(* The inductive invariant of every call *)
Inv == Types /\ Distinct /\ JournalInv /\ PhaseInv

-----------------------------------------------------------------------------
IsFirst(w, i, kind, a) ==
    /\ journal[w][i].kind = kind /\ journal[w][i].account = a
    /\ \A j \in 1..i - 1 : ~(journal[w][j].kind = kind /\ journal[w][j].account = a)

Journaled(kind, a) ==
    \E w \in Workers : \E i \in 1..Len(journal[w]) :
        journal[w][i].kind = kind /\ journal[w][i].account = a

(* Undoing the first entry of a field gives what the trie stores; without  *)
(* an entry the object has it.                                             *)
Undoes(a) ==
    /\ trie[a] # Absent
    /\ ~Journaled("balance", a) => heap[shared[a]].data.balance = trie[a].balance
    /\ ~Journaled("nonce", a) => heap[shared[a]].data.nonce = trie[a].nonce
    /\ \A w \in Workers : \A i \in 1..Len(journal[w]) :
          /\ IsFirst(w, i, "balance", a) => journal[w][i].prev = trie[a].balance
          /\ IsFirst(w, i, "nonce", a) => journal[w][i].prev = trie[a].nonce

(* Every table has the same object of the account, which is not removed,   *)
(* and undoing the journal gives what is stored.                           *)
SerialAt(a) ==
    /\ \A w \in Workers : own[w][a] \in {Nil, shared[a]}
    /\ shared[a] # Nil => ~heap[shared[a]].suicided /\ ~heap[shared[a]].deleted
    /\ \A w \in Workers :
          /\ phase[w] = "reverting" => ~Creates(w, a)
          /\ \A i \in 1..Len(journal[w]) :
                journal[w][i].account = a => journal[w][i].kind \in {"create", "balance", "nonce"}
    /\ shared[a] # Nil => Journaled("create", a) \/ Undoes(a)

SerialInv == \A a \in Calm : SerialAt(a)

-----------------------------------------------------------------------------
(* The tables t a call of worker w on account a works with: only the own   *)
(* and the shared reference of the account change, to the object the       *)
(* account has or to a new one.                                            *)
Loads(t, w, a) ==
    /\ t.own = [own EXCEPT ![w][a] = t.own[w][a]]
    /\ t.shared = [shared EXCEPT ![a] = t.shared[a]]
    /\ t.heap \in Seq(Object) /\ Len(t.heap) >= Len(heap) /\ \A i \in Ref : t.heap[i] = heap[i]
    /\ {t.own[w][a], t.shared[a]} \subseteq (1..Len(t.heap)) \cup {Nil}
    /\ t.own[w][a] \in Ref => t.own[w][a] \in {own[w][a], shared[a]}
    /\ t.shared[a] \in Ref => t.shared[a] = shared[a]

(* A step of worker w on account a: it has or takes the lock, and changes  *)
(* the references of the account and the object that is its own.           *)
Local(w, a) ==
    /\ holder[a] \in {w, Free} /\ holder' = [holder EXCEPT ![a] = w]
    /\ \A v \in Workers, b \in Accounts : v # w \/ b # a => own'[v][b] = own[v][b]
    /\ \A b \in Accounts \ {a} : shared'[b] = shared[b]
    /\ Len(heap') >= Len(heap)
    /\ \A r \in Ref : heap'[r] = heap[r] \/ r = own'[w][a]
    /\ own'[w][a] \in Ref => Used(own'[w][a], a)
    /\ shared'[a] \in Ref => shared'[a] = shared[a]
    /\ trie' = trie

\* An object put into both tables (createObject, setStateObject) is a new one.
LEMMA InsertLoads ==
    ASSUME Types, NEW w \in Workers, NEW a \in Accounts, NEW obj \in Object
    PROVE  LET t == Insert(w, a, obj) IN
           /\ Loads(t, w, a)
           /\ t.own[w][a] = Len(heap) + 1 /\ t.shared[a] = Len(heap) + 1
           /\ t.heap = Append(heap, obj) /\ Len(t.heap) = Len(heap) + 1 /\ t.heap[Len(heap) + 1] = obj
<1> DEFINE n == Len(heap) + 1
<1>1. /\ Append(heap, obj) \in Seq(Object) /\ Len(Append(heap, obj)) = n
      /\ \A i \in Ref : Append(heap, obj)[i] = heap[i]
      /\ Append(heap, obj)[n] = obj /\ Len(heap) \in Nat
  BY AppendProperties DEF Types, Ref
<1> DEFINE t == Insert(w, a, obj)
<1>2. t.heap = Append(heap, obj) /\ t.own = [own EXCEPT ![w][a] = n] /\ t.shared = [shared EXCEPT ![a] = n]
  BY DEF Insert
<1>3. t.own[w][a] = n /\ t.shared[a] = n
  BY <1>2 DEF Types
<1>4. n \in 1..n /\ n \notin Ref /\ n >= Len(heap)
  BY <1>1 DEF Ref
<1> HIDE DEF t, n
<1>5. Loads(t, w, a)
  BY <1>1, <1>2, <1>3, <1>4 DEF Loads
<1>. QED
  BY <1>1, <1>2, <1>3, <1>5 DEF t, n

\* getStateObject prefers the own object, then the shared one, then a new one
\* with what the trie stores.
LEMMA LoadedLoads ==
    ASSUME Types, NEW w \in Workers, NEW a \in Accounts
    PROVE  LET t == Loaded(w, a)
               r == t.own[w][a]
           IN  /\ Loads(t, w, a)
               /\ own[w][a] # Nil => r = own[w][a] /\ t.heap = heap
               /\ r = Nil <=> own[w][a] = Nil /\ shared[a] = Nil /\ trie[a] = Absent
               /\ own[w][a] = Nil /\ shared[a] # Nil => r = shared[a] /\ t.heap = heap
               /\ own[w][a] # Nil \/ shared[a] # Nil => t.shared[a] = shared[a] /\ t.heap = heap
               /\ own[w][a] = Nil /\ shared[a] = Nil /\ trie[a] # Absent =>
                     /\ r = Len(heap) + 1 /\ t.shared[a] = r
                     /\ t.heap = Append(heap, newObject(trie[a])) /\ t.heap[r] = newObject(trie[a])
                     /\ newObject(trie[a]) \in Object
               /\ r = Nil => t.heap = heap /\ t.shared = shared
<1> DEFINE t == Loaded(w, a)
           same == [heap |-> heap, own |-> own, shared |-> shared]
           taken == [heap |-> heap, own |-> [own EXCEPT ![w][a] = shared[a]], shared |-> shared]
<1>0. Nil \notin Nat /\ Len(heap) \in Nat /\ own[w][a] \in Ref \cup {Nil} /\ shared[a] \in Ref \cup {Nil}
  BY NilAssumption DEF Types
<1>1. CASE own[w][a] # Nil \/ (shared[a] = Nil /\ trie[a] = Absent)
  <2>1. t = same
    BY <1>1 DEF Loaded
  <2>2. Loads(same, w, a)
    BY <1>0 DEF Loads, Types, Ref
  <2>. QED
    BY <1>1, <2>1, <2>2
<1>2. CASE own[w][a] = Nil /\ shared[a] # Nil
  <2>1. t = taken
    BY <1>2 DEF Loaded
  <2>2. taken.own[w][a] = shared[a]
    BY DEF Types
  <2>3. Loads(taken, w, a)
    <3>1. /\ taken.own = [own EXCEPT ![w][a] = shared[a]] /\ taken.heap = heap /\ taken.shared = shared
          /\ shared = [shared EXCEPT ![a] = shared[a]]
      BY DEF Types
    <3>2. heap \in Seq(Object) /\ Len(heap) >= Len(heap) /\ shared[a] \in (1..Len(heap)) \cup {Nil}
      BY <1>0 DEF Types, Ref
    <3> HIDE DEF taken
    <3>. QED
      BY <2>2, <3>1, <3>2 DEF Loads
  <2>. QED
    BY <1>2, <2>1, <2>2, <2>3
<1>3. CASE own[w][a] = Nil /\ shared[a] = Nil /\ trie[a] # Absent
  <2>1. newObject(trie[a]) \in Object
    BY <1>3 DEF newObject, Object, Types
  <2>2. t = Insert(w, a, newObject(trie[a]))
    BY <1>3 DEF Loaded
  <2>3. Len(heap) + 1 # Nil
    BY <1>0
  <2>. QED
    BY <1>3, <2>1, <2>2, <2>3, InsertLoads
<1>. QED
  BY <1>1, <1>2, <1>3

\* An account exists for a worker when it is loaded and not deleted.
LEMMA ExistsIs ==
    ASSUME Types, NEW w \in Workers, NEW a \in Accounts
    PROVE  LET t == Loaded(w, a)
               r == t.own[w][a]
           IN  /\ Exists(w, a) <=> r # Nil /\ ~t.heap[r].deleted
               /\ Exists(w, a) => getStateObject(w, a) = t.heap[r] /\ t.heap[r] \in Object
<1> DEFINE t == Loaded(w, a)
           r == t.own[w][a]
<1>1. Loads(t, w, a)
  BY LoadedLoads
<1>2. r # Nil => t.heap[r] \in Object /\ t.heap[r] # Absent
  BY <1>1, AbsentAssumption DEF Loads
<1> HIDE DEF t
<1>. QED
  BY <1>2 DEF Exists, getStateObject, t

\* A call on an account that works with such tables, and may then set the own
\* object, keeps the types and is local to the account.
LEMMA LoadsLocal ==
    ASSUME Types, NEW w \in Workers, NEW a \in Accounts, NEW t, Loads(t, w, a),
           Locks!Grant(w, a), own' = t.own, shared' = t.shared, trie' = trie,
           \/ heap' = t.heap
           \/ t.own[w][a] # Nil /\ \E obj \in Object : heap' = [t.heap EXCEPT ![t.own[w][a]] = obj]
    PROVE  /\ Local(w, a)
           /\ holder' \in [Accounts -> Workers \cup {Free}]
           /\ heap' \in Seq(Object) /\ Len(heap') = Len(t.heap)
           /\ own' \in [Workers -> [Accounts -> (1..Len(heap')) \cup {Nil}]]
           /\ shared' \in [Accounts -> (1..Len(heap')) \cup {Nil}]
           /\ own'[w][a] = t.own[w][a] /\ shared'[a] = t.shared[a]
<1> DEFINE r == t.own[w][a]
<1>0. Nil \notin Nat /\ Len(heap) \in Nat /\ Len(t.heap) \in Nat
  BY NilAssumption DEF Types, Loads
<1>1. /\ heap' \in Seq(Object) /\ Len(heap') = Len(t.heap)
      /\ \A i \in 1..Len(t.heap) : heap'[i] = t.heap[i] \/ i = r
  <2>1. CASE heap' = t.heap
    BY <2>1 DEF Loads
  <2>2. ASSUME NEW obj \in Object, r # Nil, heap' = [t.heap EXCEPT ![r] = obj]
        PROVE  /\ heap' \in Seq(Object) /\ Len(heap') = Len(t.heap)
               /\ \A i \in 1..Len(t.heap) : heap'[i] = t.heap[i] \/ i = r
    <3>1. t.heap \in Seq(Object) /\ r \in 1..Len(t.heap)
      BY <2>2 DEF Loads
    <3>. QED
      BY <2>2, <3>1, ExceptSeq
  <2>. QED
    BY <2>1, <2>2
<1>2. /\ holder' = [holder EXCEPT ![a] = w] /\ holder[a] \in {w, Free}
      /\ holder' \in [Accounts -> Workers \cup {Free}]
  BY DEF Locks!Grant, Types
<1>3. own' = [own EXCEPT ![w][a] = r] /\ shared' = [shared EXCEPT ![a] = t.shared[a]]
  BY DEF Loads
<1>4. r \in (1..Len(heap')) \cup {Nil} /\ t.shared[a] \in (1..Len(heap')) \cup {Nil}
  BY <1>1 DEF Loads
<1>5. Ref \subseteq 1..Len(heap')
  BY <1>0, <1>1 DEF Ref, Loads
<1>6. r \in Ref => r \in {own[w][a], shared[a]}
  BY DEF Loads
<1>7. t.shared[a] \in Ref => t.shared[a] = shared[a]
  BY DEF Loads
<1>8. \A i \in Ref : t.heap[i] = heap[i]
  BY DEF Loads
<1>9. Len(t.heap) >= Len(heap)
  BY DEF Loads
<1> HIDE DEF r
<1>10. /\ own' \in [Workers -> [Accounts -> (1..Len(heap')) \cup {Nil}]]
       /\ own'[w][a] = r /\ \A v \in Workers, b \in Accounts : v # w \/ b # a => own'[v][b] = own[v][b]
  BY <1>3, <1>4, <1>5 DEF Types
<1>11. /\ shared' \in [Accounts -> (1..Len(heap')) \cup {Nil}]
       /\ shared'[a] = t.shared[a] /\ \A b \in Accounts \ {a} : shared'[b] = shared[b]
  BY <1>3, <1>4, <1>5 DEF Types
<1>12. \A i \in Ref : heap'[i] = heap[i] \/ i = r
  BY <1>1, <1>5, <1>8
<1>13. r \in Ref => Used(r, a)
  BY <1>6 DEF Used
<1>14. Local(w, a)
  BY <1>1, <1>2, <1>7, <1>9, <1>10, <1>11, <1>12, <1>13 DEF Local
<1>. QED
  BY <1>1, <1>2, <1>10, <1>11, <1>14 DEF r

\* After a local step the references of the other accounts are what they were,
\* and so are their objects.
LEMMA LocalKeeps ==
    ASSUME Inv, NEW w \in Workers, NEW a \in Accounts, Local(w, a),
           NEW b \in Accounts \ {a}, NEW r \in Ref, Used(r, b)
    PROVE  heap'[r] = heap[r]
<1>1. r = own'[w][a] => Used(r, a)
  BY DEF Local
<1>2. ~Used(r, a)
  BY DEF Inv, Distinct
<1>. QED
  BY <1>1, <1>2 DEF Local

\* What a worker reads of an account: of the object it reaches, or else of the
\* trie.
Reach(w, a) == IF own[w][a] # Nil THEN own[w][a] ELSE shared[a]

Reads(w, a) ==
    /\ Exists(w, a) <=> IF Reach(w, a) = Nil THEN trie[a] # Absent ELSE ~heap[Reach(w, a)].deleted
    /\ Reach(w, a) = Nil => View(w, a) = StoredView(a)
    /\ Reach(w, a) # Nil =>
          View(w, a) = IF heap[Reach(w, a)].deleted THEN Absent
                       ELSE [data |-> heap[Reach(w, a)].data, suicided |-> heap[Reach(w, a)].suicided]

\* getStateObject returns the object that is reached.
LEMMA ViewIs == Types => \A w \in Workers, a \in Accounts : Reads(w, a)
<1> SUFFICES ASSUME Types, NEW w \in Workers, NEW a \in Accounts PROVE Reads(w, a)
  OBVIOUS
<1> DEFINE t == Loaded(w, a)
           r == t.own[w][a]
<1>1. CASE own[w][a] = Nil /\ shared[a] = Nil /\ trie[a] = Absent
  <2>1. r = Nil
    BY <1>1, LoadedLoads
  <2>2. ~Exists(w, a)
    BY <2>1, ExistsIs
  <2>. QED
    BY <1>1, <2>2 DEF View, StoredView, Reads, Reach
<1>2. CASE own[w][a] = Nil /\ shared[a] = Nil /\ trie[a] # Absent
  <2>1. r = Len(heap) + 1 /\ t.heap[r] = newObject(trie[a])
    BY <1>2, LoadedLoads
  <2>2. r # Nil
    BY <2>1, NilAssumption DEF Types
  <2>3. Exists(w, a) /\ getStateObject(w, a) = newObject(trie[a])
    BY <2>1, <2>2, ExistsIs DEF newObject
  <2>. QED
    BY <1>2, <2>3 DEF View, StoredView, newObject, Reads, Reach
<1>3. CASE own[w][a] # Nil \/ shared[a] # Nil
  <2>1. r = Reach(w, a) /\ t.heap = heap /\ r # Nil
    BY <1>3, LoadedLoads DEF Reach
  <2>2. Exists(w, a) <=> ~heap[r].deleted
    BY <2>1, ExistsIs
  <2>3. Exists(w, a) => getStateObject(w, a) = heap[r]
    BY <2>1, ExistsIs
  <2>. QED
    BY <2>1, <2>2, <2>3 DEF View, Reads
<1>. QED
  BY <1>1, <1>2, <1>3

\* The same in the next state.
LEMMA ViewIsNext == Types' => (\A w \in Workers, a \in Accounts : Reads(w, a))'
  BY ViewIs, PTL

\* What a worker reads of an account depends on its references, its objects and
\* the trie.
LEMMA ViewKept ==
    ASSUME Types, Types', NEW v \in Workers, NEW b \in Accounts,
           own'[v][b] = own[v][b], shared'[b] = shared[b], trie'[b] = trie[b],
           \A r \in Ref : Used(r, b) => heap'[r] = heap[r]
    PROVE  View(v, b)' = View(v, b) /\ StoredView(b)' = StoredView(b)
<1> DEFINE r == Reach(v, b)
<1>1. Reads(v, b) /\ Reads(v, b)'
  BY ViewIs, ViewIsNext
<1>2. r' = r /\ r \in Ref \cup {Nil} /\ r \in {own[v][b], shared[b]}
  BY DEF Reach, Types
<1>3. StoredView(b)' = StoredView(b)
  BY DEF StoredView
<1>4. CASE r = Nil
  BY <1>1, <1>2, <1>3, <1>4 DEF Reads
<1>5. CASE r # Nil
  <2>1. heap'[r] = heap[r]
    BY <1>2, <1>5 DEF Used
  <2>. QED
    BY <1>1, <1>2, <1>3, <1>5, <2>1 DEF Reads
<1>. QED
  BY <1>4, <1>5

-----------------------------------------------------------------------------
\* A local step that brings no reference of another account keeps the objects of
\* the accounts apart.
LEMMA DistinctStep ==
    ASSUME Inv, Types', NEW w \in Workers, NEW a \in Accounts, Local(w, a),
           \A v \in Workers : \A i \in 1..Len(journal'[v]) :
              LET e == journal'[v][i] IN
              e.kind = "reset" =>
                 \/ e.account = a /\ (e.prev \in Ref => Used(e.prev, a))
                 \/ \E j \in 1..Len(journal[v]) : journal[v][j] = e
    PROVE  Distinct'
<1>0. Types
  BY DEF Inv
<1>1. ASSUME NEW b \in Accounts \ {a}, NEW r \in Ref', Used(r, b)' PROVE Used(r, b)
  <2>1. CASE shared'[b] = r \/ \E v \in Workers : own'[v][b] = r
    BY <2>1 DEF Used, Local
  <2>2. ASSUME NEW v \in Workers, NEW i \in 1..Len(journal'[v]), journal'[v][i].kind = "reset",
               journal'[v][i].account = b, journal'[v][i].prev = r
        PROVE  Used(r, b)
    <3>1. \E j \in 1..Len(journal[v]) : journal[v][j] = journal'[v][i]
      BY <2>2
    <3>. QED
      BY <2>2, <3>1 DEF Used
  <2>. QED
    BY <1>1, <2>1, <2>2 DEF Used
<1>2. ASSUME NEW b \in Accounts \ {a}, NEW r, Used(r, b), r # Nil PROVE r \in Ref
  <2>1. CASE shared[b] = r \/ \E v \in Workers : own[v][b] = r
    BY <1>0, <1>2, <2>1 DEF Types
  <2>2. ASSUME NEW v \in Workers, NEW i \in 1..Len(journal[v]), journal[v][i].kind = "reset",
               journal[v][i].account = b, journal[v][i].prev = r
        PROVE  r \in Ref
    BY <2>2 DEF Inv, JournalInv
  <2>. QED
    BY <1>2, <2>1, <2>2 DEF Used
<1>3. ASSUME NEW r \in Ref, Used(r, a)' PROVE Used(r, a)
  <2>1. CASE shared'[a] = r \/ \E v \in Workers : own'[v][a] = r
    BY <1>3, <2>1, SMTT(60) DEF Used, Local
  <2>2. ASSUME NEW v \in Workers, NEW i \in 1..Len(journal'[v]), journal'[v][i].kind = "reset",
               journal'[v][i].account = a, journal'[v][i].prev = r
        PROVE  Used(r, a)
    <3>1. Used(r, a) \/ \E j \in 1..Len(journal[v]) : journal[v][j] = journal'[v][i]
      BY <1>3, <2>2
    <3>. QED
      BY <2>2, <3>1 DEF Used
  <2>. QED
    BY <1>3, <2>1, <2>2 DEF Used
<1>4. \A r \in Ref' : r # Nil
  BY NilAssumption DEF Ref, Types
<1>5. ASSUME NEW b \in Accounts, NEW d \in Accounts, NEW r \in Ref', Used(r, b)', Used(r, d)' PROVE b = d
  <2>1. CASE b # a /\ d # a
    BY <1>1, <1>2, <1>4, <1>5, <2>1 DEF Inv, Distinct
  <2>2. CASE b = a /\ d # a
    BY <1>1, <1>2, <1>3, <1>4, <1>5, <2>2 DEF Inv, Distinct
  <2>3. CASE b # a /\ d = a
    BY <1>1, <1>2, <1>3, <1>4, <1>5, <2>3 DEF Inv, Distinct
  <2>. QED
    BY <2>1, <2>2, <2>3
<1>. QED
  BY <1>5 DEF Distinct

\* The journal of the worker grows by entries of the account.
LEMMA JournalGrows ==
    ASSUME Inv, NEW w \in Workers, NEW a \in Accounts, Local(w, a),
           NEW new \in Seq(Entry), journal' = [journal EXCEPT ![w] = journal[w] \o new],
           holder' \in [Accounts -> Workers \cup {Free}],
           heap' \in Seq(Object),
           own' \in [Workers -> [Accounts -> (1..Len(heap')) \cup {Nil}]],
           shared' \in [Accounts -> (1..Len(heap')) \cup {Nil}],
           phase[w] = "running", phase' = phase, begun' = begun,
           \A i \in 1..Len(new) :
              /\ new[i].account = a
              /\ new[i].kind = "reset" =>
                    new[i].prev \in Ref' /\ ~heap'[new[i].prev].deleted /\ (new[i].prev \in Ref => Used(new[i].prev, a))
              /\ new[i].kind = "create" => i = 1 /\ \A j \in 1..Len(journal[w]) : journal[w][j].account # a,
           new # << >> \/ (\E i \in 1..Len(journal[w]) : journal[w][i].account = a) =>
              own'[w][a] # Nil /\ ~heap'[own'[w][a]].deleted
    PROVE  Inv'
<1> DEFINE q == journal[w]
           n == Len(q)
<1>0. Types /\ q \in Seq(Entry) /\ n \in Nat /\ Len(new) \in Nat
  BY DEF Inv, Types
<1>1. /\ q \o new \in Seq(Entry) /\ Len(q \o new) = n + Len(new)
      /\ \A i \in 1..n + Len(new) : (q \o new)[i] = IF i <= n THEN q[i] ELSE new[i - n]
  BY <1>0, ConcatProperties
<1>2. /\ journal' \in [Workers -> Seq(Entry)]
      /\ journal'[w] = q \o new /\ \A v \in Workers \ {w} : journal'[v] = journal[v]
  BY <1>0, <1>1 DEF Types
<1>3. /\ Len(journal'[w]) = n + Len(new)
      /\ \A i \in 1..n : journal'[w][i] = journal[w][i]
      /\ \A i \in n + 1..n + Len(new) : journal'[w][i] = new[i - n] /\ i - n \in 1..Len(new)
  BY <1>0, <1>1, <1>2
<1>4. Types'
  BY <1>0, <1>2 DEF Types, Ref, Local
<1>5. \A i \in 1..Len(journal'[w]) : i \in 1..n \/ i \in n + 1..n + Len(new)
  BY <1>0, <1>3
<1> HIDE DEF n, q
<1>6. Distinct'
  <2>1. \A i \in 1..Len(journal'[w]) :
           LET e == journal'[w][i] IN
           e.kind = "reset" =>
              \/ e.account = a /\ (e.prev \in Ref => Used(e.prev, a))
              \/ \E j \in 1..Len(journal[w]) : journal[w][j] = e
    BY <1>3, <1>5 DEF n, q
  <2>2. \A v \in Workers \ {w} : \A i \in 1..Len(journal'[v]) :
           LET e == journal'[v][i] IN \E j \in 1..Len(journal[v]) : journal[v][j] = e
    BY <1>2
  <2>3. \A v \in Workers : \A i \in 1..Len(journal'[v]) :
           LET e == journal'[v][i] IN
           e.kind = "reset" =>
              \/ e.account = a /\ (e.prev \in Ref => Used(e.prev, a))
              \/ \E j \in 1..Len(journal[v]) : journal[v][j] = e
    BY <2>1, <2>2
  <2>. QED
    BY <1>4, <2>3, DistinctStep
<1>7. Ref \subseteq Ref' /\ Nil \notin Ref
  BY <1>0, NilAssumption DEF Local, Ref, Types
<1>8. \A b \in Accounts : b # a => holder'[b] = holder[b]
  BY <1>0 DEF Local, Types
<1>9. holder'[a] = w
  BY <1>0 DEF Local, Types
<1>10. ASSUME NEW v \in Workers, NEW i \in 1..Len(journal[v]), journal[v][i].account # a
       PROVE  LET e == journal[v][i] IN
              /\ holder'[e.account] = v
              /\ own'[v][e.account] # Nil /\ ~heap'[own'[v][e.account]].deleted
              /\ e.kind = "reset" => e.prev \in Ref' /\ ~heap'[e.prev].deleted
  <2> DEFINE e == journal[v][i]
             b == e.account
  <2>1. e \in Entry /\ b \in Accounts \ {a}
    BY <1>0, <1>10 DEF Types, Entry
  <2>2. holder[b] = v /\ own[v][b] # Nil /\ ~heap[own[v][b]].deleted /\ (e.kind = "reset" => e.prev \in Ref /\ ~heap[e.prev].deleted)
    BY DEF Inv, JournalInv
  <2>3. own[v][b] \in Ref /\ Used(own[v][b], b) /\ own'[v][b] = own[v][b]
    BY <1>0, <2>1, <2>2, SMTT(60) DEF Used, Types, Local
  <2>4. e.kind = "reset" => Used(e.prev, b)
    BY DEF Used
  <2> HIDE DEF b, e
  <2>5. heap'[own[v][b]] = heap[own[v][b]] /\ (e.kind = "reset" => heap'[e.prev] = heap[e.prev])
    BY <2>1, <2>2, <2>3, <2>4, LocalKeeps
  <2>. QED
    BY <1>7, <1>8, <2>1, <2>2, <2>3, <2>5 DEF e, b
<1>11. ASSUME NEW i \in 1..n, journal[w][i].account = a
       PROVE  LET e == journal[w][i] IN
              /\ own'[w][a] # Nil /\ ~heap'[own'[w][a]].deleted
              /\ e.kind = "reset" => e.prev \in Ref' /\ ~heap'[e.prev].deleted
  <2>1. own'[w][a] # Nil /\ ~heap'[own'[w][a]].deleted
    BY <1>11 DEF n, q
  <2>2. journal[w][i].kind = "reset" => journal[w][i].prev \in Ref /\ ~heap[journal[w][i].prev].deleted
    BY <1>11 DEF Inv, JournalInv, n, q
  <2>3. \A r \in Ref : heap'[r] = heap[r] \/ r = own'[w][a]
    BY DEF Local
  <2>. QED
    BY <1>7, <2>1, <2>2, <2>3
<1>12. ASSUME NEW v \in Workers \ {w}, NEW i \in 1..Len(journal[v]) PROVE journal[v][i].account # a
  <2>1. holder[journal[v][i].account] = v
    BY DEF Inv, JournalInv
  <2>2. holder[a] \in {w, Free} /\ Free \notin Workers
    BY NilAssumption DEF Local
  <2>. QED
    BY <2>1, <2>2
<1>13. ASSUME NEW v \in Workers, NEW i \in 1..Len(journal'[v])
       PROVE  LET e == journal'[v][i] IN
              /\ holder'[e.account] = v
              /\ own'[v][e.account] # Nil /\ ~heap'[own'[v][e.account]].deleted
              /\ e.kind = "reset" => e.prev \in Ref' /\ ~heap'[e.prev].deleted
              /\ e.kind = "create" => \A j \in 1..i - 1 : journal'[v][j].account # e.account
  <2>1. CASE v # w
    <3>1. journal'[v] = journal[v]
      BY <1>2, <2>1
    <3>2. journal[v][i].kind = "create" => \A j \in 1..i - 1 : journal[v][j].account # journal[v][i].account
      BY <3>1, ZenonT(90) DEF Inv, JournalInv
    <3>. QED
      BY <1>10, <1>12, <2>1, <3>1, <3>2
  <2>2. CASE v = w /\ i \in 1..n
    <3>1. journal'[v][i] = journal[v][i] /\ \A j \in 1..i - 1 : j \in 1..n /\ journal'[v][j] = journal[v][j]
      BY <1>0, <1>3, <2>2
    <3>2. journal[v][i].kind = "create" => \A j \in 1..i - 1 : journal[v][j].account # journal[v][i].account
      BY <2>2 DEF Inv, JournalInv, n, q
    <3>3. i \in 1..Len(journal[v])
      BY <2>2 DEF n, q
    <3>4. CASE journal[v][i].account = a
      <4> DEFINE e == journal'[v][i]
      <4>1. e = journal[w][i] /\ e.account = a /\ v = w /\ i \in 1..n
        BY <2>2, <3>1, <3>4
      <4>2. /\ own'[w][a] # Nil /\ ~heap'[own'[w][a]].deleted
            /\ journal[w][i].kind = "reset" => journal[w][i].prev \in Ref' /\ ~heap'[journal[w][i].prev].deleted
        BY <1>11, <4>1
      <4>3. e.kind = "create" => \A j \in 1..i - 1 : journal'[v][j].account # e.account
        BY <3>1, <3>2, <4>1
      <4> HIDE DEF e
      <4>4. /\ holder'[e.account] = v
            /\ own'[v][e.account] # Nil /\ ~heap'[own'[v][e.account]].deleted
            /\ e.kind = "reset" => e.prev \in Ref' /\ ~heap'[e.prev].deleted
        BY <1>9, <4>1, <4>2
      <4>. QED
        BY <4>3, <4>4 DEF e
    <3>5. CASE journal[v][i].account # a
      <4> DEFINE e == journal'[v][i]
      <4>1. e = journal[v][i] /\ e.account # a /\ i \in 1..Len(journal[v])
        BY <3>1, <3>3, <3>5
      <4>2. e.kind = "create" => \A j \in 1..i - 1 : journal'[v][j].account # e.account
        BY <2>2, <3>1, <3>2, <4>1
      <4> HIDE DEF e
      <4>3. /\ holder'[e.account] = v
            /\ own'[v][e.account] # Nil /\ ~heap'[own'[v][e.account]].deleted
            /\ e.kind = "reset" => e.prev \in Ref' /\ ~heap'[e.prev].deleted
        BY <1>10, <4>1
      <4>. QED
        BY <4>2, <4>3 DEF e
    <3>. QED
      BY <3>4, <3>5
  <2>3. CASE v = w /\ i \in n + 1..n + Len(new)
    <3>1. journal'[v][i] = new[i - n] /\ i - n \in 1..Len(new) /\ new # << >>
      BY <1>0, <1>3, <2>3
    <3>2. i - n = 1 => \A j \in 1..i - 1 : j \in 1..n /\ journal'[v][j] = journal[w][j]
      BY <1>0, <1>3, <2>3
    <3>3. new[i - n].kind = "create" => \A j \in 1..i - 1 : journal'[v][j].account # a
      BY <3>1, <3>2 DEF n, q
    <3>. QED
      BY <1>9, <2>3, <3>1, <3>3, ZenonT(90)
  <2>. QED
    BY <1>5, <2>1, <2>2, <2>3
<1>14. JournalInv'
  BY <1>13 DEF JournalInv
<1>15. PhaseInv'
  BY <1>2 DEF Inv, PhaseInv
<1>. QED
  BY <1>4, <1>6, <1>14, <1>15 DEF Inv

-----------------------------------------------------------------------------
\* An account whose changes are journaled has an object that is not deleted.
LEMMA JournaledExists ==
    ASSUME Inv, NEW w \in Workers, NEW a \in Accounts, NEW i \in 1..Len(journal[w]),
           journal[w][i].account = a
    PROVE  own[w][a] # Nil /\ Exists(w, a)
<1>1. own[w][a] # Nil /\ ~heap[own[w][a]].deleted /\ Types
  BY DEF Inv, JournalInv
<1>2. Reads(w, a) /\ Reach(w, a) = own[w][a]
  BY <1>1, ViewIs DEF Reach
<1>. QED
  BY <1>1, <1>2 DEF Reads

\* The getters leave the journal alone.
LEMMA ReadStep ==
    ASSUME Inv, NEW w \in Workers, NEW a \in Accounts, Read(w, a)
    PROVE  Inv' /\ Local(w, a)
<1> DEFINE t == Loaded(w, a)
<1>1. Types /\ Loads(t, w, a) /\ (own[w][a] # Nil => t.own[w][a] = own[w][a] /\ t.heap = heap)
  BY LoadedLoads DEF Inv
<1>2. /\ Locks!Grant(w, a) /\ own' = t.own /\ shared' = t.shared /\ heap' = t.heap /\ trie' = trie
      /\ phase[w] = "running" /\ UNCHANGED <<journal, phase, begun>>
  BY DEF Read, requestAndLock, Put
<1> HIDE DEF t
<1>3. /\ Local(w, a) /\ own'[w][a] = t.own[w][a]
      /\ holder' \in [Accounts -> Workers \cup {Free}]
      /\ heap' \in Seq(Object)
      /\ own' \in [Workers -> [Accounts -> (1..Len(heap')) \cup {Nil}]]
      /\ shared' \in [Accounts -> (1..Len(heap')) \cup {Nil}]
  BY <1>1, <1>2, LoadsLocal
<1>4. << >> \in Seq(Entry) /\ journal' = [journal EXCEPT ![w] = journal[w] \o << >>]
  <2>1. journal[w] \in Seq(Entry)
    BY <1>1 DEF Types
  <2>2. journal[w] \o << >> = journal[w]
    BY <2>1, ConcatEmptySeq
  <2>. QED
    BY <1>1, <1>2, <2>2 DEF Types
<1>5. (\E i \in 1..Len(journal[w]) : journal[w][i].account = a) =>
         own'[w][a] # Nil /\ ~heap'[own'[w][a]].deleted
  BY <1>1, <1>2, <1>3, SMTT(60) DEF Inv, JournalInv
<1>6. Len(<< >>) = 0 /\ \A i \in 1..Len(<< >>) : FALSE
  OBVIOUS
<1> DEFINE new == << >>
<1>7. /\ new \in Seq(Entry) /\ journal' = [journal EXCEPT ![w] = journal[w] \o new]
      /\ \A i \in 1..Len(new) : FALSE
      /\ new # << >> \/ (\E i \in 1..Len(journal[w]) : journal[w][i].account = a) =>
            own'[w][a] # Nil /\ ~heap'[own'[w][a]].deleted
  BY <1>4, <1>5, <1>6
<1> HIDE DEF new
<1>8. \A i \in 1..Len(new) :
         /\ new[i].account = a
         /\ new[i].kind = "reset" =>
               new[i].prev \in Ref' /\ ~heap'[new[i].prev].deleted /\ (new[i].prev \in Ref => Used(new[i].prev, a))
         /\ new[i].kind = "create" => i = 1 /\ \A j \in 1..Len(journal[w]) : journal[w][j].account # a
  BY <1>7
<1>9. Inv'
  BY <1>2, <1>3, <1>7, <1>8, JournalGrows
<1>. QED
  BY <1>3, <1>9

(* The tables a setter works with, and the entry of the creation           *)
Target(w, a) == IF Exists(w, a) THEN Loaded(w, a) ELSE Insert(w, a, newObject(NewAccount))

Created(w, a) == IF Exists(w, a) THEN << >> ELSE <<[kind |-> "create", account |-> a]>>

\* A new account is one of the accounts and its object is not deleted.
LEMMA NewIsObject ==
    /\ NewAccount \in Account /\ newObject(NewAccount) \in Object
    /\ ~newObject(NewAccount).deleted /\ ~newObject(NewAccount).suicided
    /\ newObject(NewAccount).data = NewAccount
  BY FieldsAssumption DEF NewAccount, newObject, Account, Object

\* A setter finds or creates an object that is not deleted.
LEMMA TargetLoads ==
    ASSUME Types, NEW w \in Workers, NEW a \in Accounts
    PROVE  LET t == Target(w, a)
               r == t.own[w][a]
           IN  /\ Loads(t, w, a) /\ r \in 1..Len(t.heap) /\ r # Nil
               /\ OrNew(w, a) = t.heap[r] /\ OrNew(w, a) \in Object /\ ~OrNew(w, a).deleted
               /\ ~Exists(w, a) => r = Len(heap) + 1 /\ t.shared[a] = r /\ OrNew(w, a) = newObject(NewAccount)
<1> DEFINE t == Target(w, a)
           r == t.own[w][a]
<1>1. CASE Exists(w, a)
  <2>1. t = Loaded(w, a) /\ Loads(t, w, a) /\ r # Nil /\ ~t.heap[r].deleted
    BY <1>1, LoadedLoads, ExistsIs DEF Target
  <2>2. OrNew(w, a) = t.heap[r] /\ OrNew(w, a) \in Object
    BY <1>1, <2>1, ExistsIs DEF OrNew
  <2>3. r \in 1..Len(t.heap)
    BY <2>1 DEF Loads
  <2>. QED
    BY <1>1, <2>1, <2>2, <2>3
<1>2. CASE ~Exists(w, a)
  <2> DEFINE x == newObject(NewAccount)
  <2>1. t = Insert(w, a, x) /\ OrNew(w, a) = x /\ x \in Object /\ ~x.deleted
    BY <1>2, NewIsObject DEF Target, OrNew
  <2>2. /\ Loads(t, w, a) /\ r = Len(heap) + 1 /\ t.shared[a] = r
        /\ Len(t.heap) = Len(heap) + 1 /\ t.heap[r] = x
    BY <2>1, InsertLoads
  <2>3. r # Nil /\ r \in 1..Len(t.heap)
    BY <2>2, NilAssumption DEF Types
  <2> HIDE DEF t, x
  <2>. QED
    BY <1>2, <2>1, <2>2, <2>3 DEF t, x
<1>. QED
  BY <1>1, <1>2

(* What a setter does to the object and the journal                        *)
Changes(w, a, entry, obj) ==
    /\ own'[w][a] = Target(w, a).own[w][a] /\ shared'[a] = Target(w, a).shared[a]
    /\ heap' = [Target(w, a).heap EXCEPT ![own'[w][a]] = obj] /\ heap'[own'[w][a]] = obj
    /\ journal' = [journal EXCEPT ![w] = journal[w] \o (Created(w, a) \o <<entry>>)]
    /\ Created(w, a) \o <<entry>> \in Seq(Entry)
    /\ phase' = phase

\* GetOrNewStateObject and a setter: the creation and the change are journaled
\* on the object the worker then has.
LEMMA ChangeStep ==
    ASSUME Inv, NEW w \in Workers, NEW a \in Accounts, NEW entry \in Entry, NEW obj \in Object,
           requestAndLock(w, a), Change(w, a, entry, obj),
           entry.account = a, entry.kind \in {"balance", "nonce", "suicide"}, ~obj.deleted
    PROVE  Inv' /\ Local(w, a) /\ Changes(w, a, entry, obj)
<1> DEFINE t == Target(w, a)
           r == t.own[w][a]
           c == [kind |-> "create", account |-> a]
           new == Created(w, a) \o <<entry>>
<1>1. Types /\ Loads(t, w, a) /\ r # Nil /\ r \in 1..Len(t.heap)
  BY TargetLoads DEF Inv
<1>2. /\ Locks!Grant(w, a) /\ own' = t.own /\ shared' = t.shared /\ heap' = [t.heap EXCEPT ![r] = obj]
      /\ phase[w] = "running" /\ UNCHANGED <<trie, phase, begun>>
      /\ journal' = [journal EXCEPT ![w] = (journal[w] \o Created(w, a)) \o <<entry>>]
  <2>1. /\ Locks!Grant(w, a) /\ own' = t.own /\ shared' = t.shared /\ heap' = [t.heap EXCEPT ![r] = obj]
        /\ phase[w] = "running" /\ UNCHANGED <<trie, phase, begun>>
    BY DEF requestAndLock, Change, Put, Target, Insert, Loaded
  <2>2. journal' = [journal EXCEPT ![w] = (@ \o Created(w, a)) \o <<entry>>]
    BY DEF Change, Created
  <2>. QED
    BY <1>1, <2>1, <2>2 DEF Types
<1>3. /\ Created(w, a) \in Seq(Entry) /\ <<entry>> \in Seq(Entry) /\ journal[w] \in Seq(Entry)
      /\ Len(<<entry>>) = 1 /\ <<entry>>[1] = entry
      /\ Len(Created(w, a)) = IF Exists(w, a) THEN 0 ELSE 1
      /\ ~Exists(w, a) => Created(w, a)[1] = c
  <2>1. c \in Entry
    BY DEF Entry
  <2>. QED
    BY <1>1, <2>1 DEF Created, Types
<1>4. (journal[w] \o Created(w, a)) \o <<entry>> = journal[w] \o new
  <2>1. \A s, u, v \in Seq(Entry) : (s \o u) \o v = s \o (u \o v)
    BY ConcatAssociative
  <2> HIDE DEF new
  <2>2. (journal[w] \o Created(w, a)) \o <<entry>> = journal[w] \o (Created(w, a) \o <<entry>>)
    BY <1>3, <2>1
  <2>. QED
    BY <2>2 DEF new
<1>5. /\ new \in Seq(Entry) /\ Len(new) = IF Exists(w, a) THEN 1 ELSE 2
      /\ Exists(w, a) => new[1] = entry
      /\ ~Exists(w, a) => new[1] = c /\ new[2] = entry
  <2>1. /\ new \in Seq(Entry) /\ Len(new) = Len(Created(w, a)) + 1
        /\ \A i \in 1..Len(Created(w, a)) + 1 :
              new[i] = IF i <= Len(Created(w, a)) THEN Created(w, a)[i] ELSE <<entry>>[i - Len(Created(w, a))]
    BY <1>3, ConcatProperties
  <2> HIDE DEF new
  <2>. QED
    BY <1>3, <2>1
<1>6. /\ Local(w, a) /\ own'[w][a] = r /\ shared'[a] = t.shared[a] /\ Len(heap') = Len(t.heap)
      /\ holder' \in [Accounts -> Workers \cup {Free}]
      /\ heap' \in Seq(Object)
      /\ own' \in [Workers -> [Accounts -> (1..Len(heap')) \cup {Nil}]]
      /\ shared' \in [Accounts -> (1..Len(heap')) \cup {Nil}]
  BY <1>1, <1>2, LoadsLocal
<1>7. heap'[r] = obj
  BY <1>1, <1>2 DEF Loads
<1> HIDE DEF new
<1>8. \A i \in 1..Len(new) :
         /\ new[i].account = a /\ new[i].kind # "reset"
         /\ new[i].kind = "create" => i = 1 /\ ~Exists(w, a)
  BY <1>5
<1>9. ~Exists(w, a) => \A j \in 1..Len(journal[w]) : journal[w][j].account # a
  BY JournaledExists
<1>10. journal' = [journal EXCEPT ![w] = journal[w] \o new]
  BY <1>2, <1>4
<1> HIDE DEF t, r
<1>11. Inv'
  <2>1. \A i \in 1..Len(new) :
           /\ new[i].account = a
           /\ new[i].kind = "reset" =>
                 new[i].prev \in Ref' /\ ~heap'[new[i].prev].deleted /\ (new[i].prev \in Ref => Used(new[i].prev, a))
           /\ new[i].kind = "create" => i = 1 /\ \A j \in 1..Len(journal[w]) : journal[w][j].account # a
    BY <1>8, <1>9
  <2>2. own'[w][a] # Nil /\ ~heap'[own'[w][a]].deleted
    BY <1>1, <1>6, <1>7
  <2>3. new \in Seq(Entry) /\ phase[w] = "running" /\ phase' = phase /\ begun' = begun
    BY <1>2, <1>5
  <2>. QED
    BY <1>6, <1>10, <2>1, <2>2, <2>3, JournalGrows
<1>. QED
  <2>1. Changes(w, a, entry, obj)
    BY <1>2, <1>5, <1>6, <1>7, <1>10 DEF new, t, r, Changes
  <2>. QED
    BY <1>6, <1>11, <2>1

(* Entries of the account are added to the journal of the worker.          *)
Adds(w, a) ==
    /\ phase' = phase
    /\ \E entry \in Entry :
          /\ entry.account = a
          /\ journal' = [journal EXCEPT ![w] = journal[w] \o (Created(w, a) \o <<entry>>)]

\* SetBalance and SetNonce journal the value they change.
LEMMA SettersStep ==
    ASSUME Inv, NEW w \in Workers, NEW a \in Accounts,
           (\E b \in Balances : SetBalance(w, a, b)) \/ (\E n \in Nonces : SetNonce(w, a, n))
    PROVE  Inv' /\ Local(w, a) /\ Adds(w, a)
<1>1. OrNew(w, a) \in Object /\ ~OrNew(w, a).deleted
  BY TargetLoads DEF Inv
<1>2. ASSUME NEW b \in Balances, SetBalance(w, a, b) PROVE Inv' /\ Local(w, a) /\ Adds(w, a)
  <2> DEFINE e == [kind |-> "balance", account |-> a, prev |-> OrNew(w, a).data.balance]
             x == [OrNew(w, a) EXCEPT !.data.balance = b]
  <2>1. e \in Entry /\ x \in Object /\ ~x.deleted /\ e.account = a /\ e.kind = "balance"
    BY <1>1 DEF Entry, Object, Account
  <2>2. requestAndLock(w, a) /\ Change(w, a, e, x)
    BY <1>2 DEF SetBalance
  <2> HIDE DEF e, x
  <2>3. Inv' /\ Local(w, a) /\ Changes(w, a, e, x)
    BY <2>1, <2>2, ChangeStep
  <2>. QED
    BY <2>1, <2>3 DEF Changes, Adds
<1>3. ASSUME NEW n \in Nonces, SetNonce(w, a, n) PROVE Inv' /\ Local(w, a) /\ Adds(w, a)
  <2> DEFINE e == [kind |-> "nonce", account |-> a, prev |-> OrNew(w, a).data.nonce]
             x == [OrNew(w, a) EXCEPT !.data.nonce = n]
  <2>1. e \in Entry /\ x \in Object /\ ~x.deleted /\ e.account = a /\ e.kind = "nonce"
    BY <1>1 DEF Entry, Object, Account
  <2>2. requestAndLock(w, a) /\ Change(w, a, e, x)
    BY <1>3 DEF SetNonce
  <2> HIDE DEF e, x
  <2>3. Inv' /\ Local(w, a) /\ Changes(w, a, e, x)
    BY <2>1, <2>2, ChangeStep
  <2>. QED
    BY <2>1, <2>3 DEF Changes, Adds
<1>. QED
  BY <1>2, <1>3

\* Suicide journals the flag and the balance it changes.
LEMMA SuicideStep ==
    ASSUME Inv, NEW w \in Workers, NEW a \in Accounts, Suicide(w, a)
    PROVE  Inv' /\ Local(w, a) /\ Adds(w, a)
<1> DEFINE o == getStateObject(w, a)
           e == [kind |-> "suicide", account |-> a, prev |-> o.suicided, prevbalance |-> o.data.balance]
           x == [o EXCEPT !.suicided = TRUE, !.data.balance = 0]
<1>1. o \in Object /\ ~o.deleted
  BY ExistsIs DEF Inv, Suicide
<1>2. e \in Entry /\ x \in Object /\ ~x.deleted /\ e.account = a /\ e.kind = "suicide"
  BY <1>1, FieldsAssumption DEF Entry, Object, Account
<1>3. requestAndLock(w, a) /\ Change(w, a, e, x)
  BY DEF Suicide
<1> HIDE DEF e, x
<1>4. Inv' /\ Local(w, a) /\ Changes(w, a, e, x)
  BY <1>2, <1>3, ChangeStep
<1>. QED
  BY <1>2, <1>4 DEF Changes, Adds

\* createObject without an account: its entry is the first one of the account.
LEMMA CreateNewStep ==
    ASSUME Inv, NEW w \in Workers, NEW a \in Accounts, CreateNew(w, a)
    PROVE  Inv' /\ Local(w, a)
<1> DEFINE x == newObject(NewAccount)
           t == Insert(w, a, x)
           e == [kind |-> "create", account |-> a]
           new == <<e>>
           n == Len(heap) + 1
<1>1. Types /\ Len(heap) \in Nat /\ journal[w] \in Seq(Entry) /\ x \in Object /\ ~x.deleted
  BY NewIsObject DEF Inv, Types
<1>2. Loads(t, w, a) /\ t.own[w][a] = n /\ t.heap[n] = x
  BY <1>1, InsertLoads
<1>3. e \in Entry /\ new \in Seq(Entry) /\ Append(journal[w], e) = journal[w] \o new
  <2>1. e \in Entry
    BY DEF Entry
  <2>2. \A s \in Seq(Entry), y \in Entry : Append(s, y) = s \o <<y>>
    BY AppendIsConcat
  <2>. QED
    BY <1>1, <2>1, <2>2
<1>4. /\ Locks!Grant(w, a) /\ own' = t.own /\ shared' = t.shared /\ heap' = t.heap
      /\ phase[w] = "running" /\ UNCHANGED <<trie, phase, begun>> /\ ~Exists(w, a)
      /\ journal' = [journal EXCEPT ![w] = journal[w] \o new]
  <2>1. journal' = [journal EXCEPT ![w] = Append(journal[w], e)]
    BY <1>1 DEF CreateNew, Types
  <2>. QED
    BY <1>3, <2>1 DEF CreateNew, requestAndLock, Put
<1>5. n # Nil
  BY <1>1, NilAssumption
<1>6. Len(new) = 1 /\ new[1].kind = "create" /\ new[1].account = a
  OBVIOUS
<1> HIDE DEF x, t, e, new, n
<1>7. /\ Local(w, a) /\ own'[w][a] = n
      /\ holder' \in [Accounts -> Workers \cup {Free}]
      /\ heap' \in Seq(Object)
      /\ own' \in [Workers -> [Accounts -> (1..Len(heap')) \cup {Nil}]]
      /\ shared' \in [Accounts -> (1..Len(heap')) \cup {Nil}]
  BY <1>1, <1>2, <1>4, LoadsLocal
<1>8. \A j \in 1..Len(journal[w]) : journal[w][j].account # a
  BY <1>4, JournaledExists
<1>9. \A i \in 1..Len(new) :
         /\ new[i].account = a
         /\ new[i].kind = "reset" =>
               new[i].prev \in Ref' /\ ~heap'[new[i].prev].deleted /\ (new[i].prev \in Ref => Used(new[i].prev, a))
         /\ new[i].kind = "create" => i = 1 /\ \A j \in 1..Len(journal[w]) : journal[w][j].account # a
  BY <1>6, <1>8
<1>10. own'[w][a] # Nil /\ ~heap'[own'[w][a]].deleted
  BY <1>1, <1>2, <1>4, <1>5, <1>7
<1>11. Inv'
  BY <1>3, <1>4, <1>7, <1>9, <1>10, JournalGrows
<1>. QED
  BY <1>7, <1>11

\* CreateAccount over an account journals the object it replaces.
LEMMA CreateOverStep ==
    ASSUME Inv, NEW w \in Workers, NEW a \in Accounts, CreateOver(w, a)
    PROVE  Inv' /\ Local(w, a)
<1> DEFINE l == Loaded(w, a)
           p == l.own[w][a]
           x == newObject([NewAccount EXCEPT !.balance = getStateObject(w, a).data.balance])
           n == Len(l.heap) + 1
           h == Append(l.heap, x)
           t == [heap |-> h, own |-> [l.own EXCEPT ![w][a] = n], shared |-> [l.shared EXCEPT ![a] = n]]
           e == [kind |-> "reset", account |-> a, prev |-> p]
           new == <<e>>
<1>1. /\ Types /\ Len(heap) \in Nat /\ journal[w] \in Seq(Entry) /\ Exists(w, a)
      /\ own[w][a] \in Ref \cup {Nil} /\ shared[a] \in Ref \cup {Nil}
  BY DEF Inv, Types, CreateOver
<1>2. Loads(l, w, a) /\ p # Nil /\ ~l.heap[p].deleted /\ l.heap[p] \in Object
  BY <1>1, LoadedLoads, ExistsIs
<1>3. x \in Object /\ ~x.deleted
  BY <1>1, ExistsIs, FieldsAssumption DEF NewAccount, newObject, Account, Object
<1>4. /\ p \in 1..Len(l.heap) /\ Len(l.heap) \in Nat /\ Len(l.heap) >= Len(heap)
      /\ (p \in Ref => p \in {own[w][a], shared[a]}) /\ l.heap \in Seq(Object)
      /\ l.own = [own EXCEPT ![w][a] = p] /\ l.shared = [shared EXCEPT ![a] = l.shared[a]]
      /\ \A i \in Ref : l.heap[i] = heap[i]
  BY <1>2 DEF Loads
<1>5. /\ h \in Seq(Object) /\ Len(h) = n /\ h[n] = x /\ n \in 1..n /\ n \notin Ref /\ n >= Len(heap)
      /\ \A i \in 1..Len(l.heap) : h[i] = l.heap[i]
  <2> HIDE DEF x, l
  <2>1. h \in Seq(Object) /\ Len(h) = n /\ h[n] = x /\ \A i \in 1..Len(l.heap) : h[i] = l.heap[i]
    BY <1>3, <1>4, AppendProperties
  <2>. QED
    BY <1>1, <1>4, <2>1 DEF Ref
<1>6. /\ e \in Entry /\ new \in Seq(Entry) /\ Append(journal[w], e) = journal[w] \o new
      /\ Len(new) = 1 /\ new[1].kind = "reset" /\ new[1].account = a /\ new[1].prev = p
  <2>1. e \in Entry
    BY <1>4 DEF Entry
  <2>2. \A s \in Seq(Entry), y \in Entry : Append(s, y) = s \o <<y>>
    BY AppendIsConcat
  <2>. QED
    BY <1>1, <2>1, <2>2
<1>7. /\ Locks!Grant(w, a) /\ own' = t.own /\ shared' = t.shared /\ heap' = t.heap
      /\ phase[w] = "running" /\ UNCHANGED <<trie, phase, begun>>
      /\ journal' = [journal EXCEPT ![w] = journal[w] \o new]
  <2>1. journal' = [journal EXCEPT ![w] = Append(journal[w], e)]
    BY <1>1 DEF CreateOver, Types
  <2>2. own' = t.own /\ shared' = t.shared /\ heap' = t.heap
    BY DEF CreateOver, Put
  <2>. QED
    BY <1>6, <2>1, <2>2 DEF CreateOver, requestAndLock
<1>8. t.own = [own EXCEPT ![w][a] = n] /\ t.shared = [shared EXCEPT ![a] = n] /\ t.heap = h
  <2>1. \A m : [[own EXCEPT ![w][a] = p] EXCEPT ![w][a] = m] = [own EXCEPT ![w][a] = m]
    BY <1>1 DEF Types
  <2>2. \A s, m : [[shared EXCEPT ![a] = s] EXCEPT ![a] = m] = [shared EXCEPT ![a] = m]
    BY <1>1 DEF Types
  <2> HIDE DEF l, n, p, h
  <2>3. t.own = [l.own EXCEPT ![w][a] = n] /\ t.shared = [l.shared EXCEPT ![a] = n] /\ t.heap = h
    OBVIOUS
  <2> HIDE DEF t
  <2>4. l.own = [own EXCEPT ![w][a] = p] /\ l.shared = [shared EXCEPT ![a] = l.shared[a]]
    BY <1>4
  <2>. QED
    BY <2>1, <2>2, <2>3, <2>4
<1> HIDE DEF x, h, t, e, new, n, p
<1>9. Loads(t, w, a) /\ t.own[w][a] = n
  <2>1. t.own[w][a] = n /\ t.shared[a] = n
    BY <1>1, <1>8 DEF Types
  <2>2. \A i \in Ref : h[i] = heap[i]
    BY <1>1, <1>4, <1>5 DEF Ref
  <2> HIDE DEF l
  <2>. QED
    BY <1>5, <1>8, <2>1, <2>2 DEF Loads
<1>10. n # Nil
  BY <1>1, <1>4, NilAssumption DEF n
<1> HIDE DEF l
<1>11. /\ Local(w, a) /\ own'[w][a] = n
       /\ holder' \in [Accounts -> Workers \cup {Free}]
       /\ heap' \in Seq(Object)
       /\ own' \in [Workers -> [Accounts -> (1..Len(heap')) \cup {Nil}]]
       /\ shared' \in [Accounts -> (1..Len(heap')) \cup {Nil}]
  BY <1>1, <1>7, <1>9, LoadsLocal
<1>12. p \in Ref' /\ heap'[p] = l.heap[p] /\ (p \in Ref => Used(p, a))
  BY <1>1, <1>4, <1>5, <1>7, <1>8 DEF Ref, Used, n
<1>13. \A i \in 1..Len(new) :
         /\ new[i].account = a
         /\ new[i].kind = "reset" =>
               new[i].prev \in Ref' /\ ~heap'[new[i].prev].deleted /\ (new[i].prev \in Ref => Used(new[i].prev, a))
         /\ new[i].kind = "create" => i = 1 /\ \A j \in 1..Len(journal[w]) : journal[w][j].account # a
  BY <1>2, <1>6, <1>12 DEF p
<1>14. own'[w][a] # Nil /\ ~heap'[own'[w][a]].deleted
  BY <1>3, <1>5, <1>7, <1>8, <1>10, <1>11
<1>15. Inv'
  BY <1>6, <1>7, <1>11, <1>13, <1>14, JournalGrows
<1>. QED
  BY <1>11, <1>15

-----------------------------------------------------------------------------
\* RevertToSnapshot undoes the last entry on the object the worker has of its
\* account, which no other account shares.
LEMMA RevertEntryStep ==
    ASSUME Inv, NEW w \in Workers, RevertEntry(w)
    PROVE  Inv' /\ Local(w, LastEntry(w).account) /\ holder' = holder
<1> DEFINE q == journal[w]
           n == Len(q)
           e == LastEntry(w)
           a == e.account
           r == own[w][a]
<1>1. /\ Types /\ q \in Seq(Entry) /\ n \in Nat /\ n \in 1..n /\ e = q[n] /\ e \in Entry /\ a \in Accounts
      /\ Nil \notin Nat /\ Len(heap) \in Nat
  <2>1. Types /\ q \in Seq(Entry) /\ q # << >>
    BY DEF Inv, Types, RevertEntry
  <2>2. n \in Nat /\ n \in 1..n /\ e = q[n] /\ e \in Entry
    BY <2>1 DEF LastEntry
  <2>. QED
    BY <2>1, <2>2, NilAssumption DEF Entry, Types
<1>2. /\ holder[a] = w /\ r # Nil /\ ~heap[r].deleted
      /\ e.kind = "reset" => e.prev \in Ref /\ ~heap[e.prev].deleted
      /\ e.kind = "create" => \A j \in 1..n - 1 : q[j].account # a
  <2> HIDE DEF e
  <2>. QED
    BY <1>1 DEF Inv, JournalInv
<1>3. r \in Ref
  BY <1>1, <1>2 DEF Types
<1>4. /\ UNCHANGED <<holder, shared, trie, phase, begun>> /\ phase[w] = "reverting"
      /\ journal' = [journal EXCEPT ![w] = SubSeq(q, 1, n - 1)]
  BY <1>1 DEF RevertEntry, Types
<1>5. /\ heap' \in Seq(Object) /\ Len(heap') = Len(heap)
      /\ \A i \in Ref : heap'[i].deleted = heap[i].deleted
      /\ \A i \in Ref : heap'[i] = heap[i] \/ i = r
      /\ e.kind \notin {"balance", "nonce", "suicide"} => heap' = heap
  <2> HIDE DEF a, r, e
  <2>0. heap \in Seq(Object) /\ r \in 1..Len(heap) /\ heap[r] \in Object
    BY <1>1, <1>3 DEF Types, Ref
  <2>1. ASSUME NEW x \in Object, heap' = [heap EXCEPT ![r] = x], x.deleted = heap[r].deleted
        PROVE  /\ heap' \in Seq(Object) /\ Len(heap') = Len(heap)
               /\ \A i \in Ref : heap'[i].deleted = heap[i].deleted
               /\ \A i \in Ref : heap'[i] = heap[i] \/ i = r
    BY <2>0, <2>1, ExceptSeq DEF Ref
  <2>2. CASE e.kind = "balance"
    <3> DEFINE x == [heap[r] EXCEPT !.data.balance = e.prev]
    <3>1. heap' = [heap EXCEPT ![r] = x]
      BY <2>0, <2>2 DEF RevertEntry, r, a, e
    <3>2. e.prev \in Balances
      BY <1>1, <2>2 DEF Entry
    <3>3. x \in Object /\ x.deleted = heap[r].deleted
      BY <2>0, <3>2 DEF Object, Account
    <3> HIDE DEF x
    <3>. QED
      BY <2>1, <2>2, <3>1, <3>3
  <2>3. CASE e.kind = "nonce"
    <3> DEFINE x == [heap[r] EXCEPT !.data.nonce = e.prev]
    <3>1. heap' = [heap EXCEPT ![r] = x]
      BY <2>0, <2>3 DEF RevertEntry, r, a, e
    <3>2. e.prev \in Nonces
      BY <1>1, <2>3 DEF Entry
    <3>3. x \in Object /\ x.deleted = heap[r].deleted
      BY <2>0, <3>2 DEF Object, Account
    <3> HIDE DEF x
    <3>. QED
      BY <2>1, <2>3, <3>1, <3>3
  <2>4. CASE e.kind = "suicide"
    <3> DEFINE x == [heap[r] EXCEPT !.suicided = e.prev, !.data.balance = e.prevbalance]
    <3>1. heap' = [heap EXCEPT ![r] = x]
      BY <2>0, <2>4 DEF RevertEntry, r, a, e
    <3>2. e.prev \in BOOLEAN /\ e.prevbalance \in Balances
      BY <1>1, <2>4 DEF Entry
    <3>3. x \in Object /\ x.deleted = heap[r].deleted
      BY <2>0, <3>2 DEF Object, Account
    <3> HIDE DEF x
    <3>. QED
      BY <2>1, <2>4, <3>1, <3>3
  <2>5. CASE e.kind \notin {"balance", "nonce", "suicide"}
    <3>1. heap' = heap
      BY <2>5 DEF RevertEntry, e
    <3>. QED
      BY <2>0, <2>5, <3>1
  <2>. QED
    BY <2>2, <2>3, <2>4, <2>5
<1>6. \E x \in Ref \cup {Nil} :
         /\ own' = [own EXCEPT ![w][a] = x]
         /\ x \in Ref => Used(x, a)
         /\ e.kind # "create" => x # Nil /\ ~heap[x].deleted
  <2>1. CASE e.kind = "create"
    <3>1. own' = [own EXCEPT ![w][a] = Nil] /\ Nil \notin Ref
      BY <1>1, <2>1 DEF RevertEntry, Ref
    <3>. QED
      BY <2>1, <3>1
  <2>2. CASE e.kind = "reset"
    <3>1. own' = [own EXCEPT ![w][a] = e.prev]
      BY <2>2 DEF RevertEntry
    <3>2. Used(e.prev, a)
      BY <1>1, <2>2 DEF Used
    <3>3. e.prev \in Ref /\ e.prev # Nil /\ ~heap[e.prev].deleted
      BY <1>1, <1>2, <2>2 DEF Ref
    <3>. QED
      BY <2>2, <3>1, <3>2, <3>3
  <2>3. CASE e.kind \notin {"create", "reset"}
    <3>1. own' = [own EXCEPT ![w][a] = r]
      <4>1. own' = own
        BY <2>3 DEF RevertEntry
      <4>. QED
        BY <1>1, <4>1 DEF Types
    <3>2. Used(r, a)
      BY DEF Used
    <3>. QED
      BY <1>2, <1>3, <2>3, <3>1, <3>2
  <2>. QED
    BY <2>1, <2>2, <2>3
<1>7. /\ SubSeq(q, 1, n - 1) \in Seq(Entry) /\ Len(SubSeq(q, 1, n - 1)) = n - 1
      /\ \A i \in 1..n - 1 : SubSeq(q, 1, n - 1)[i] = q[i]
  <2> DEFINE m == n - 1
  <2>1. m \in Nat /\ 1 \in Int /\ m \in Int /\ \A i \in 1..m : q[i] \in Entry
    BY <1>1
  <2> HIDE DEF q, n, m
  <2>2. /\ SubSeq(q, 1, m) \in Seq(Entry) /\ Len(SubSeq(q, 1, m)) = IF 1 <= m THEN m - 1 + 1 ELSE 0
        /\ \A i \in 1..m - 1 + 1 : SubSeq(q, 1, m)[i] = q[1 + i - 1]
    BY <2>1, SubSeqProperties
  <2>3. (IF 1 <= m THEN m - 1 + 1 ELSE 0) = m /\ m - 1 + 1 = m /\ \A i \in 1..m : 1 + i - 1 = i
    BY <2>1
  <2>. QED
    BY <2>2, <2>3 DEF m
<1> HIDE DEF e, a, r
<1>8. PICK x \in Ref \cup {Nil} :
         /\ own' = [own EXCEPT ![w][a] = x]
         /\ x \in Ref => Used(x, a)
         /\ e.kind # "create" => x # Nil /\ ~heap[x].deleted
  BY <1>6
<1>9. /\ own' \in [Workers -> [Accounts -> Ref \cup {Nil}]] /\ own'[w][a] = x
      /\ \A v \in Workers, b \in Accounts : v # w \/ b # a => own'[v][b] = own[v][b]
  BY <1>1, <1>8 DEF Types
<1>10. Ref' = Ref
  BY <1>5 DEF Ref
<1>11. /\ journal' \in [Workers -> Seq(Entry)] /\ \A v \in Workers \ {w} : journal'[v] = journal[v]
       /\ Len(journal'[w]) = n - 1 /\ \A i \in 1..n - 1 : journal'[w][i] = journal[w][i]
  BY <1>1, <1>4, <1>7 DEF Types
<1>12. Types'
  BY <1>1, <1>4, <1>5, <1>9, <1>10, <1>11 DEF Types
<1>13. \A i \in Ref : heap'[i] = heap[i] \/ i = own'[w][a]
  <2>1. CASE e.kind \in {"balance", "nonce", "suicide"}
    <3>1. own' = own
      BY <2>1 DEF RevertEntry, e
    <3>. QED
      BY <1>5, <3>1 DEF r
  <2>2. CASE e.kind \notin {"balance", "nonce", "suicide"}
    BY <1>5, <2>2
  <2>. QED
    BY <2>1, <2>2
<1>14. Local(w, a)
  <2>1. holder' = [holder EXCEPT ![a] = w] /\ holder[a] \in {w, Free}
    BY <1>1, <1>2, <1>4 DEF Types
  <2>2. Len(heap') >= Len(heap)
    BY <1>1, <1>5
  <2>. QED
    BY <1>4, <1>8, <1>9, <1>13, <2>1, <2>2 DEF Local
<1>15. \A v \in Workers : \A i \in 1..Len(journal'[v]) :
          i \in 1..Len(journal[v]) /\ journal'[v][i] = journal[v][i]
  <2>1. 1..n - 1 \subseteq 1..n
    BY <1>1
  <2>. QED
    BY <1>11, <2>1 DEF n, q
<1>16. Distinct'
  BY <1>1, <1>12, <1>14, <1>15, DistinctStep
<1>17. JournalInv'
  <2> SUFFICES ASSUME NEW v \in Workers, NEW i \in 1..Len(journal'[v])
               PROVE  LET f == journal'[v][i] IN
                      /\ holder'[f.account] = v
                      /\ own'[v][f.account] # Nil /\ ~heap'[own'[v][f.account]].deleted
                      /\ f.kind = "reset" => f.prev \in Ref' /\ ~heap'[f.prev].deleted
                      /\ f.kind = "create" => \A j \in 1..i - 1 : journal'[v][j].account # f.account
    BY DEF JournalInv
  <2> DEFINE f == journal'[v][i]
             b == f.account
  <2>1. i \in 1..Len(journal[v]) /\ f = journal[v][i] /\ b \in Accounts
    <3>1. i \in 1..Len(journal[v]) /\ f = journal[v][i] /\ journal[v] \in Seq(Entry)
      BY <1>1, <1>15 DEF Types
    <3>. QED
      BY <3>1 DEF Entry
  <2>2. /\ holder[b] = v /\ own[v][b] # Nil /\ ~heap[own[v][b]].deleted
        /\ f.kind = "reset" => f.prev \in Ref /\ ~heap[f.prev].deleted
        /\ f.kind = "create" => \A j \in 1..i - 1 : journal[v][j].account # b
    BY <2>1, SMTT(60) DEF Inv, JournalInv
  <2>3. \A j \in 1..i - 1 : journal'[v][j] = journal[v][j]
    <3>1. Len(journal'[v]) \in Nat
      BY <1>12 DEF Types
    <3>2. \A j \in 1..i - 1 : j \in 1..Len(journal'[v])
      BY <3>1
    <3>. QED
      BY <1>15, <3>2
  <2>4. own'[v][b] # Nil /\ ~heap'[own'[v][b]].deleted
    <3>1. CASE v = w /\ b = a
      <4>1. e.kind # "create"
        <5>1. i \in 1..n - 1
          BY <1>11, <3>1
        <5>. QED
          BY <1>2, <2>1, <3>1, <5>1 DEF e, q, n, a
      <4>. QED
        BY <1>5, <1>8, <1>9, <3>1, <4>1
    <3>2. CASE v # w \/ b # a
      <4>1. own'[v][b] = own[v][b] /\ own[v][b] \in Ref
        BY <1>1, <1>9, <2>1, <2>2, <3>2 DEF Types
      <4>. QED
        BY <1>5, <2>2, <4>1
    <3>. QED
      BY <3>1, <3>2
  <2> HIDE DEF f
  <2>5. f.kind = "reset" => f.prev \in Ref' /\ ~heap'[f.prev].deleted
    BY <1>5, <1>10, <2>2
  <2>. QED
    BY <1>4, <2>1, <2>2, <2>3, <2>4, <2>5 DEF f
<1>18. PhaseInv'
  <2>1. \A v \in Workers \ {w} : journal'[v] = journal[v]
    BY <1>11
  <2>. QED
    BY <1>4, <2>1 DEF Inv, PhaseInv
<1>. QED
  BY <1>4, <1>12, <1>14, <1>16, <1>17, <1>18 DEF Inv, a, e

\* Finalise writes the dirty accounts, which the worker holds, and deletes none
\* but their objects.
LEMMA FinaliseStep ==
    ASSUME Inv, NEW w \in Workers, NEW deleteEmptyObjects \in BOOLEAN, Finalise(w, deleteEmptyObjects)
    PROVE  /\ Inv' /\ UNCHANGED <<holder, own, shared>>
           /\ \A a \in Accounts : holder[a] # w =>
                 trie'[a] = trie[a] /\ \A r \in Ref : Used(r, a) => heap'[r] = heap[r]
<1> DEFINE writes == {a \in Dirty(w) : own[w][a] # Nil}
           gone(a) == IsGone(heap[own[w][a]], deleteEmptyObjects)
           deletes(r) == \E a \in writes : r = own[w][a] /\ gone(a)
<1>1. /\ Types /\ Nil \notin Nat /\ Len(heap) \in Nat
      /\ UNCHANGED <<holder, own, shared, begun>>
      /\ phase' = [phase EXCEPT ![w] = "finalised"] /\ journal' = [journal EXCEPT ![w] = << >>]
      /\ heap' = [r \in 1..Len(heap) |-> IF deletes(r) THEN deleteStateObject(heap[r]) ELSE heap[r]]
      /\ trie' = [a \in Accounts |->
                    IF a \notin writes THEN trie[a]
                    ELSE IF gone(a) THEN Absent ELSE updateStateObject(heap[own[w][a]])]
  BY NilAssumption DEF Inv, Types, Finalise
<1>2. \A a \in writes : a \in Accounts /\ holder[a] = w /\ own[w][a] \in Ref
  BY <1>1 DEF Dirty, Inv, JournalInv, Types
<1>3. \A a \in writes : heap[own[w][a]] \in Object
  BY <1>1, <1>2 DEF Types, Ref
<1> HIDE DEF writes, gone
<1>4. \A r \in 1..Len(heap) : heap[r] \in Object /\ deleteStateObject(heap[r]) \in Object
  <2>1. \A x \in Object : deleteStateObject(x) \in Object
    BY DEF deleteStateObject, Object
  <2>2. \A r \in 1..Len(heap) : heap[r] \in Object
    BY <1>1 DEF Types
  <2>. QED
    BY <2>1, <2>2
<1>5. heap' \in Seq(Object) /\ Len(heap') = Len(heap)
  <2>1. heap' \in [1..Len(heap) -> Object]
    BY <1>1, <1>4
  <2>. QED
    BY <1>1, <2>1
<1>6. \A r \in Ref : ~deletes(r) => heap'[r] = heap[r]
  BY <1>1 DEF Ref
<1> HIDE DEF deletes
<1>7. trie' \in [Accounts -> Account \cup {Absent}]
  BY <1>1, <1>3 DEF Types, updateStateObject, Object
<1>8. Ref' = Ref
  BY <1>5 DEF Ref
<1>9. /\ journal' \in [Workers -> Seq(Entry)] /\ journal'[w] = << >> /\ Len(journal'[w]) = 0
      /\ \A v \in Workers \ {w} : journal'[v] = journal[v]
  BY <1>1 DEF Types
<1>10. Types'
  BY <1>1, <1>5, <1>7, <1>8, <1>9 DEF Types
<1>11. \A a \in Accounts, r \in Ref : holder[a] # w /\ Used(r, a) => heap'[r] = heap[r]
  <2> SUFFICES ASSUME NEW a \in Accounts, NEW r \in Ref, holder[a] # w, Used(r, a) PROVE ~deletes(r)
    BY <1>6
  <2>1. \A b \in writes : Used(own[w][b], b)
    BY DEF Used
  <2>. QED
    BY <1>2, <2>1 DEF deletes, Inv, Distinct
<1>12. Distinct'
  <2>1. ASSUME NEW a \in Accounts, NEW r \in Ref, Used(r, a)' PROVE Used(r, a)
    BY <1>1, <1>9, <2>1 DEF Used
  <2>. QED
    BY <1>8, <2>1 DEF Inv, Distinct
<1>13. JournalInv'
  <2> SUFFICES ASSUME NEW v \in Workers, NEW i \in 1..Len(journal'[v])
               PROVE  LET e == journal'[v][i] IN
                      /\ holder'[e.account] = v
                      /\ own'[v][e.account] # Nil /\ ~heap'[own'[v][e.account]].deleted
                      /\ e.kind = "reset" => e.prev \in Ref' /\ ~heap'[e.prev].deleted
                      /\ e.kind = "create" => \A j \in 1..i - 1 : journal'[v][j].account # e.account
    BY DEF JournalInv
  <2> DEFINE e == journal'[v][i]
             b == e.account
  <2>1. v # w /\ journal'[v] = journal[v] /\ i \in 1..Len(journal[v]) /\ e = journal[v][i]
    BY <1>9
  <2>2. /\ holder[b] = v /\ own[v][b] # Nil /\ ~heap[own[v][b]].deleted
        /\ e.kind = "reset" => e.prev \in Ref /\ ~heap[e.prev].deleted
        /\ e.kind = "create" => \A j \in 1..i - 1 : journal[v][j].account # b
    BY <2>1 DEF Inv, JournalInv
  <2>3. b \in Accounts /\ own[v][b] \in Ref
    <3>1. journal[v] \in Seq(Entry) /\ e \in Entry
      BY <1>1, <2>1 DEF Types
    <3>. QED
      BY <1>1, <2>2, <3>1 DEF Types, Entry
  <2>4. Used(own[v][b], b) /\ (e.kind = "reset" => Used(e.prev, b))
    BY <2>1 DEF Used
  <2> HIDE DEF b, e
  <2>5. heap'[own[v][b]] = heap[own[v][b]] /\ (e.kind = "reset" => heap'[e.prev] = heap[e.prev])
    BY <1>11, <2>1, <2>2, <2>3, <2>4
  <2>6. /\ holder'[b] = v /\ own'[v][b] # Nil /\ ~heap'[own'[v][b]].deleted
        /\ e.kind = "reset" => e.prev \in Ref' /\ ~heap'[e.prev].deleted
        /\ e.kind = "create" => \A j \in 1..i - 1 : journal'[v][j].account # b
    BY <1>1, <1>8, <2>1, <2>2, <2>5
  <2>. QED
    BY <2>6 DEF b, e
<1>14. PhaseInv'
  BY <1>1, <1>9 DEF Inv, PhaseInv, Types
<1>15. \A a \in Accounts : holder[a] # w => trie'[a] = trie[a]
  BY <1>1, <1>2
<1>. QED
  BY <1>1, <1>10, <1>11, <1>12, <1>13, <1>14, <1>15 DEF Inv

\* The begin and the end of a transaction, and of an undo, leave the accounts
\* alone; UnLockAccounts gives back those of a worker with nothing journaled.
LEMMA PhaseStep ==
    ASSUME Inv, NEW w \in Workers,
           Prepare(w) \/ RevertToSnapshot(w) \/ RevertDone(w) \/ UnLockAccounts(w)
    PROVE  /\ Inv' /\ UNCHANGED <<heap, own, shared, trie, journal>>
           /\ \A a \in Accounts : holder[a] # w => holder'[a] = holder[a]
<1>1. /\ Types /\ UNCHANGED <<heap, own, shared, trie, journal>>
      /\ \E p \in {"idle", "running", "reverting"} :
            phase' = [phase EXCEPT ![w] = p] /\ (p = "idle" => journal[w] = << >>)
      /\ begun' \in {begun, begun + 1} /\ (begun' # begun => begun < MaxTxs)
      /\ \/ holder' = holder
         \/ holder' = [a \in Accounts |-> IF holder[a] = w THEN Free ELSE holder[a]] /\ journal[w] = << >>
  BY DEF Inv, PhaseInv, Prepare, RevertToSnapshot, RevertDone, UnLockAccounts, Locks!Release, tables
<1>2. Ref' = Ref
  BY <1>1 DEF Ref
<1>3. begun' \in 0..MaxTxs
  BY <1>1, BoundsAssumption DEF Types
<1>4. Types'
  BY <1>1, <1>2, <1>3 DEF Types
<1>5. Distinct'
  BY <1>1, <1>2 DEF Inv, Distinct, Used
<1>6. \A v \in Workers : \A i \in 1..Len(journal[v]) : holder'[journal[v][i].account] = v
  <2> SUFFICES ASSUME NEW v \in Workers, NEW i \in 1..Len(journal[v]) PROVE holder'[journal[v][i].account] = v
    OBVIOUS
  <2>1. holder[journal[v][i].account] = v
    BY DEF Inv, JournalInv
  <2>2. journal[v][i].account \in Accounts
    <3>1. journal[v] \in Seq(Entry) /\ journal[v][i] \in Entry
      BY <1>1 DEF Types
    <3>. QED
      BY <3>1 DEF Entry
  <2>3. journal[w] = << >> => v # w
    OBVIOUS
  <2>. QED
    BY <1>1, <2>1, <2>2, <2>3
<1>7. JournalInv'
  BY <1>1, <1>2, <1>6 DEF Inv, JournalInv
<1>8. PhaseInv'
  BY <1>1 DEF Inv, PhaseInv, Types, UnLockAccounts
<1>. QED
  BY <1>1, <1>4, <1>5, <1>7, <1>8 DEF Inv

-----------------------------------------------------------------------------
\* The tables start empty.
LEMMA InitInv == ASSUME Init PROVE Inv
<1>1. /\ heap = << >> /\ own = [w \in Workers |-> [a \in Accounts |-> Nil]] /\ shared = [a \in Accounts |-> Nil]
      /\ trie \in [Accounts -> {NewAccount, Absent}] /\ journal = [w \in Workers |-> << >>]
      /\ phase = [w \in Workers |-> "idle"] /\ begun = 0 /\ holder = [a \in Accounts |-> Free]
  BY DEF Init, Locks!Init
<1>2. NewAccount \in Account /\ begun \in 0..MaxTxs
  BY <1>1, NewIsObject, BoundsAssumption
<1>3. heap \in Seq(Object) /\ \A w \in Workers : journal[w] \in Seq(Entry) /\ journal[w] = << >> /\ Len(journal[w]) = 0
  BY <1>1
<1>4. Types
  BY <1>1, <1>2, <1>3 DEF Types
<1>5. \A r \in Ref : FALSE
  BY <1>1 DEF Ref
<1>. QED
  BY <1>3, <1>4, <1>5 DEF Inv, Distinct, JournalInv, PhaseInv

\* Every call keeps the invariant, and is local to one account, finalises the
\* accounts the worker holds, or leaves the accounts alone.
LEMMA CallStep ==
    ASSUME Inv, NEW w \in Workers, Call(w)
    PROVE  /\ Inv'
           /\ \/ \E a \in Accounts : Local(w, a)
              \/ \E deleteEmptyObjects \in BOOLEAN : Finalise(w, deleteEmptyObjects)
              \/ UNCHANGED <<heap, own, shared, trie>>
<1>1. ASSUME NEW a \in Accounts,
             \/ Read(w, a) \/ (\E b \in Balances : SetBalance(w, a, b)) \/ (\E n \in Nonces : SetNonce(w, a, n))
             \/ CreateNew(w, a) \/ CreateOver(w, a) \/ Suicide(w, a)
      PROVE  Inv' /\ Local(w, a)
  BY <1>1, ReadStep, SettersStep, CreateNewStep, CreateOverStep, SuicideStep
<1>2. ASSUME RevertEntry(w) PROVE Inv' /\ \E a \in Accounts : Local(w, a)
  <2>1. LastEntry(w).account \in Accounts
    <3>1. journal[w] \in Seq(Entry) /\ journal[w] # << >>
      BY <1>2 DEF Inv, Types, RevertEntry
    <3>2. LastEntry(w) \in Entry
      BY <3>1 DEF LastEntry
    <3>. QED
      BY <3>2 DEF Entry
  <2>. QED
    BY <1>2, <2>1, RevertEntryStep
<1>3. ASSUME NEW d \in BOOLEAN, Finalise(w, d) PROVE Inv'
  BY <1>3, FinaliseStep
<1>4. ASSUME Prepare(w) \/ RevertToSnapshot(w) \/ RevertDone(w) \/ UnLockAccounts(w)
      PROVE  Inv' /\ UNCHANGED <<heap, own, shared, trie>>
  BY <1>4, PhaseStep
<1>. QED
  BY <1>1, <1>2, <1>3, <1>4 DEF Call

\* A step without a call leaves the invariant alone.
LEMMA StutterStep == ASSUME Inv, UNCHANGED vars PROVE Inv'
  BY DEF Inv, Types, Ref, Distinct, Used, JournalInv, PhaseInv, vars, tables

\* The inductive invariant holds in every state, whatever calls are made.
THEOREM Invariance == Spec => []Inv
<1>1. Init => Inv
  BY InitInv
<1>2. Inv /\ [Next]_vars => Inv'
  BY CallStep, StutterStep DEF Next, BlockDone
<1>. QED
  BY <1>1, <1>2, PTL DEF Spec

\* The objects, tables and journals are well formed, and an entry that is undone
\* finds an object, whatever calls are made.
THEOREM TypeCorrect == Spec => []TypeOK
<1>1. Inv => TypeOK
  BY DEF Inv, Types, JournalInv, TypeOK
<1>. QED
  BY <1>1, Invariance, PTL

\* A call of another worker leaves what a worker reads of an account it holds.
LEMMA CallIsolated ==
    ASSUME Inv, NEW v \in Workers, NEW w \in Workers \ {v}, Call(w), NEW a \in Accounts, holder[a] = v
    PROVE  View(v, a)' = View(v, a)
<1>1. /\ Inv' /\ Types /\ Types' /\ Free \notin Workers
      /\ \/ \E b \in Accounts : Local(w, b)
         \/ \E deleteEmptyObjects \in BOOLEAN : Finalise(w, deleteEmptyObjects)
         \/ UNCHANGED <<heap, own, shared, trie>>
  BY CallStep, NilAssumption DEF Inv
<1>2. ASSUME NEW b \in Accounts, Local(w, b) PROVE View(v, a)' = View(v, a)
  <2>1. a # b
    BY <1>1, <1>2 DEF Local
  <2>2. \A r \in Ref : Used(r, a) => heap'[r] = heap[r]
    BY <1>2, <2>1, LocalKeeps
  <2>3. own'[v][a] = own[v][a] /\ shared'[a] = shared[a] /\ trie'[a] = trie[a]
    BY <1>2, <2>1 DEF Local
  <2>. QED
    BY <1>1, <2>2, <2>3, ViewKept
<1>3. ASSUME NEW d \in BOOLEAN, Finalise(w, d) PROVE View(v, a)' = View(v, a)
  <2>1. /\ own' = own /\ shared' = shared /\ trie'[a] = trie[a]
        /\ \A r \in Ref : Used(r, a) => heap'[r] = heap[r]
    BY <1>3, FinaliseStep
  <2>. QED
    BY <1>1, <2>1, ViewKept
<1>4. ASSUME UNCHANGED <<heap, own, shared, trie>> PROVE View(v, a)' = View(v, a)
  BY <1>1, <1>4, ViewKept
<1>. QED
  BY <1>1, <1>2, <1>3, <1>4

\* Whatever calls a worker makes, creations, removals and undos included, another
\* worker reads the same as before of the accounts it has locked
\* (multi_statedb.go: the lock is all that protects the tables and the objects).
THEOREM WorkersAreIsolated == Spec => Isolation
<1>1. Inv /\ [Next]_vars =>
         [\A v, w \in Workers, a \in Accounts :
             (v # w /\ Call(w) /\ holder[a] = v) => View(v, a)' = View(v, a)]_vars
  BY CallIsolated
<1>. QED
  BY <1>1, Invariance, PTL DEF Spec, Isolation

-----------------------------------------------------------------------------
\* Of an account without journal entries every worker reads what is stored.
LEMMA CleanView ==
    ASSUME Inv, NEW a \in Accounts, SerialAt(a), NEW w \in Workers,
           \A v \in Workers : \A i \in 1..Len(journal[v]) : journal[v][i].account # a
    PROVE  View(w, a) = StoredView(a)
<1>1. Types /\ Reads(w, a) /\ Nil \notin Nat /\ Len(heap) \in Nat
  BY ViewIs, NilAssumption DEF Inv, Types
<1>2. Reach(w, a) = shared[a] /\ shared[a] \in Ref \cup {Nil}
  BY <1>1 DEF SerialAt, Reach, Types
<1>3. CASE shared[a] = Nil
  BY <1>1, <1>2, <1>3 DEF Reads
<1>4. CASE shared[a] # Nil
  <2> DEFINE o == heap[shared[a]]
  <2>1. Undoes(a)
    BY <1>4 DEF SerialAt, Journaled
  <2>2. trie[a] # Absent /\ o.data.balance = trie[a].balance /\ o.data.nonce = trie[a].nonce
    BY <2>1 DEF Undoes, Journaled
  <2>3. o \in Object /\ trie[a] \in Account /\ ~o.deleted /\ o.suicided = FALSE
    <3>1. shared[a] \in Ref /\ shared[a] \in 1..Len(heap)
      BY <1>2, <1>4 DEF Ref
    <3>2. heap \in Seq(Object) /\ trie[a] \in Account \cup {Absent}
      BY <1>1 DEF Types
    <3>3. o \in Object /\ trie[a] \in Account
      BY <2>2, <3>1, <3>2
    <3>4. ~o.suicided /\ ~o.deleted
      BY <1>4 DEF SerialAt
    <3>. QED
      BY <3>3, <3>4
  <2>4. o.data = trie[a]
    BY <2>2, <2>3 DEF Object, Account
  <2>. QED
    BY <1>1, <1>2, <1>4, <2>2, <2>3, <2>4 DEF Reads, StoredView
<1>. QED
  BY <1>3, <1>4

\* Only the worker that holds an account has entries of it.
LEMMA EntriesHeld ==
    ASSUME Inv, NEW a \in Accounts, NEW w \in Workers, holder[a] \in {w, Free},
           NEW v \in Workers, NEW i \in 1..Len(journal[v]), journal[v][i].account = a
    PROVE  v = w
  BY NilAssumption DEF Inv, JournalInv

\* When nothing can be deleted, an account exists unless it has neither an object
\* nor something stored; its object is the shared one.
LEMMA SerialExists ==
    ASSUME Inv, NEW w \in Workers, NEW a \in Accounts, SerialAt(a)
    PROVE  /\ own[w][a] \in {Nil, shared[a]}
           /\ ~Exists(w, a) => shared[a] = Nil /\ own[w][a] = Nil /\ trie[a] = Absent
           /\ \A v \in Workers : Exists(v, a) = Exists(w, a)
<1>1. Types /\ (\A v \in Workers : Reads(v, a)) /\ Nil \notin Nat
  BY ViewIs, NilAssumption DEF Inv
<1>2. \A v \in Workers : Reach(v, a) = shared[a]
  BY DEF SerialAt, Reach
<1>3. shared[a] # Nil => ~heap[shared[a]].deleted
  BY DEF SerialAt
<1>4. \A v \in Workers : Exists(v, a) <=> shared[a] # Nil \/ trie[a] # Absent
  BY <1>1, <1>2, <1>3 DEF Reads
<1>5. \A v \in Workers : Exists(v, a) \in BOOLEAN
  BY DEF Exists
<1>. QED
  BY <1>4, <1>5 DEF SerialAt

(* The journals after a step: the entries of v up to Len(journal[v]) are   *)
(* what they were, the others are of the account.                          *)
Grows(a) ==
    \A v \in Workers :
        /\ Len(journal'[v]) >= Len(journal[v])
        /\ \A i \in 1..Len(journal[v]) : journal'[v][i] = journal[v][i]
        /\ \A i \in 1..Len(journal'[v]) : i \in 1..Len(journal[v]) \/ journal'[v][i].account = a

\* The undo of an account that a step does not touch stays right.
LEMMA UndoesKept ==
    ASSUME Inv, Inv', NEW a \in Accounts, Grows(a), NEW b \in Accounts \ {a},
           trie'[b] = trie[b], shared'[b] = shared[b], shared[b] # Nil,
           heap'[shared[b]] = heap[shared[b]],
           Journaled("create", b) \/ Undoes(b)
    PROVE  (Journaled("create", b) \/ Undoes(b))'
<1>1. \A v \in Workers : Len(journal[v]) \in Nat /\ Len(journal'[v]) \in Nat
  BY DEF Inv, Types
<1>2. \A v \in Workers : \A i \in 1..Len(journal[v]) : i \in 1..Len(journal'[v])
  BY <1>1 DEF Grows
<1>3. ASSUME NEW k \in {"create", "balance", "nonce"} PROVE Journaled(k, b)' <=> Journaled(k, b)
  BY <1>2 DEF Grows, Journaled
<1>4. ASSUME NEW k \in {"balance", "nonce"}, NEW v \in Workers, NEW i \in 1..Len(journal'[v]), IsFirst(v, i, k, b)'
      PROVE  i \in 1..Len(journal[v]) /\ journal'[v][i] = journal[v][i] /\ IsFirst(v, i, k, b)
  <2>1. i \in 1..Len(journal[v]) /\ journal'[v][i] = journal[v][i]
    BY <1>4 DEF Grows, IsFirst
  <2>2. \A j \in 1..i - 1 : j \in 1..Len(journal[v]) /\ journal'[v][j] = journal[v][j]
    BY <1>1, <2>1 DEF Grows
  <2>. QED
    BY <1>4, <2>1, <2>2 DEF IsFirst
<1>5. CASE Journaled("create", b)
  BY <1>3, <1>5
<1>6. CASE Undoes(b)
  <2>1. ASSUME NEW v \in Workers, NEW i \in 1..Len(journal'[v])
        PROVE  /\ IsFirst(v, i, "balance", b)' => journal'[v][i].prev = trie'[b].balance
               /\ IsFirst(v, i, "nonce", b)' => journal'[v][i].prev = trie'[b].nonce
    BY <1>4, <1>6 DEF Undoes
  <2>. QED
    BY <1>3, <1>6, <2>1 DEF Undoes
<1>. QED
  BY <1>5, <1>6

\* The entries of a setter: the change, after the creation if there was no
\* account.
LEMMA ChangeEntries ==
    ASSUME Types, NEW w \in Workers, NEW a \in Accounts, NEW entry \in Entry,
           journal' = [journal EXCEPT ![w] = journal[w] \o (Created(w, a) \o <<entry>>)]
    PROVE  /\ \A v \in Workers \ {w} : journal'[v] = journal[v]
           /\ \A i \in 1..Len(journal[w]) : journal'[w][i] = journal[w][i]
           /\ Len(journal[w]) \in Nat
           /\ Exists(w, a) =>
                 /\ Len(journal'[w]) = Len(journal[w]) + 1
                 /\ journal'[w][Len(journal[w]) + 1] = entry
           /\ ~Exists(w, a) =>
                 /\ Len(journal'[w]) = Len(journal[w]) + 2
                 /\ journal'[w][Len(journal[w]) + 1] = [kind |-> "create", account |-> a]
                 /\ journal'[w][Len(journal[w]) + 2] = entry
<1> DEFINE c == [kind |-> "create", account |-> a]
           new == Created(w, a) \o <<entry>>
           q == journal[w]
<1>1. /\ Created(w, a) \in Seq(Entry) /\ <<entry>> \in Seq(Entry) /\ q \in Seq(Entry)
      /\ Len(<<entry>>) = 1 /\ <<entry>>[1] = entry
      /\ Len(Created(w, a)) = IF Exists(w, a) THEN 0 ELSE 1
      /\ ~Exists(w, a) => Created(w, a)[1] = c
  <2>1. c \in Entry
    BY DEF Entry
  <2>. QED
    BY <2>1 DEF Created, Types
<1>2. /\ new \in Seq(Entry) /\ Len(new) = IF Exists(w, a) THEN 1 ELSE 2
      /\ Exists(w, a) => new[1] = entry
      /\ ~Exists(w, a) => new[1] = c /\ new[2] = entry
  <2>1. /\ new \in Seq(Entry) /\ Len(new) = Len(Created(w, a)) + 1
        /\ \A i \in 1..Len(Created(w, a)) + 1 :
              new[i] = IF i <= Len(Created(w, a)) THEN Created(w, a)[i] ELSE <<entry>>[i - Len(Created(w, a))]
    BY <1>1, ConcatProperties
  <2> HIDE DEF new
  <2>. QED
    BY <1>1, <2>1
<1>3. journal'[w] = q \o new /\ \A v \in Workers \ {w} : journal'[v] = journal[v]
  BY DEF Types
<1> HIDE DEF new, q, c
<1>4. /\ Len(q \o new) = Len(q) + Len(new) /\ Len(q) \in Nat
      /\ \A i \in 1..Len(q) + Len(new) : (q \o new)[i] = IF i <= Len(q) THEN q[i] ELSE new[i - Len(q)]
  <2>1. q \in Seq(Entry) /\ new \in Seq(Entry)
    BY <1>1, <1>2
  <2>2. /\ Len(q \o new) = Len(q) + Len(new)
        /\ \A i \in 1..Len(q) + Len(new) : (q \o new)[i] = IF i <= Len(q) THEN q[i] ELSE new[i - Len(q)]
    BY ONLY <2>1, ConcatProperties
  <2>. QED
    BY <2>1, <2>2
<1>5. \A i \in 1..Len(q) : journal'[w][i] = q[i]
  BY <1>2, <1>3, <1>4
<1>6. CASE Exists(w, a)
  BY <1>2, <1>3, <1>4, <1>5, <1>6 DEF q
<1>7. CASE ~Exists(w, a)
  BY <1>2, <1>3, <1>4, <1>5, <1>7 DEF q, c
<1>. QED
  BY <1>6, <1>7

\* Of Append and of a setter's entries only the account matters here.
LEMMA AppendGrows ==
    ASSUME Types, NEW w \in Workers, NEW a \in Accounts, NEW e, e.account = a,
           journal' = [journal EXCEPT ![w] = Append(journal[w], e)]
    PROVE  Grows(a)
<1>1. \A v \in Workers : Len(journal[v]) \in Nat
  BY DEF Types
<1>2. journal'[w] = Append(journal[w], e) /\ \A v \in Workers \ {w} : journal'[v] = journal[v]
  BY DEF Types
<1>3. /\ Len(journal'[w]) = Len(journal[w]) + 1 /\ journal'[w][Len(journal[w]) + 1] = e
      /\ \A i \in 1..Len(journal[w]) : journal'[w][i] = journal[w][i]
  <2>1. journal[w] \in Seq(Entry \cup {e}) /\ e \in Entry \cup {e}
    BY DEF Types
  <2>. QED
    BY <1>2, <2>1, AppendProperties
<1>4. \A i \in 1..Len(journal'[w]) : i \in 1..Len(journal[w]) \/ i = Len(journal[w]) + 1
  BY <1>1, <1>3
<1>5. Len(journal'[w]) >= Len(journal[w])
  BY <1>1, <1>3
<1>. QED
  BY <1>1, <1>2, <1>3, <1>4, <1>5 DEF Grows

\* A step on one account keeps what the serial invariant says of another.
LEMMA SerialKept ==
    ASSUME Inv, Inv', NEW w \in Workers, NEW a \in Accounts, Local(w, a), Grows(a), phase' = phase,
           NEW b \in Accounts \ {a}, SerialAt(b)
    PROVE  SerialAt(b)'
<1>1. Types /\ Types' /\ Nil \notin Nat
  BY NilAssumption DEF Inv
<1>2. shared'[b] = shared[b] /\ trie'[b] = trie[b] /\ \A v \in Workers : own'[v][b] = own[v][b]
  BY DEF Local
<1>3. shared[b] # Nil => heap'[shared[b]] = heap[shared[b]]
  <2>1. shared[b] # Nil => shared[b] \in Ref /\ Used(shared[b], b)
    BY <1>1 DEF Types, Used
  <2>. QED
    BY <2>1, LocalKeeps
<1>4. shared'[b] # Nil => (Journaled("create", b) \/ Undoes(b))'
  BY <1>2, <1>3, UndoesKept DEF SerialAt
<1>5. ASSUME NEW v \in Workers, NEW i \in 1..Len(journal'[v]), journal'[v][i].account = b
      PROVE  i \in 1..Len(journal[v]) /\ journal'[v][i] = journal[v][i]
  BY <1>5 DEF Grows
<1>6. \A v \in Workers :
         /\ phase'[v] = "reverting" => ~Creates(v, b)'
         /\ \A i \in 1..Len(journal'[v]) :
               journal'[v][i].account = b => journal'[v][i].kind \in {"create", "balance", "nonce"}
  BY <1>5 DEF SerialAt, Creates
<1>. QED
  BY <1>2, <1>3, <1>4, <1>6 DEF SerialAt

\* A step of a running worker on one account keeps the serial invariant of it.
LEMMA SerialStep ==
    ASSUME Inv, Inv', NEW w \in Workers, NEW a \in Accounts, SerialAt(a), Grows(a),
           phase' = phase, phase[w] = "running",
           \A v \in Workers \ {w} : journal'[v] = journal[v],
           \A v \in Workers : own'[v][a] \in {Nil, shared'[a]},
           shared'[a] # Nil => ~heap'[shared'[a]].suicided /\ ~heap'[shared'[a]].deleted,
           \A i \in 1..Len(journal'[w]) :
              i \in 1..Len(journal[w]) \/ journal'[w][i].kind \in {"create", "balance", "nonce"},
           shared'[a] # Nil => (Journaled("create", a) \/ Undoes(a))'
    PROVE  SerialAt(a)'
<1>1. \A v \in Workers : \A i \in 1..Len(journal'[v]) :
         journal'[v][i].account = a => journal'[v][i].kind \in {"create", "balance", "nonce"}
  BY DEF SerialAt, Grows
<1>2. \A v \in Workers : phase'[v] = "reverting" => ~Creates(v, a)'
  BY DEF SerialAt, Creates
<1>. QED
  BY <1>1, <1>2 DEF SerialAt

\* Entries of one account are added to the journal of a worker.
LEMMA ConcatGrows ==
    ASSUME Types, NEW w \in Workers, NEW a \in Accounts, NEW new \in Seq(Entry),
           \A i \in 1..Len(new) : new[i].account = a,
           journal' = [journal EXCEPT ![w] = journal[w] \o new]
    PROVE  Grows(a)
<1>1. journal'[w] = journal[w] \o new /\ \A v \in Workers \ {w} : journal'[v] = journal[v]
  BY DEF Types
<1>2. \A v \in Workers : Len(journal[v]) \in Nat
  BY DEF Types
<1> DEFINE q == journal[w]
<1>3. q \in Seq(Entry) /\ Len(q) \in Nat /\ Len(new) \in Nat
  BY DEF Types
<1>4. /\ Len(q \o new) = Len(q) + Len(new)
      /\ \A i \in 1..Len(q) + Len(new) : (q \o new)[i] = IF i <= Len(q) THEN q[i] ELSE new[i - Len(q)]
  <2> HIDE DEF q
  <2>. QED
    BY ONLY <1>3, new \in Seq(Entry), ConcatProperties
<1>5. Len(journal'[w]) >= Len(q) /\ \A i \in 1..Len(q) : journal'[w][i] = q[i]
  <2> HIDE DEF q
  <2>. QED
    BY <1>1, <1>3, <1>4 DEF q
<1>6. ASSUME NEW i \in 1..Len(journal'[w]), i \notin 1..Len(q) PROVE journal'[w][i].account = a
  <2> HIDE DEF q
  <2>1. journal'[w] = q \o new
    BY <1>1 DEF q
  <2>2. i \in 1..Len(q) + Len(new) /\ ~(i <= Len(q)) /\ i - Len(q) \in 1..Len(new)
    BY <1>3, <1>4, <1>6, <2>1
  <2>. QED
    BY <1>4, <2>1, <2>2
<1>. QED
  BY <1>1, <1>2, <1>5, <1>6 DEF Grows

\* The entries of a setter are of one account.
LEMMA CreatedEntries ==
    ASSUME NEW w \in Workers, NEW a \in Accounts, NEW entry \in Entry
    PROVE  /\ Created(w, a) \o <<entry>> \in Seq(Entry)
           /\ entry.account = a =>
                 \A i \in 1..Len(Created(w, a) \o <<entry>>) : (Created(w, a) \o <<entry>>)[i].account = a
<1>1. CASE Exists(w, a)
  BY <1>1 DEF Created
<1>2. CASE ~Exists(w, a)
  <2> DEFINE c == [kind |-> "create", account |-> a]
  <2>1. Created(w, a) = <<c>> /\ c \in Entry /\ c.account = a
    BY <1>2 DEF Created, Entry
  <2> HIDE DEF c
  <2>2. /\ <<c>> \in Seq(Entry) /\ <<entry>> \in Seq(Entry) /\ Len(<<c>>) = 1 /\ Len(<<entry>>) = 1
        /\ <<c>>[1] = c /\ <<entry>>[1] = entry
    BY <2>1
  <2> DEFINE s == <<c>>
             t == <<entry>>
  <2>3. /\ s \o t \in Seq(Entry) /\ Len(s \o t) = Len(s) + Len(t)
        /\ \A i \in 1..Len(s) + Len(t) : (s \o t)[i] = IF i <= Len(s) THEN s[i] ELSE t[i - Len(s)]
    <3> HIDE DEF s, t
    <3>1. s \in Seq(Entry) /\ t \in Seq(Entry)
      BY <2>2 DEF s, t
    <3>. QED
      BY ONLY <3>1, ConcatProperties
  <2>4. \A i \in 1..Len(s \o t) : (s \o t)[i] \in {c, entry}
    <3> SUFFICES ASSUME NEW i \in 1..Len(s \o t) PROVE (s \o t)[i] \in {c, entry}
      OBVIOUS
    <3> HIDE DEF s, t
    <3>1. Len(s) = 1 /\ Len(t) = 1 /\ s[1] = c /\ t[1] = entry
      BY <2>2 DEF s, t
    <3>2. i = 1 \/ i = 2
      BY <2>3, <3>1
    <3>. QED
      BY <2>3, <3>1, <3>2
  <2>. QED
    BY <2>1, <2>3, <2>4
<1>. QED
  BY <1>1, <1>2

\* A call of a running worker on an account adds entries of this account only.
LEMMA CallGrows ==
    ASSUME Inv, NEW w \in Workers, NEW a \in Accounts,
           \/ Read(w, a) \/ (\E b \in Balances : SetBalance(w, a, b)) \/ (\E n \in Nonces : SetNonce(w, a, n))
           \/ CreateNew(w, a) \/ CreateOver(w, a) \/ Suicide(w, a)
    PROVE  /\ Inv' /\ Local(w, a) /\ Grows(a) /\ phase' = phase /\ phase[w] = "running"
           /\ Locks!Grant(w, a) /\ trie' = trie
<1>1. Inv' /\ Local(w, a) /\ Types
  BY ReadStep, SettersStep, CreateNewStep, CreateOverStep, SuicideStep DEF Inv
<1>2. phase' = phase /\ phase[w] = "running" /\ Locks!Grant(w, a) /\ trie' = trie
  BY DEF Read, SetBalance, SetNonce, CreateNew, CreateOver, Suicide, Change, requestAndLock
<1>3. ASSUME Read(w, a) PROVE Grows(a)
  BY <1>1, <1>3 DEF Read, Grows, Types
<1>4. ASSUME \/ (\E b \in Balances : SetBalance(w, a, b)) \/ (\E n \in Nonces : SetNonce(w, a, n))
             \/ Suicide(w, a)
      PROVE  Grows(a)
  <2>1. Adds(w, a)
    BY <1>4, SettersStep, SuicideStep
  <2>2. PICK entry \in Entry :
          entry.account = a /\ journal' = [journal EXCEPT ![w] = journal[w] \o (Created(w, a) \o <<entry>>)]
    BY <2>1 DEF Adds
  <2> DEFINE new == Created(w, a) \o <<entry>>
  <2>3. new \in Seq(Entry) /\ \A i \in 1..Len(new) : new[i].account = a
    BY <2>2, CreatedEntries
  <2>4. journal' = [journal EXCEPT ![w] = journal[w] \o new]
    BY <2>2
  <2> HIDE DEF new
  <2>. QED
    BY <1>1, <2>3, <2>4, ConcatGrows
<1>5. ASSUME CreateNew(w, a) PROVE Grows(a)
  <2> DEFINE e == [kind |-> "create", account |-> a]
  <2>1. journal' = [journal EXCEPT ![w] = Append(journal[w], e)]
    BY <1>1, <1>5 DEF CreateNew, Types
  <2>2. e.account = a
    OBVIOUS
  <2> HIDE DEF e
  <2>. QED
    BY <1>1, <2>1, <2>2, AppendGrows
<1>6. ASSUME CreateOver(w, a) PROVE Grows(a)
  <2> DEFINE e == [kind |-> "reset", account |-> a, prev |-> Loaded(w, a).own[w][a]]
  <2>1. journal' = [journal EXCEPT ![w] = Append(journal[w], e)]
    BY <1>1, <1>6 DEF CreateOver, Types
  <2>2. e.account = a
    OBVIOUS
  <2> HIDE DEF e
  <2>. QED
    BY <1>1, <2>1, <2>2, AppendGrows
<1>7. Grows(a)
  BY <1>3, <1>4, <1>5, <1>6
<1>. QED
  BY <1>1, <1>2, <1>7

\* The getters put what the trie stores into the tables, and every worker reads
\* of the account what it could read before.
LEMMA ReadSerial ==
    ASSUME Inv, NEW w \in Workers, NEW a \in Accounts, SerialAt(a), Read(w, a)
    PROVE  SerialAt(a)' /\ \A v \in Workers : View(v, a)' = View(v, a) /\ StoredView(a)' = StoredView(a)
<1> DEFINE t == Loaded(w, a)
           r == t.own[w][a]
           n == Len(heap) + 1
           o == newObject(trie[a])
<1>1. /\ Inv' /\ Local(w, a) /\ Types /\ Types' /\ Nil \notin Nat /\ Len(heap) \in Nat
      /\ (\A v \in Workers : Reads(v, a) /\ Reads(v, a)')
  BY ReadStep, ViewIs, ViewIsNext, NilAssumption DEF Inv, Types
<1>2. /\ holder[a] \in {w, Free} /\ own' = t.own /\ shared' = t.shared /\ heap' = t.heap /\ trie' = trie
      /\ phase[w] = "running" /\ UNCHANGED <<journal, phase, begun>>
  BY DEF Read, requestAndLock, Put, Locks!Grant
<1>3. /\ Loads(t, w, a)
      /\ own[w][a] # Nil => r = own[w][a] /\ t.heap = heap
      /\ r = Nil <=> own[w][a] = Nil /\ shared[a] = Nil /\ trie[a] = Absent
      /\ own[w][a] = Nil /\ shared[a] # Nil => r = shared[a] /\ t.heap = heap
      /\ own[w][a] # Nil \/ shared[a] # Nil => t.shared[a] = shared[a] /\ t.heap = heap
      /\ own[w][a] = Nil /\ shared[a] = Nil /\ trie[a] # Absent =>
            /\ r = n /\ t.shared[a] = r /\ t.heap = Append(heap, o) /\ t.heap[r] = o /\ o \in Object
      /\ r = Nil => t.heap = heap /\ t.shared = shared
  BY <1>1, LoadedLoads
<1>4. t.own = [own EXCEPT ![w][a] = r]
  BY <1>3 DEF Loads
<1> HIDE DEF t
<1>5. own'[w][a] = r /\ \A v \in Workers \ {w} : own'[v][a] = own[v][a]
  BY <1>1, <1>2, <1>4 DEF Types
<1>6. \A v \in Workers : own[v][a] \in {Nil, shared[a]}
  BY DEF SerialAt
<1>7. StoredView(a)' = StoredView(a)
  BY <1>2 DEF StoredView
<1>8. Grows(a)
  BY <1>1, <1>2 DEF Grows, Types
<1>9. CASE shared[a] # Nil
  <2>1. heap' = heap /\ shared'[a] = shared[a] /\ own'[w][a] = shared[a]
    BY <1>2, <1>3, <1>5, <1>6, <1>9
  <2>3. \A v \in Workers : own'[v][a] \in {Nil, shared'[a]}
    BY <1>5, <1>6, <2>1
  <2>4. ~heap'[shared'[a]].suicided /\ ~heap'[shared'[a]].deleted
    BY <1>9, <2>1 DEF SerialAt
  <2>5. (Journaled("create", a) \/ Undoes(a))'
    BY <1>2, <1>9, <2>1 DEF SerialAt, Journaled, Undoes, IsFirst
  <2>6. SerialAt(a)'
    BY <1>1, <1>2, <1>8, <2>3, <2>4, <2>5, SerialStep
  <2>7. \A v \in Workers : Reach(v, a)' = Reach(v, a) /\ Reach(v, a) = shared[a]
    BY <1>6, <2>1, <2>3 DEF Reach
  <2>8. \A v \in Workers : View(v, a)' = View(v, a)
    BY <1>1, <1>9, <2>1, <2>7 DEF Reads
  <2>. QED
    BY <1>7, <2>6, <2>8
<1>10. CASE shared[a] = Nil /\ trie[a] = Absent
  <2>1. own[w][a] = Nil /\ r = Nil
    BY <1>3, <1>6, <1>10
  <2>2. heap' = heap /\ shared' = shared /\ own' = own
    BY <1>1, <1>2, <1>3, <1>4, <2>1 DEF Types
  <2>3. SerialAt(a)'
    BY <1>1, <1>2, <1>6, <1>8, <1>10, <2>2, SerialStep
  <2>4. \A v \in Workers : View(v, a)' = View(v, a)
    BY <1>1, <1>2, <2>2, ViewKept
  <2>. QED
    BY <1>7, <2>3, <2>4
<1>11. CASE shared[a] = Nil /\ trie[a] # Absent
  <2>1. own[w][a] = Nil /\ r = n /\ shared'[a] = n /\ own'[w][a] = n /\ heap' = Append(heap, o) /\ heap'[n] = o
    BY <1>2, <1>3, <1>5, <1>6, <1>11
  <2>2. n # Nil /\ o.data = trie[a] /\ ~o.suicided /\ ~o.deleted /\ o.suicided = FALSE
    BY <1>1 DEF newObject
  <2>5. \A v \in Workers : \A i \in 1..Len(journal'[v]) : journal'[v][i].account # a
    BY <1>2, <1>11, <1>6 DEF Inv, JournalInv
  <2> HIDE DEF n, o
  <2>6. Undoes(a)'
    BY <1>1, <1>2, <1>11, <2>1, <2>2, <2>5 DEF Undoes, IsFirst
  <2>7. \A v \in Workers : own'[v][a] \in {Nil, shared'[a]}
    BY <1>5, <1>6, <1>11, <2>1
  <2>8. ~heap'[shared'[a]].suicided /\ ~heap'[shared'[a]].deleted
    BY <2>1, <2>2
  <2>9. SerialAt(a)'
    BY <1>1, <1>2, <1>8, <2>6, <2>7, <2>8, SerialStep
  <2>10. \A v \in Workers : Reach(v, a) = Nil /\ Reach(v, a)' = n
    BY <1>6, <1>11, <2>1, <2>2, <2>7 DEF Reach
  <2>11. \A v \in Workers : View(v, a)' = View(v, a)
    <3>1. \A v \in Workers : View(v, a) = StoredView(a)
      BY <1>1, <2>10 DEF Reads
    <3>2. \A v \in Workers : View(v, a)' = [data |-> trie[a], suicided |-> FALSE]
      BY <1>1, <2>1, <2>2, <2>10, ZenonT(90) DEF Reads
    <3>. QED
      BY <1>11, <3>1, <3>2 DEF StoredView
  <2>. QED
    BY <1>7, <2>9, <2>11
<1>. QED
  BY <1>9, <1>10, <1>11

\* What a worker reads of an object that is not deleted is an account that exists.
LEMMA WrittenView ==
    ASSUME Types, Types', NEW w \in Workers, NEW a \in Accounts,
           own'[w][a] # Nil, ~heap'[own'[w][a]].deleted
    PROVE  View(w, a)' \in [data : Account, suicided : BOOLEAN]
<1> DEFINE r == own'[w][a]
<1>1. Reads(w, a)' /\ Reach(w, a)' = r
  BY ViewIsNext DEF Reach
<1>2. r \in 1..Len(heap') /\ heap' \in Seq(Object)
  BY DEF Types, Ref
<1>3. heap'[r] \in Object
  BY <1>2
<1>4. View(w, a)' = [data |-> heap'[r].data, suicided |-> heap'[r].suicided]
  BY <1>1 DEF Reads
<1>. QED
  BY <1>3, <1>4 DEF Object

\* The object a setter works on is the shared one of the account.
LEMMA TargetSerial ==
    ASSUME Inv, NEW w \in Workers, NEW a \in Accounts, SerialAt(a)
    PROVE  LET t == Target(w, a)
               r == t.own[w][a]
           IN  /\ t.shared[a] = r
               /\ shared[a] # Nil => Exists(w, a) /\ r = shared[a] /\ t.heap = heap
               /\ shared[a] = Nil =>
                     /\ r = Len(heap) + 1 /\ Len(t.heap) = r
                     /\ Exists(w, a) => OrNew(w, a) = newObject(trie[a]) /\ trie[a] # Absent
<1> DEFINE t == Target(w, a)
           r == t.own[w][a]
<1>1. /\ own[w][a] \in {Nil, shared[a]} /\ Types /\ heap \in Seq(Object)
      /\ ~Exists(w, a) => shared[a] = Nil /\ own[w][a] = Nil /\ trie[a] = Absent
  BY SerialExists DEF Inv, Types
<1>2. OrNew(w, a) = t.heap[r]
  BY <1>1, TargetLoads
<1>3. CASE ~Exists(w, a)
  <2>1. t = Insert(w, a, newObject(NewAccount)) /\ newObject(NewAccount) \in Object
    BY <1>3, NewIsObject DEF Target
  <2>2. r = Len(heap) + 1 /\ t.shared[a] = r /\ Len(t.heap) = Len(heap) + 1
    BY <1>1, <2>1, InsertLoads
  <2>. QED
    BY <1>1, <1>3, <2>2
<1>4. CASE Exists(w, a)
  <2>1. t = Loaded(w, a)
    BY <1>4 DEF Target
  <2>2. CASE shared[a] # Nil
    BY <1>1, <1>4, <2>1, <2>2, LoadedLoads
  <2>3. CASE shared[a] = Nil /\ trie[a] # Absent
    <3> DEFINE o == newObject(trie[a])
    <3>1. r = Len(heap) + 1 /\ t.shared[a] = r /\ t.heap = Append(heap, o) /\ t.heap[r] = o /\ o \in Object
      BY <1>1, <2>1, <2>3, LoadedLoads
    <3>2. Len(t.heap) = r
      BY <1>1, <3>1, AppendProperties
    <3>. QED
      BY <1>2, <2>3, <3>1, <3>2
  <2>4. CASE shared[a] = Nil /\ trie[a] = Absent
    <3>1. r = Nil
      BY <1>1, <2>1, <2>4, LoadedLoads
    <3>. QED
      BY <1>1, <3>1, TargetLoads
  <2>. QED
    BY <2>2, <2>3, <2>4
<1>. QED
  BY <1>3, <1>4

\* SetBalance and SetNonce journal the first change of a field with the value the
\* trie has, unless they create the account.
LEMMA ChangeSerial ==
    ASSUME Inv, NEW w \in Workers, NEW a \in Accounts, SerialAt(a), NEW entry \in Entry, NEW obj \in Object,
           requestAndLock(w, a), Change(w, a, entry, obj),
           entry.account = a, entry.kind \in {"balance", "nonce"}, ~obj.deleted, ~obj.suicided,
           entry.kind = "balance" =>
              entry.prev = OrNew(w, a).data.balance /\ obj.data.nonce = OrNew(w, a).data.nonce,
           entry.kind = "nonce" =>
              entry.prev = OrNew(w, a).data.nonce /\ obj.data.balance = OrNew(w, a).data.balance
    PROVE  SerialAt(a)' /\ View(w, a)' \in [data : Account, suicided : BOOLEAN]
<1>a. phase[w] = "running" /\ holder[a] \in {w, Free} /\ trie' = trie
  BY DEF requestAndLock, Locks!Grant, Change
<1>b. /\ Inv' /\ Local(w, a)
      /\ own'[w][a] = Target(w, a).own[w][a] /\ shared'[a] = Target(w, a).shared[a]
      /\ heap' = [Target(w, a).heap EXCEPT ![own'[w][a]] = obj] /\ heap'[own'[w][a]] = obj
      /\ journal' = [journal EXCEPT ![w] = journal[w] \o (Created(w, a) \o <<entry>>)]
      /\ Created(w, a) \o <<entry>> \in Seq(Entry)
      /\ phase' = phase
  <2>1. entry.kind \in {"balance", "nonce", "suicide"}
    OBVIOUS
  <2>2. Inv' /\ Local(w, a) /\ Changes(w, a, entry, obj)
    BY <2>1, ChangeStep
  <2>. QED
    BY <2>2 DEF Changes
<1>c. Types
  BY DEF Inv
<1>d. /\ \A v \in Workers \ {w} : journal'[v] = journal[v]
      /\ \A i \in 1..Len(journal[w]) : journal'[w][i] = journal[w][i]
      /\ Len(journal[w]) \in Nat
      /\ Exists(w, a) =>
            /\ Len(journal'[w]) = Len(journal[w]) + 1
            /\ journal'[w][Len(journal[w]) + 1] = entry
      /\ ~Exists(w, a) =>
            /\ Len(journal'[w]) = Len(journal[w]) + 2
            /\ journal'[w][Len(journal[w]) + 1] = [kind |-> "create", account |-> a]
            /\ journal'[w][Len(journal[w]) + 2] = entry
  BY <1>b, <1>c, ChangeEntries
<1>e. /\ Loads(Target(w, a), w, a) /\ Target(w, a).own[w][a] \in 1..Len(Target(w, a).heap)
      /\ Target(w, a).own[w][a] # Nil /\ OrNew(w, a) = Target(w, a).heap[Target(w, a).own[w][a]]
  BY <1>c, TargetLoads
<1> DEFINE t == Target(w, a)
           r == own'[w][a]
           n == Len(journal[w])
<1>1. /\ Inv' /\ Local(w, a) /\ r = t.own[w][a] /\ shared'[a] = t.shared[a]
      /\ heap' = [t.heap EXCEPT ![r] = obj] /\ heap'[r] = obj
      /\ phase' = phase /\ phase[w] = "running" /\ holder[a] \in {w, Free} /\ trie' = trie
  BY <1>a, <1>b
<1>2. Types /\ Types' /\ Nil \notin Nat /\ Len(heap) \in Nat
  BY <1>1, NilAssumption DEF Inv, Types
<1>3. /\ shared'[a] = r
      /\ shared[a] # Nil => Exists(w, a) /\ r = shared[a] /\ t.heap = heap
      /\ shared[a] = Nil =>
            /\ r = Len(heap) + 1 /\ Len(t.heap) = r
            /\ Exists(w, a) => OrNew(w, a) = newObject(trie[a]) /\ trie[a] # Absent
  BY <1>b, TargetSerial
<1>4. t.heap \in Seq(Object) /\ r \in 1..Len(t.heap) /\ r # Nil /\ OrNew(w, a) = t.heap[r]
  BY <1>b, <1>e DEF Loads
<1>5. /\ \A v \in Workers \ {w} : journal'[v] = journal[v]
      /\ \A i \in 1..n : journal'[w][i] = journal[w][i]
      /\ n \in Nat
      /\ Exists(w, a) => Len(journal'[w]) = n + 1 /\ journal'[w][n + 1] = entry
      /\ ~Exists(w, a) =>
            /\ Len(journal'[w]) = n + 2
            /\ journal'[w][n + 1] = [kind |-> "create", account |-> a]
            /\ journal'[w][n + 2] = entry
  BY <1>d
<1> HIDE DEF t
<1>6. \A i \in 1..Len(journal'[w]) :
         i \in 1..n \/ (journal'[w][i].account = a /\ journal'[w][i].kind \in {"create", "balance", "nonce"})
  <2>1. CASE Exists(w, a)
    <3>1. \A i \in 1..n + 1 : i \in 1..n \/ i = n + 1
      BY <1>5
    <3>. QED
      BY <1>5, <2>1, <3>1
  <2>2. CASE ~Exists(w, a)
    <3>1. \A i \in 1..n + 2 : i \in 1..n \/ i = n + 1 \/ i = n + 2
      BY <1>5
    <3>. QED
      BY <1>5, <2>2, <3>1
  <2>. QED
    BY <2>1, <2>2
<1>7. Grows(a)
  <2>1. \A v \in Workers : Len(journal[v]) \in Nat
    BY <1>2 DEF Types
  <2>2. Len(journal'[w]) >= n
    BY <1>5
  <2>. QED
    BY <1>5, <1>6, <2>1, <2>2 DEF Grows
<1>8. /\ \A v \in Workers : own'[v][a] \in {Nil, shared'[a]}
      /\ ~heap'[shared'[a]].suicided /\ ~heap'[shared'[a]].deleted
  <2>1. \A v \in Workers \ {w} : own'[v][a] = own[v][a] /\ (own[v][a] = Nil \/ own[v][a] = shared[a])
    BY <1>1 DEF Local, SerialAt
  <2>2. shared[a] # Nil => r = shared[a]
    BY <1>3
  <2>. QED
    BY <1>1, <1>3, <2>1, <2>2
<1>9. \A k : Journaled(k, a) => Journaled(k, a)'
  <2>1. \A v \in Workers : \A i \in 1..Len(journal[v]) : i \in 1..Len(journal'[v]) /\ journal'[v][i] = journal[v][i]
    BY <1>2, <1>7 DEF Grows, Types
  <2>. QED
    BY <2>1 DEF Journaled
<1>10. ASSUME ~Exists(w, a) PROVE Journaled("create", a)'
  <2>1. n + 1 \in 1..Len(journal'[w])
    BY <1>5, <1>10
  <2>2. journal'[w][n + 1].kind = "create" /\ journal'[w][n + 1].account = a
    BY <1>5, <1>10
  <2> HIDE DEF n
  <2>. QED
    BY <2>1, <2>2 DEF Journaled
<1>11. ASSUME Exists(w, a), ~Journaled("create", a) PROVE Undoes(a)'
  <2>1. /\ trie[a] # Absent
        /\ ~Journaled("balance", a) => OrNew(w, a).data.balance = trie[a].balance
        /\ ~Journaled("nonce", a) => OrNew(w, a).data.nonce = trie[a].nonce
        /\ \A v \in Workers : \A i \in 1..Len(journal[v]) :
              /\ IsFirst(v, i, "balance", a) => journal[v][i].prev = trie[a].balance
              /\ IsFirst(v, i, "nonce", a) => journal[v][i].prev = trie[a].nonce
    <3>1. CASE shared[a] # Nil
      <4>1. Undoes(a) /\ OrNew(w, a) = heap[shared[a]]
        BY <1>3, <1>4, <1>11, <3>1 DEF SerialAt
      <4>. QED
        BY <4>1 DEF Undoes
    <3>2. CASE shared[a] = Nil
      <4>1. \A v \in Workers : \A i \in 1..Len(journal[v]) : journal[v][i].account # a
        <5>1. \A v \in Workers : own[v][a] = Nil
          BY <3>2 DEF SerialAt
        <5>. QED
          BY <5>1 DEF Inv, JournalInv
      <4>2. OrNew(w, a).data = trie[a] /\ trie[a] # Absent
        BY <1>3, <1>11, <3>2 DEF newObject
      <4>. QED
        BY <4>1, <4>2 DEF IsFirst
    <3>. QED
      BY <3>1, <3>2
  <2>2. n + 1 \in 1..Len(journal'[w]) /\ journal'[w][n + 1] = entry
    BY <1>5, <1>11
  <2>3. Journaled(entry.kind, a)'
    <3> HIDE DEF n
    <3>. QED
      BY <2>2 DEF Journaled
  <2>4. heap'[shared'[a]] = obj
    BY <1>1, <1>3
  <2>5. ASSUME NEW k, NEW v \in Workers, NEW i \in 1..Len(journal'[v]), IsFirst(v, i, k, a)'
        PROVE  \/ i \in 1..Len(journal[v]) /\ journal'[v][i] = journal[v][i] /\ IsFirst(v, i, k, a)
               \/ journal'[v][i] = entry /\ k = entry.kind /\ ~Journaled(k, a)
    <3>1. CASE i \in 1..Len(journal[v])
      <4>1. journal'[v][i] = journal[v][i] /\ \A j \in 1..i - 1 : j \in 1..Len(journal[v])
        BY <1>2, <1>7, <3>1 DEF Grows, Types
      <4>2. \A j \in 1..i - 1 : journal'[v][j] = journal[v][j]
        BY <1>7, <4>1 DEF Grows
      <4>. QED
        BY <2>5, <3>1, <4>1, <4>2 DEF IsFirst
    <3>2. CASE i \notin 1..Len(journal[v])
      <4>1. v = w
        BY <1>5, <3>2
      <4>2. i = n + 1
        BY <1>5, <1>11, <3>2, <4>1
      <4>3. journal'[v][i] = entry /\ k = entry.kind
        BY <2>2, <2>5, <4>1, <4>2 DEF IsFirst
      <4>4. \A j \in 1..n : ~(journal[w][j].kind = k /\ journal[w][j].account = a)
        <5>1. \A j \in 1..i - 1 : ~(journal'[v][j].kind = k /\ journal'[v][j].account = a)
          BY <2>5 DEF IsFirst
        <5>. QED
          BY <1>5, <4>1, <4>2, <5>1
      <4>5. ~Journaled(k, a)
        BY <1>1, <4>4, EntriesHeld DEF Journaled
      <4>. QED
        BY <4>3, <4>5
    <3>. QED
      BY <3>1, <3>2
  <2>6. \A v \in Workers : \A i \in 1..Len(journal'[v]) :
           /\ IsFirst(v, i, "balance", a)' => journal'[v][i].prev = trie'[a].balance
           /\ IsFirst(v, i, "nonce", a)' => journal'[v][i].prev = trie'[a].nonce
    <3> SUFFICES ASSUME NEW v \in Workers, NEW i \in 1..Len(journal'[v])
                 PROVE  /\ IsFirst(v, i, "balance", a)' => journal'[v][i].prev = trie'[a].balance
                        /\ IsFirst(v, i, "nonce", a)' => journal'[v][i].prev = trie'[a].nonce
      OBVIOUS
    <3>1. IsFirst(v, i, "balance", a)' =>
             \/ i \in 1..Len(journal[v]) /\ journal'[v][i] = journal[v][i] /\ IsFirst(v, i, "balance", a)
             \/ journal'[v][i] = entry /\ "balance" = entry.kind /\ ~Journaled("balance", a)
      BY <2>5
    <3>2. IsFirst(v, i, "nonce", a)' =>
             \/ i \in 1..Len(journal[v]) /\ journal'[v][i] = journal[v][i] /\ IsFirst(v, i, "nonce", a)
             \/ journal'[v][i] = entry /\ "nonce" = entry.kind /\ ~Journaled("nonce", a)
      BY <2>5
    <3>. QED
      BY <1>1, <2>1, <3>1, <3>2
  <2>7. ~Journaled("balance", a)' => heap'[shared'[a]].data.balance = trie'[a].balance
    <3>1. ~Journaled("balance", a)' => entry.kind = "nonce" /\ ~Journaled("balance", a)
      BY <1>9, <2>3
    <3>. QED
      BY <1>1, <2>1, <2>4, <3>1
  <2>8. ~Journaled("nonce", a)' => heap'[shared'[a]].data.nonce = trie'[a].nonce
    <3>1. ~Journaled("nonce", a)' => entry.kind = "balance" /\ ~Journaled("nonce", a)
      BY <1>9, <2>3
    <3>. QED
      BY <1>1, <2>1, <2>4, <3>1
  <2>. QED
    BY <1>1, <2>1, <2>6, <2>7, <2>8 DEF Undoes
<1>12. (Journaled("create", a) \/ Undoes(a))'
  BY <1>9, <1>10, <1>11
<1>13. SerialAt(a)'
  BY <1>1, <1>5, <1>6, <1>7, <1>8, <1>12, SerialStep
<1>14. View(w, a)' \in [data : Account, suicided : BOOLEAN]
  BY <1>1, <1>2, <1>4, WrittenView
<1>. QED
  BY <1>13, <1>14

\* What SetBalance, SetNonce and CreateAccount leave of an account is one that
\* exists, and undoing it gives what is stored.
LEMMA WriteSerial ==
    ASSUME Inv, NEW w \in Workers, NEW a \in Accounts, SerialAt(a),
           \/ (\E b \in Balances : SetBalance(w, a, b)) \/ (\E n \in Nonces : SetNonce(w, a, n))
           \/ CreateNew(w, a)
    PROVE  SerialAt(a)' /\ View(w, a)' \in [data : Account, suicided : BOOLEAN]
<1>1. OrNew(w, a) \in Object /\ ~OrNew(w, a).deleted /\ ~OrNew(w, a).suicided
  <2>1. /\ OrNew(w, a) \in Object /\ ~OrNew(w, a).deleted
        /\ OrNew(w, a) = Target(w, a).heap[Target(w, a).own[w][a]]
        /\ ~Exists(w, a) => OrNew(w, a) = newObject(NewAccount)
    BY TargetLoads DEF Inv
  <2>2. /\ shared[a] # Nil => Target(w, a).own[w][a] = shared[a] /\ Target(w, a).heap = heap
        /\ shared[a] = Nil => (Exists(w, a) => OrNew(w, a) = newObject(trie[a]))
    BY TargetSerial
  <2>3. CASE shared[a] # Nil
    BY <2>1, <2>2, <2>3 DEF SerialAt
  <2>4. CASE shared[a] = Nil
    BY <2>1, <2>2, <2>4 DEF newObject
  <2>. QED
    BY <2>1, <2>3, <2>4
<1>2. ASSUME NEW b \in Balances, SetBalance(w, a, b)
      PROVE  SerialAt(a)' /\ View(w, a)' \in [data : Account, suicided : BOOLEAN]
  <2> DEFINE e == [kind |-> "balance", account |-> a, prev |-> OrNew(w, a).data.balance]
             x == [OrNew(w, a) EXCEPT !.data.balance = b]
  <2>1. /\ e \in Entry /\ x \in Object /\ ~x.deleted /\ ~x.suicided /\ e.account = a /\ e.kind = "balance"
        /\ e.prev = OrNew(w, a).data.balance /\ x.data.nonce = OrNew(w, a).data.nonce
    BY <1>1 DEF Entry, Object, Account
  <2>2. requestAndLock(w, a) /\ Change(w, a, e, x)
    BY <1>2 DEF SetBalance
  <2> HIDE DEF e, x
  <2>. QED
    BY <2>1, <2>2, ChangeSerial
<1>3. ASSUME NEW n \in Nonces, SetNonce(w, a, n)
      PROVE  SerialAt(a)' /\ View(w, a)' \in [data : Account, suicided : BOOLEAN]
  <2> DEFINE e == [kind |-> "nonce", account |-> a, prev |-> OrNew(w, a).data.nonce]
             x == [OrNew(w, a) EXCEPT !.data.nonce = n]
  <2>1. /\ e \in Entry /\ x \in Object /\ ~x.deleted /\ ~x.suicided /\ e.account = a /\ e.kind = "nonce"
        /\ e.prev = OrNew(w, a).data.nonce /\ x.data.balance = OrNew(w, a).data.balance
    BY <1>1 DEF Entry, Object, Account
  <2>2. requestAndLock(w, a) /\ Change(w, a, e, x)
    BY <1>3 DEF SetNonce
  <2> HIDE DEF e, x
  <2>. QED
    BY <2>1, <2>2, ChangeSerial
<1>4. ASSUME CreateNew(w, a)
      PROVE  SerialAt(a)' /\ View(w, a)' \in [data : Account, suicided : BOOLEAN]
  <2> DEFINE x == newObject(NewAccount)
             c == [kind |-> "create", account |-> a]
             n == Len(heap) + 1
             m == Len(journal[w])
  <2>1. /\ Inv' /\ Local(w, a) /\ Types /\ Types' /\ Nil \notin Nat /\ Len(heap) \in Nat
        /\ x \in Object /\ ~x.deleted /\ ~x.suicided /\ journal[w] \in Seq(Entry) /\ c \in Entry
    BY <1>4, CreateNewStep, NewIsObject, NilAssumption DEF Inv, Types, Entry
  <2>2. /\ ~Exists(w, a) /\ phase[w] = "running" /\ UNCHANGED <<trie, phase, begun>>
        /\ own' = Insert(w, a, x).own /\ shared' = Insert(w, a, x).shared /\ heap' = Insert(w, a, x).heap
        /\ journal' = [journal EXCEPT ![w] = Append(journal[w], c)]
    BY <1>4, <2>1 DEF CreateNew, requestAndLock, Put, Types
  <2>3. /\ Insert(w, a, x).own[w][a] = n /\ Insert(w, a, x).shared[a] = n
        /\ Len(Insert(w, a, x).heap) = n /\ Insert(w, a, x).heap[n] = x
    BY <2>1, InsertLoads
  <2>4. own'[w][a] = n /\ shared'[a] = n /\ Len(heap') = n /\ heap'[n] = x /\ n # Nil
    BY <2>1, <2>2, <2>3
  <2>5. shared[a] = Nil /\ \A v \in Workers \ {w} : own'[v][a] = own[v][a]
    BY <2>1, <2>2, SerialExists DEF Local
  <2>6. /\ Len(journal'[w]) = m + 1 /\ journal'[w][m + 1] = c /\ m \in Nat
        /\ \A i \in 1..m : journal'[w][i] = journal[w][i]
        /\ \A v \in Workers \ {w} : journal'[v] = journal[v]
    <3>1. journal'[w] = Append(journal[w], c) /\ \A v \in Workers \ {w} : journal'[v] = journal[v]
      BY <2>1, <2>2 DEF Types
    <3> HIDE DEF c
    <3>. QED
      BY <2>1, <3>1, AppendProperties
  <2>7. \A i \in 1..Len(journal'[w]) : i \in 1..m \/ journal'[w][i] = c
    <3>1. \A i \in 1..m + 1 : i \in 1..m \/ i = m + 1
      BY <2>6
    <3>. QED
      BY <2>6, <3>1
  <2>8. c.kind = "create" /\ c.account = a
    OBVIOUS
  <2> HIDE DEF x, c, n
  <2>10. Grows(a)
    <3>1. \A v \in Workers : Len(journal[v]) \in Nat
      BY <2>1 DEF Types
    <3>. QED
      BY <2>6, <2>7, <2>8, <3>1 DEF Grows
  <2>11. Journaled("create", a)'
    <3>1. m + 1 \in 1..Len(journal'[w])
      BY <2>6
    <3> HIDE DEF m
    <3>. QED
      BY <2>6, <2>8, <3>1 DEF Journaled
  <2>12. \A v \in Workers : own'[v][a] \in {Nil, shared'[a]}
    BY <2>4, <2>5 DEF SerialAt
  <2>13. SerialAt(a)'
    BY <2>1, <2>2, <2>4, <2>6, <2>7, <2>8, <2>10, <2>11, <2>12, SerialStep, SMTT(60)
  <2>14. View(w, a)' \in [data : Account, suicided : BOOLEAN]
    BY <2>1, <2>4, WrittenView
  <2>. QED
    BY <2>13, <2>14
<1>. QED
  BY <1>2, <1>3, <1>4

\* RevertToSnapshot takes the last entry off the journal.
LEMMA RevertEntries ==
    ASSUME Types, NEW w \in Workers, RevertEntry(w)
    PROVE  LET n == Len(journal[w]) IN
           /\ n \in Nat \ {0} /\ LastEntry(w) = journal[w][n] /\ LastEntry(w) \in Entry
           /\ \A v \in Workers \ {w} : journal'[v] = journal[v]
           /\ Len(journal'[w]) = n - 1 /\ \A i \in 1..n - 1 : journal'[w][i] = journal[w][i]
<1> DEFINE q == journal[w]
           n == Len(q)
           m == n - 1
<1>1. q \in Seq(Entry) /\ q # << >> /\ journal' = [journal EXCEPT ![w] = SubSeq(q, 1, m)]
  BY DEF Types, RevertEntry
<1>2. n \in Nat \ {0} /\ LastEntry(w) = q[n] /\ LastEntry(w) \in Entry
  BY <1>1 DEF LastEntry
<1>3. Len(SubSeq(q, 1, m)) = m /\ \A i \in 1..m : SubSeq(q, 1, m)[i] = q[i]
  <2>1. m \in Nat /\ 1 \in Int /\ m \in Int /\ \A i \in 1..m : q[i] \in Entry
    BY <1>1, <1>2
  <2> HIDE DEF q, n, m
  <2>2. /\ Len(SubSeq(q, 1, m)) = IF 1 <= m THEN m - 1 + 1 ELSE 0
        /\ \A i \in 1..m - 1 + 1 : SubSeq(q, 1, m)[i] = q[1 + i - 1]
    BY <2>1, SubSeqProperties
  <2>3. (IF 1 <= m THEN m - 1 + 1 ELSE 0) = m /\ m - 1 + 1 = m /\ \A i \in 1..m : 1 + i - 1 = i
    BY <2>1
  <2>. QED
    BY <2>2, <2>3
<1>4. journal'[w] = SubSeq(q, 1, m) /\ \A v \in Workers \ {w} : journal'[v] = journal[v]
  BY <1>1 DEF Types
<1>. QED
  BY <1>2, <1>3, <1>4

\* What is left of the journals, and which entries are the first ones of their
\* kind.
LEMMA UndoneEntries ==
    ASSUME Types, Types', NEW w \in Workers, RevertEntry(w)
    PROVE  /\ \A v \in Workers : \A i \in 1..Len(journal'[v]) :
                 i \in 1..Len(journal[v]) /\ journal'[v][i] = journal[v][i]
           /\ \A v \in Workers : \A i \in 1..Len(journal[v]) :
                 \/ i \in 1..Len(journal'[v]) /\ journal'[v][i] = journal[v][i]
                 \/ v = w /\ i = Len(journal[w]) /\ journal[v][i] = LastEntry(w)
           /\ \A k, b : \A v \in Workers : \A i \in 1..Len(journal'[v]) :
                 IsFirst(v, i, k, b)' => IsFirst(v, i, k, b)
<1> DEFINE n == Len(journal[w])
           e == LastEntry(w)
<1>1. /\ n \in Nat \ {0} /\ e = journal[w][n] /\ n \in 1..n
      /\ \A v \in Workers \ {w} : journal'[v] = journal[v]
      /\ Len(journal'[w]) = n - 1 /\ \A i \in 1..n - 1 : journal'[w][i] = journal[w][i]
  BY RevertEntries
<1> HIDE DEF e
<1>2. /\ \A v \in Workers : \A i \in 1..Len(journal'[v]) :
            i \in 1..Len(journal[v]) /\ journal'[v][i] = journal[v][i]
      /\ \A v \in Workers : \A i \in 1..Len(journal[v]) :
            \/ i \in 1..Len(journal'[v]) /\ journal'[v][i] = journal[v][i]
            \/ v = w /\ i = n /\ journal[v][i] = e
  <2>1. \A i \in 1..n : i \in 1..n - 1 \/ i = n
    BY <1>1
  <2>2. \A i \in 1..n - 1 : i \in 1..n
    BY <1>1
  <2>. QED
    BY <1>1, <2>1, <2>2
<1>3. ASSUME NEW k, NEW b, NEW v \in Workers, NEW i \in 1..Len(journal'[v]), IsFirst(v, i, k, b)'
      PROVE  IsFirst(v, i, k, b)
  <2>1. Len(journal'[v]) \in Nat
    BY DEF Types
  <2>2. \A j \in 1..i - 1 : j \in 1..Len(journal'[v])
    BY <2>1
  <2>. QED
    BY <1>2, <1>3, <2>2 DEF IsFirst
<1>. QED
  BY <1>2, <1>3 DEF e, n

\* The undo of an entry of another account leaves the account alone.
LEMMA RevertEntryKept ==
    ASSUME Inv, NEW w \in Workers, RevertEntry(w), NEW b \in Accounts, LastEntry(w).account # b, SerialAt(b)
    PROVE  SerialAt(b)'
<1> DEFINE e == LastEntry(w)
<1>1. /\ Inv' /\ Types /\ Types' /\ Nil \notin Nat /\ e \in Entry
      /\ Local(w, e.account) /\ UNCHANGED <<shared, trie, phase>>
  BY RevertEntryStep, RevertEntries, NilAssumption DEF Inv, RevertEntry
<1>2. /\ \A v \in Workers : \A i \in 1..Len(journal'[v]) :
            i \in 1..Len(journal[v]) /\ journal'[v][i] = journal[v][i]
      /\ \A v \in Workers : \A i \in 1..Len(journal[v]) :
            \/ i \in 1..Len(journal'[v]) /\ journal'[v][i] = journal[v][i]
            \/ v = w /\ i = Len(journal[w]) /\ journal[v][i] = e
      /\ \A k : \A v \in Workers : \A i \in 1..Len(journal'[v]) :
            IsFirst(v, i, k, b)' => IsFirst(v, i, k, b)
  BY <1>1, UndoneEntries
<1> HIDE DEF e
<1>3. PICK c \in Accounts : c = e.account
  BY <1>1 DEF Entry
<1>4. Local(w, c) /\ b # c
  BY <1>1, <1>3 DEF e
<1>5. \A v \in Workers : own'[v][b] = own[v][b]
  BY <1>4 DEF Local
<1>6. shared[b] # Nil => heap'[shared[b]] = heap[shared[b]]
  <2>1. shared[b] # Nil => shared[b] \in Ref /\ Used(shared[b], b)
    BY <1>1 DEF Types, Used
  <2>. QED
    BY <1>4, <2>1, LocalKeeps
<1>7. \A k : Journaled(k, b)' <=> Journaled(k, b)
  BY <1>2, <1>3, <1>4 DEF Journaled
<1>8. shared'[b] # Nil => (Journaled("create", b) \/ Undoes(b))'
  <2>1. CASE Journaled("create", b)
    BY <1>7, <2>1
  <2>2. CASE shared[b] # Nil /\ Undoes(b)
    <3>1. \A v \in Workers : \A i \in 1..Len(journal'[v]) :
             /\ IsFirst(v, i, "balance", b)' => journal'[v][i].prev = trie'[b].balance
             /\ IsFirst(v, i, "nonce", b)' => journal'[v][i].prev = trie'[b].nonce
      BY <1>1, <1>2, <2>2 DEF Undoes
    <3>. QED
      BY <1>1, <1>6, <1>7, <2>2, <3>1 DEF Undoes
  <2>. QED
    BY <1>1, <2>1, <2>2 DEF SerialAt
<1>9. \A v \in Workers :
         /\ phase'[v] = "reverting" => ~Creates(v, b)'
         /\ \A i \in 1..Len(journal'[v]) :
               journal'[v][i].account = b => journal'[v][i].kind \in {"create", "balance", "nonce"}
  BY <1>1, <1>2 DEF SerialAt, Creates
<1>. QED
  BY <1>1, <1>5, <1>6, <1>8, <1>9 DEF SerialAt

\* When the first entry of a field is undone, the field has what the trie stores.
LEMMA RevertEntrySerial ==
    ASSUME Inv, NEW w \in Workers, RevertEntry(w), NEW a \in Accounts, LastEntry(w).account = a, SerialAt(a)
    PROVE  SerialAt(a)'
<1> DEFINE n == Len(journal[w])
           e == LastEntry(w)
           r == shared[a]
<1>1. /\ Inv' /\ Types /\ Types' /\ Nil \notin Nat /\ Len(heap) \in Nat
      /\ Local(w, a) /\ holder' = holder
  BY RevertEntryStep, NilAssumption DEF Inv, Types
<1>2. /\ n \in Nat \ {0} /\ e = journal[w][n] /\ e \in Entry /\ n \in 1..n
      /\ \A v \in Workers \ {w} : journal'[v] = journal[v]
      /\ Len(journal'[w]) = n - 1 /\ \A i \in 1..n - 1 : journal'[w][i] = journal[w][i]
  BY <1>1, RevertEntries
<1>3. /\ phase[w] = "reverting" /\ UNCHANGED <<shared, trie, phase>>
  BY DEF RevertEntry
<1> HIDE DEF e
<1>4. /\ e.kind \in {"balance", "nonce"} /\ e.account = a
      /\ own[w][a] # Nil /\ holder[a] = w
  <2>1. e.account = a
    BY DEF e
  <2>2. e.kind \in {"create", "balance", "nonce"} /\ e.kind # "create"
    BY <1>2, <1>3, <2>1 DEF SerialAt, Creates
  <2>3. own[w][a] # Nil /\ holder[a] = w
    BY <1>2, <2>1 DEF Inv, JournalInv
  <2>. QED
    BY <2>1, <2>2, <2>3
<1>5. own[w][a] = r /\ r \in Ref /\ r # Nil
  BY <1>1, <1>4 DEF SerialAt, Types
<1>6. own' = own
  BY <1>4 DEF RevertEntry, e
<1>7. /\ e.kind = "balance" => heap' = [heap EXCEPT ![r].data.balance = e.prev]
      /\ e.kind = "nonce" => heap' = [heap EXCEPT ![r].data.nonce = e.prev]
  BY <1>4, <1>5 DEF RevertEntry, e
<1>8. /\ Len(heap') = Len(heap)
      /\ ~heap'[r].deleted /\ ~heap'[r].suicided
      /\ e.kind = "balance" => heap'[r].data.balance = e.prev /\ heap'[r].data.nonce = heap[r].data.nonce
      /\ e.kind = "nonce" => heap'[r].data.nonce = e.prev /\ heap'[r].data.balance = heap[r].data.balance
  <2> HIDE DEF r
  <2>1. heap \in Seq(Object) /\ r \in 1..Len(heap) /\ heap[r] \in Object /\ ~heap[r].deleted /\ ~heap[r].suicided
    BY <1>1, <1>5 DEF Types, Ref, SerialAt, r
  <2>2. CASE e.kind = "balance"
    <3> DEFINE x == [heap[r] EXCEPT !.data.balance = e.prev]
    <3>1. heap' = [heap EXCEPT ![r] = x]
      BY <1>7, <2>1, <2>2
    <3>2. e.prev \in Balances
      BY <1>2, <2>2 DEF Entry
    <3>3. /\ x \in Object /\ x.deleted = heap[r].deleted /\ x.suicided = heap[r].suicided
          /\ x.data.balance = e.prev /\ x.data.nonce = heap[r].data.nonce
      BY <2>1, <3>2 DEF Object, Account
    <3> HIDE DEF x
    <3>4. heap'[r] = x /\ Len(heap') = Len(heap)
      BY <2>1, <3>1, <3>3, ExceptSeq
    <3>. QED
      BY <2>1, <2>2, <3>3, <3>4
  <2>3. CASE e.kind = "nonce"
    <3> DEFINE x == [heap[r] EXCEPT !.data.nonce = e.prev]
    <3>1. heap' = [heap EXCEPT ![r] = x]
      BY <1>7, <2>1, <2>3
    <3>2. e.prev \in Nonces
      BY <1>2, <2>3 DEF Entry
    <3>3. /\ x \in Object /\ x.deleted = heap[r].deleted /\ x.suicided = heap[r].suicided
          /\ x.data.nonce = e.prev /\ x.data.balance = heap[r].data.balance
      BY <2>1, <3>2 DEF Object, Account
    <3> HIDE DEF x
    <3>4. heap'[r] = x /\ Len(heap') = Len(heap)
      BY <2>1, <3>1, <3>3, ExceptSeq
    <3>. QED
      BY <2>1, <2>3, <3>3, <3>4
  <2>. QED
    BY <1>4, <2>2, <2>3
<1>9. Ref' = Ref
  BY <1>8 DEF Ref
<1>10. /\ \A v \in Workers : \A i \in 1..Len(journal'[v]) :
             i \in 1..Len(journal[v]) /\ journal'[v][i] = journal[v][i]
       /\ \A v \in Workers : \A i \in 1..Len(journal[v]) :
             \/ i \in 1..Len(journal'[v]) /\ journal'[v][i] = journal[v][i]
             \/ v = w /\ i = n /\ journal[v][i] = e
       /\ \A k : \A v \in Workers : \A i \in 1..Len(journal'[v]) :
             IsFirst(v, i, k, a)' => IsFirst(v, i, k, a)
  BY <1>1, UndoneEntries DEF e
<1>11. \A k : Journaled(k, a) => Journaled(k, a)' \/ k = e.kind
  BY <1>10 DEF Journaled
<1> HIDE DEF r
<1>13. ASSUME Undoes(a) PROVE Undoes(a)'
  <2>1. trie'[a] = trie[a] /\ shared'[a] = shared[a]
    BY <1>3
  <2>2. ASSUME NEW v \in Workers, NEW i \in 1..Len(journal'[v])
        PROVE  /\ IsFirst(v, i, "balance", a)' => journal'[v][i].prev = trie'[a].balance
               /\ IsFirst(v, i, "nonce", a)' => journal'[v][i].prev = trie'[a].nonce
    BY <1>10, <1>13, <2>1 DEF Undoes
  <2>3. ASSUME NEW k, e.kind = k, ~Journaled(k, a)' PROVE IsFirst(w, n, k, a)
    <3>1. \A j \in 1..n - 1 : ~(journal[w][j].kind = k /\ journal[w][j].account = a)
      BY <1>2, <2>3 DEF Journaled
    <3>. QED
      BY <1>2, <1>4, <2>3, <3>1 DEF IsFirst
  <2>4. ~Journaled("balance", a)' => heap'[shared'[a]].data.balance = trie'[a].balance
    <3> SUFFICES ASSUME ~Journaled("balance", a)' PROVE heap'[shared'[a]].data.balance = trie'[a].balance
      OBVIOUS
    <3>1. CASE e.kind = "balance"
      BY <1>2, <1>8, <1>13, <2>1, <2>3, <3>1 DEF Undoes, r
    <3>2. CASE e.kind # "balance"
      BY <1>4, <1>8, <1>11, <1>13, <2>1, <3>2 DEF Undoes, r
    <3>. QED
      BY <3>1, <3>2
  <2>5. ~Journaled("nonce", a)' => heap'[shared'[a]].data.nonce = trie'[a].nonce
    <3> SUFFICES ASSUME ~Journaled("nonce", a)' PROVE heap'[shared'[a]].data.nonce = trie'[a].nonce
      OBVIOUS
    <3>1. CASE e.kind = "nonce"
      BY <1>2, <1>8, <1>13, <2>1, <2>3, <3>1 DEF Undoes, r
    <3>2. CASE e.kind # "nonce"
      BY <1>4, <1>8, <1>11, <1>13, <2>1, <3>2 DEF Undoes, r
    <3>. QED
      BY <3>1, <3>2
  <2>. QED
    BY <1>13, <2>1, <2>2, <2>4, <2>5 DEF Undoes
<1>14. (Journaled("create", a) \/ Undoes(a))'
  <2>1. Journaled("create", a) => Journaled("create", a)'
    BY <1>4, <1>11
  <2>2. Journaled("create", a) \/ Undoes(a)
    BY <1>5 DEF SerialAt, r
  <2>. QED
    BY <1>13, <2>1, <2>2
<1>15. \A v \in Workers :
         /\ phase'[v] = "reverting" => ~Creates(v, a)'
         /\ \A i \in 1..Len(journal'[v]) :
               journal'[v][i].account = a => journal'[v][i].kind \in {"create", "balance", "nonce"}
  BY <1>3, <1>10 DEF SerialAt, Creates
<1>. QED
  BY <1>3, <1>6, <1>8, <1>14, <1>15 DEF SerialAt, r

-----------------------------------------------------------------------------
\* Finalise stores the objects of the calm accounts with entries, and removes
\* none of them.
LEMMA FinaliseSerial ==
    ASSUME Inv, SerialInv, NEW w \in Workers, NEW deleteEmptyObjects \in BOOLEAN,
           Finalise(w, deleteEmptyObjects)
    PROVE  /\ SerialInv' /\ journal'[w] = << >>
           /\ \A a \in Calm : shared[a] # Nil => heap'[shared[a]] = heap[shared[a]]
<1> DEFINE writes == {a \in Dirty(w) : own[w][a] # Nil}
           gone(a) == IsGone(heap[own[w][a]], deleteEmptyObjects)
           deletes(r) == \E a \in writes : r = own[w][a] /\ gone(a)
<1>1. Inv' /\ Types /\ Types' /\ UNCHANGED <<holder, own, shared>>
  BY FinaliseStep DEF Inv
<1>2. /\ phase' = [phase EXCEPT ![w] = "finalised"] /\ journal' = [journal EXCEPT ![w] = << >>]
      /\ heap' = [r \in 1..Len(heap) |-> IF deletes(r) THEN deleteStateObject(heap[r]) ELSE heap[r]]
      /\ trie' = [a \in Accounts |->
                    IF a \notin writes THEN trie[a]
                    ELSE IF gone(a) THEN Absent ELSE updateStateObject(heap[own[w][a]])]
      /\ \A a \in writes : gone(a) => "remove" \in Calls[a]
  BY DEF Finalise
<1>3. Calm \subseteq Accounts /\ \A a \in Calm : "remove" \notin Calls[a] /\ SerialAt(a)
  BY DEF Calm, SerialInv
<1>4. \A a \in writes : own[w][a] \in Ref /\ a \in Accounts
  BY <1>1 DEF Dirty, Types
<1>5. \A a \in writes \cap Calm : ~gone(a) /\ own[w][a] = shared[a]
  BY <1>2, <1>3 DEF SerialAt
<1> HIDE DEF gone
<1>6. ASSUME NEW a \in Calm, shared[a] # Nil PROVE heap'[shared[a]] = heap[shared[a]]
  <2>1. shared[a] \in Ref /\ Used(shared[a], a) /\ a \in Accounts
    BY <1>1, <1>3, <1>6 DEF Types, Used
  <2>2. ASSUME NEW b \in writes, shared[a] = own[w][b], gone(b) PROVE FALSE
    <3>1. Used(shared[a], b) /\ b \in Accounts
      BY <1>4, <2>2 DEF Used
    <3>2. a = b
      BY <2>1, <3>1 DEF Inv, Distinct
    <3>. QED
      BY <1>5, <2>2, <3>2
  <2>3. ~deletes(shared[a])
    BY <2>2
  <2> HIDE DEF deletes
  <2>. QED
    BY <1>2, <2>1, <2>3 DEF Ref
<1> HIDE DEF deletes
<1>7. \A a \in Calm : trie'[a] = IF a \in writes THEN heap[shared[a]].data ELSE trie[a]
  BY <1>2, <1>3, <1>5 DEF updateStateObject
<1>8. /\ journal'[w] = << >> /\ Len(journal'[w]) = 0
      /\ \A v \in Workers \ {w} : journal'[v] = journal[v]
      /\ \A v \in Workers : phase'[v] = "reverting" => phase[v] = "reverting" /\ v # w
  BY <1>1, <1>2 DEF Types
<1>9. ASSUME NEW a \in Calm \ writes, NEW i \in 1..Len(journal[w]) PROVE journal[w][i].account # a
  BY <1>3, <1>9 DEF SerialAt, Inv, JournalInv, Dirty
<1>10. ASSUME NEW a \in writes \cap Calm PROVE Undoes(a)'
  <2>1. \A v \in Workers : \A i \in 1..Len(journal'[v]) : journal'[v][i].account # a
    <3>1. holder[a] = w
      BY DEF Dirty, Inv, JournalInv
    <3>2. \A v \in Workers \ {w} : \A i \in 1..Len(journal[v]) : journal[v][i].account # a
      BY <3>1 DEF Inv, JournalInv
    <3>. QED
      BY <1>8, <3>2
  <2>2. shared[a] \in Ref /\ shared[a] # Nil
    BY <1>4, <1>5
  <2>3. trie'[a] = heap'[shared'[a]].data
    BY <1>1, <1>6, <1>7, <2>2
  <2>4. heap[shared[a]] \in Object
    BY <1>1, <2>2 DEF Types, Ref
  <2>5. trie'[a] # Absent
    BY <1>7, <2>4, AbsentAssumption DEF Object
  <2>. QED
    BY <2>1, <2>3, <2>5 DEF Undoes, IsFirst
<1>11. ASSUME NEW a \in Calm \ writes, shared[a] # Nil PROVE (Journaled("create", a) \/ Undoes(a))'
  <2>1. \A k : Journaled(k, a)' <=> Journaled(k, a)
    BY <1>8, <1>9 DEF Journaled
  <2>2. ASSUME NEW k, NEW v \in Workers, NEW i \in 1..Len(journal'[v]), IsFirst(v, i, k, a)'
        PROVE  v # w /\ journal'[v] = journal[v] /\ IsFirst(v, i, k, a)
    BY <1>8, <2>2 DEF IsFirst
  <2>3. trie'[a] = trie[a] /\ heap'[shared'[a]] = heap[shared[a]]
    BY <1>1, <1>6, <1>7, <1>11
  <2>4. Journaled("create", a) \/ Undoes(a)
    BY <1>3, <1>11 DEF SerialAt
  <2>5. CASE Undoes(a)
    <3>1. \A v \in Workers : \A i \in 1..Len(journal'[v]) :
             /\ IsFirst(v, i, "balance", a)' => journal'[v][i].prev = trie'[a].balance
             /\ IsFirst(v, i, "nonce", a)' => journal'[v][i].prev = trie'[a].nonce
      BY <2>2, <2>3, <2>5 DEF Undoes
    <3>. QED
      BY <2>1, <2>3, <2>5, <3>1 DEF Undoes
  <2>. QED
    BY <2>1, <2>4, <2>5
<1>12. ASSUME NEW a \in Calm PROVE SerialAt(a)'
  <2>1. /\ \A v \in Workers : own'[v][a] \in {Nil, shared'[a]}
        /\ shared'[a] # Nil => ~heap'[shared'[a]].suicided /\ ~heap'[shared'[a]].deleted
    BY <1>1, <1>3, <1>6 DEF SerialAt
  <2>2. \A v \in Workers :
           /\ phase'[v] = "reverting" => ~Creates(v, a)'
           /\ \A i \in 1..Len(journal'[v]) :
                 journal'[v][i].account = a => journal'[v][i].kind \in {"create", "balance", "nonce"}
    BY <1>3, <1>8 DEF SerialAt, Creates
  <2>3. shared'[a] # Nil => (Journaled("create", a) \/ Undoes(a))'
    BY <1>1, <1>10, <1>11
  <2>. QED
    BY <2>1, <2>2, <2>3 DEF SerialAt
<1>13. SerialInv'
  BY <1>12 DEF SerialInv, Calm
<1>. QED
  BY <1>6, <1>8, <1>13

\* What the serial invariant says depends on the tables, the journals and the
\* phases.
LEMMA SerialSame ==
    ASSUME SerialInv, UNCHANGED <<heap, own, shared, trie, journal>>,
           \A a \in Calm, v \in Workers : phase'[v] = "reverting" => ~Creates(v, a)
    PROVE  SerialInv'
<1>1. ASSUME NEW a \in Calm PROVE SerialAt(a)'
  <2>1. SerialAt(a)
    BY DEF SerialInv
  <2>2. \A v \in Workers : phase'[v] = "reverting" => ~Creates(v, a)'
    BY DEF Creates
  <2>3. \A k : Journaled(k, a)' <=> Journaled(k, a)
    BY DEF Journaled
  <2>4. Undoes(a) => Undoes(a)'
    BY <2>3 DEF Undoes, IsFirst
  <2>. QED
    BY <2>1, <2>2, <2>3, <2>4 DEF SerialAt
<1>. QED
  BY <1>1 DEF SerialInv, Calm

\* The other steps of a transaction do not touch the accounts; an undo begins only
\* when it un-creates none of the calm ones.
LEMMA PhaseSerial ==
    ASSUME Inv, SerialInv, NEW w \in Workers,
           Prepare(w) \/ RevertToSnapshot(w) \/ RevertDone(w) \/ UnLockAccounts(w)
    PROVE  SerialInv'
<1>1. UNCHANGED <<heap, own, shared, trie, journal>>
  BY PhaseStep
<1>2. ASSUME NEW a \in Calm, NEW v \in Workers, phase'[v] = "reverting" PROVE ~Creates(v, a)
  <2>1. CASE phase[v] = "reverting"
    BY <2>1 DEF SerialInv, SerialAt
  <2>2. CASE phase[v] # "reverting"
    <3>1. RevertToSnapshot(w) /\ v = w
      BY <1>2, <2>2 DEF Prepare, RevertToSnapshot, RevertDone, UnLockAccounts, Inv, Types
    <3>2. SUFFICES ASSUME Creates(w, a) PROVE FALSE
      BY <3>1
    <3>3. PICK i \in 1..Len(journal[w]) : journal[w][i].account = a
      BY <3>2 DEF Creates
    <3>4. Undoing(w, a) \in Calls[a]
      BY <3>1, <3>3 DEF RevertToSnapshot
    <3>. QED
      BY <3>2, <3>4 DEF Undoing, Calm
  <2>. QED
    BY <2>1, <2>2
<1>. QED
  BY <1>1, <1>2, SerialSame

\* Every step keeps the serial invariant.
LEMMA SerialInvStep ==
    ASSUME Inv, SerialInv, [Next]_vars
    PROVE  SerialInv'
<1>1. ASSUME UNCHANGED vars PROVE SerialInv'
  <2>1. UNCHANGED <<heap, own, shared, trie, journal, phase>>
    BY <1>1 DEF vars, tables
  <2>2. \A a \in Calm, v \in Workers : phase'[v] = "reverting" => ~Creates(v, a)
    BY <2>1 DEF SerialInv, SerialAt
  <2>. QED
    BY <2>1, <2>2, SerialSame
<1>2. ASSUME NEW w \in Workers, Call(w) PROVE SerialInv'
  <2>1. ASSUME NEW a \in Accounts,
               \/ Read(w, a) \/ (\E b \in Balances : SetBalance(w, a, b)) \/ (\E n \in Nonces : SetNonce(w, a, n))
               \/ CreateNew(w, a) \/ CreateOver(w, a) \/ Suicide(w, a)
        PROVE  SerialInv'
    <3>1. Inv' /\ Local(w, a) /\ Grows(a) /\ phase' = phase
      BY <2>1, CallGrows
    <3>2. ASSUME NEW b \in Calm PROVE SerialAt(b)'
      <4>1. b \in Accounts /\ SerialAt(b) /\ Calls[b] \subseteq {"create", "revert"}
        BY DEF Calm, SerialInv
      <4>2. CASE b # a
        BY <3>1, <4>1, <4>2, SerialKept
      <4>3. CASE b = a
        <5>1. ~CreateOver(w, a) /\ ~Suicide(w, a)
          BY <4>1, <4>3 DEF CreateOver, Suicide
        <5>2. Read(w, a) => SerialAt(a)'
          BY <4>1, <4>3, ReadSerial
        <5>3. ASSUME \/ (\E x \in Balances : SetBalance(w, a, x)) \/ (\E n \in Nonces : SetNonce(w, a, n))
                     \/ CreateNew(w, a)
              PROVE  SerialAt(a)'
          BY <4>1, <4>3, <5>3, WriteSerial
        <5>4. SerialAt(a)'
          BY <2>1, <5>1, <5>2, <5>3
        <5>. QED
          BY <4>3, <5>4
      <4>. QED
        BY <4>2, <4>3
    <3>. QED
      BY <3>2 DEF SerialInv, Calm
  <2>2. ASSUME RevertEntry(w) PROVE SerialInv'
    <3>1. ASSUME NEW b \in Calm PROVE SerialAt(b)'
      BY <2>2, RevertEntrySerial, RevertEntryKept DEF SerialInv, Calm
    <3>. QED
      BY <3>1 DEF SerialInv, Calm
  <2>3. ASSUME NEW d \in BOOLEAN, Finalise(w, d) PROVE SerialInv'
    BY <2>3, FinaliseSerial
  <2>4. ASSUME Prepare(w) \/ RevertToSnapshot(w) \/ RevertDone(w) \/ UnLockAccounts(w) PROVE SerialInv'
    BY <2>4, PhaseSerial
  <2>. QED
    BY <1>2, <2>1, <2>2, <2>3, <2>4 DEF Call
<1>. QED
  BY <1>1, <1>2 DEF Next, BlockDone

\* The tables start empty.
LEMMA InitSerial == ASSUME Init PROVE SerialInv
<1>1. /\ own = [w \in Workers |-> [a \in Accounts |-> Nil]] /\ shared = [a \in Accounts |-> Nil]
      /\ journal = [w \in Workers |-> << >>] /\ phase = [w \in Workers |-> "idle"]
  BY DEF Init
<1>2. \A w \in Workers : Len(journal[w]) = 0 /\ phase[w] = "idle"
  BY <1>1
<1>3. \A a \in Calm : a \in Accounts
  BY DEF Calm
<1>. QED
  BY <1>1, <1>2, <1>3 DEF SerialInv, SerialAt

\* Every table has the same object of a calm account, and undoing the journal gives
\* what the trie stores, although other accounts are removed, created again and
\* un-created by the same transactions.
THEOREM SerialInvariance == Spec => []SerialInv
<1>1. Init => SerialInv
  BY InitSerial
<1>2. Inv /\ SerialInv /\ [Next]_vars => SerialInv'
  BY SerialInvStep
<1>. QED
  BY <1>1, <1>2, Invariance, PTL DEF Spec

\* "can be executed and verified in order" (multi_statedb.go:39): every worker reads
\* of a calm account nobody holds what is stored, so a replay of the stored
\* transactions reads the same of it. Of the other accounts it is false: the
\* stale own entry of getStateObject (line 445).
THEOREM TablesAreCoherent == Spec => []Coherent
<1>1. Inv /\ SerialInv => Coherent
  <2> SUFFICES ASSUME Inv, SerialInv PROVE Coherent
    OBVIOUS
  <2>1. TypeOK
    BY DEF Inv, Types, JournalInv, TypeOK
  <2>2. ASSUME NEW w \in Workers, NEW a \in Calm, holder[a] = Free PROVE View(w, a) = StoredView(a)
    <3>1. \A v \in Workers : \A i \in 1..Len(journal[v]) : journal[v][i].account # a
      BY <2>2, NilAssumption DEF Inv, JournalInv
    <3>2. a \in Accounts /\ SerialAt(a)
      BY DEF Calm, SerialInv
    <3>. QED
      BY <3>1, <3>2, CleanView
  <2>. QED
    BY <2>1, <2>2 DEF Coherent, CachesCoherent, Agrees
<1>. QED
  BY <1>1, Invariance, SerialInvariance, PTL

-----------------------------------------------------------------------------
(* What SerialState has as the world                                       *)
World(a) == IF holder[a] = Free \/ Reverting(a) THEN StoredView(a) ELSE View(holder[a], a)

world == [a \in Calm |-> World(a)]
stored == [a \in Calm |-> StoredView(a)]
held == [a \in Calm |-> holder[a]]

NoEntries(a) == \A v \in Workers : \A i \in 1..Len(journal[v]) : journal[v][i].account # a

\* CleanView for all the calm accounts.
LEMMA CleanViews ==
    Inv /\ SerialInv => \A a \in Calm, w \in Workers : NoEntries(a) => View(w, a) = StoredView(a)
  BY CleanView DEF NoEntries, SerialInv, Calm

\* The same in the next state.
LEMMA CleanViewsNext ==
    Inv' /\ SerialInv' =>
       (\A a \in Calm, w \in Workers : NoEntries(a) => View(w, a) = StoredView(a))'
  BY CleanViews, PTL

\* An account whose holder, tables and object stay is the same in the abstract
\* world.
LEMMA WorldKept ==
    ASSUME Inv, Inv', NEW b \in Accounts, holder'[b] = holder[b],
           holder[b] # Free =>
              /\ phase'[holder[b]] = phase[holder[b]]
              /\ own'[holder[b]][b] = own[holder[b]][b] /\ shared'[b] = shared[b]
              /\ \A r \in Ref : Used(r, b) => heap'[r] = heap[r],
           trie'[b] = trie[b]
    PROVE  World(b)' = World(b) /\ StoredView(b)' = StoredView(b)
<1>1. StoredView(b)' = StoredView(b)
  BY DEF StoredView
<1>2. CASE holder[b] = Free
  BY <1>1, <1>2 DEF World
<1>3. CASE holder[b] # Free
  <2>1. PICK v \in Workers : holder[b] = v
    BY <1>3 DEF Inv, Types
  <2>2. v # Free /\ holder'[b] = v /\ Types /\ Types'
    BY <1>3, <2>1 DEF Inv
  <2>3. Reverting(b)' <=> Reverting(b)
    BY <2>1, <2>2 DEF Reverting
  <2>4. View(v, b)' = View(v, b)
    BY <2>1, <2>2, ViewKept
  <2>. QED
    BY <1>1, <2>1, <2>2, <2>3, <2>4 DEF World
<1>. QED
  BY <1>2, <1>3

\* A local step leaves the other accounts of the abstract world alone.
LEMMA LocalWorld ==
    ASSUME Inv, Inv', NEW w \in Workers, NEW a \in Accounts, Local(w, a), phase' = phase,
           NEW b \in Accounts \ {a}
    PROVE  World(b)' = World(b) /\ StoredView(b)' = StoredView(b)
<1>1. holder'[b] = holder[b] /\ trie'[b] = trie[b] /\ shared'[b] = shared[b]
  BY DEF Local, Inv, Types
<1>2. holder[b] # Free => own'[holder[b]][b] = own[holder[b]][b]
  BY DEF Local, Inv, Types
<1>3. \A r \in Ref : Used(r, b) => heap'[r] = heap[r]
  BY LocalKeeps
<1>. QED
  BY <1>1, <1>2, <1>3, WorldKept

\* An account that a worker holds without entries, or that nobody holds, is what
\* is stored.
LEMMA CleanWorld ==
    ASSUME Inv, SerialInv, NEW a \in Calm, NEW w \in Workers,
           holder[a] = Free \/ (holder[a] = w /\ journal[w] = << >>)
    PROVE  View(w, a) = StoredView(a) /\ World(a) = StoredView(a)
<1>1. NoEntries(a)
  BY NilAssumption DEF NoEntries, Inv, JournalInv
<1>2. View(w, a) = StoredView(a)
  BY <1>1, CleanViews
<1>. QED
  BY <1>2 DEF World

\* The lock of an account is granted in the abstract state as well, unless the
\* account is not calm.
LEMMA GrantHeld ==
    ASSUME Inv, NEW w \in Workers, NEW a \in Accounts, Locks!Grant(w, a)
    PROVE  /\ a \in Calm => held[a] \in {w, Free} /\ held' = [held EXCEPT ![a] = w]
           /\ a \notin Calm => held' = held
<1>1. holder' = [holder EXCEPT ![a] = w] /\ holder[a] \in {w, Free} /\ holder \in [Accounts -> Workers \cup {Free}]
  BY DEF Locks!Grant, Inv, Types
<1>2. \A b \in Calm : b \in Accounts /\ held[b] = holder[b] /\ held'[b] = holder'[b]
  BY DEF held, Calm
<1>3. \A b \in Calm : b # a => holder'[b] = holder[b]
  BY <1>1, <1>2
<1>4. CASE a \in Calm
  <2>1. held' = [b \in Calm |-> IF b = a THEN w ELSE held[b]]
    BY <1>1, <1>2, <1>3 DEF held, Calm
  <2>. QED
    BY <1>1, <1>2, <1>4, <2>1 DEF held
<1>5. CASE a \notin Calm
  BY <1>3, <1>5 DEF held
<1>. QED
  BY <1>4, <1>5

\* A call on an account that is not calm does not show.
LEMMA OtherStutters ==
    ASSUME Inv, SerialInv, NEW w \in Workers, NEW a \in Accounts \ Calm,
           \/ Read(w, a) \/ (\E b \in Balances : SetBalance(w, a, b)) \/ (\E n \in Nonces : SetNonce(w, a, n))
           \/ CreateNew(w, a) \/ CreateOver(w, a) \/ Suicide(w, a)
    PROVE  UNCHANGED <<held, world, stored>>
<1>1. Inv' /\ Local(w, a) /\ phase' = phase /\ Locks!Grant(w, a)
  BY CallGrows
<1>2. \A b \in Calm : World(b)' = World(b) /\ StoredView(b)' = StoredView(b)
  BY <1>1, LocalWorld DEF Calm
<1>. QED
  BY <1>1, <1>2, GrantHeld DEF world, stored

\* The getters take the account and leave the world alone.
LEMMA ReadAcquires ==
    ASSUME Inv, SerialInv, NEW w \in Workers, NEW a \in Calm, Read(w, a)
    PROVE  SS!Acquire(w, a)
<1>0. a \in Accounts /\ SerialAt(a)
  BY DEF Calm, SerialInv
<1>1. Inv' /\ Local(w, a) /\ View(w, a)' = View(w, a) /\ StoredView(a)' = StoredView(a)
  BY <1>0, ReadStep, ReadSerial
<1>2. Locks!Grant(w, a) /\ phase[w] = "running" /\ phase' = phase /\ Free \notin Workers /\ holder'[a] = w
  BY <1>0, NilAssumption DEF Read, requestAndLock, Locks!Grant, Inv, Types
<1>3. World(a) = View(w, a)
  <2>1. holder[a] = Free => World(a) = View(w, a)
    BY CleanWorld
  <2>2. holder[a] = w => World(a) = View(w, a)
    BY <1>2 DEF World, Reverting
  <2>. QED
    BY <1>2, <2>1, <2>2 DEF Locks!Grant
<1>4. World(a)' = View(w, a)'
  BY <1>2 DEF World, Reverting
<1>5. \A b \in Calm : World(b)' = World(b) /\ StoredView(b)' = StoredView(b)
  BY <1>0, <1>1, <1>2, <1>3, <1>4, LocalWorld DEF Calm
<1>6. world' = world /\ stored' = stored
  BY <1>5 DEF world, stored
<1>7. held[a] \in {w, Free} /\ held' = [held EXCEPT ![a] = w]
  BY <1>0, <1>2, GrantHeld
<1>. QED
  BY <1>6, <1>7 DEF SS!Acquire, SS!Locks!Grant, world, stored, World, held

\* The setters and CreateAccount write the account.
LEMMA SettersWrite ==
    ASSUME Inv, SerialInv, NEW w \in Workers, NEW a \in Calm,
           \/ (\E b \in Balances : SetBalance(w, a, b)) \/ (\E n \in Nonces : SetNonce(w, a, n))
           \/ CreateNew(w, a)
    PROVE  SS!Write(w, a)
<1>0. a \in Accounts /\ SerialAt(a)
  BY DEF Calm, SerialInv
<1>1. Inv' /\ Local(w, a) /\ View(w, a)' \in [data : Account, suicided : BOOLEAN]
  BY <1>0, SettersStep, CreateNewStep, WriteSerial
<1>2. /\ Locks!Grant(w, a) /\ phase[w] = "running" /\ phase' = phase /\ trie' = trie
      /\ Free \notin Workers /\ holder'[a] = w
  BY <1>0, NilAssumption DEF SetBalance, SetNonce, CreateNew, Change, requestAndLock, Locks!Grant, Inv, Types
<1>3. World(a)' = View(w, a)' /\ StoredView(a)' = StoredView(a)
  BY <1>2 DEF World, Reverting, StoredView
<1>4. \A b \in Calm \ {a} : World(b)' = World(b) /\ StoredView(b)' = StoredView(b)
  BY <1>0, <1>1, <1>2, LocalWorld DEF Calm
<1>5. world' = [world EXCEPT ![a] = View(w, a)'] /\ stored' = stored
  BY <1>3, <1>4 DEF world, stored
<1>6. held[a] \in {w, Free} /\ held' = [held EXCEPT ![a] = w]
  BY <1>0, <1>2, GrantHeld
<1>. QED
  BY <1>1, <1>5, <1>6 DEF SS!Write, SS!Locks!Grant, world, stored, World, held

\* The entries that are undone do not show before the undo is done.
LEMMA RevertEntryStutters ==
    ASSUME Inv, NEW w \in Workers, RevertEntry(w)
    PROVE  UNCHANGED <<held, world, stored>>
<1> DEFINE e == LastEntry(w)
           c == e.account
<1>1. Inv' /\ Local(w, c) /\ holder' = holder /\ phase' = phase /\ trie' = trie /\ phase[w] = "reverting"
  BY RevertEntryStep DEF RevertEntry
<1>2. c \in Accounts /\ holder[c] = w /\ w # Free
  <2>1. LastEntry(w) \in Entry /\ Len(journal[w]) \in 1..Len(journal[w]) /\ LastEntry(w) = journal[w][Len(journal[w])]
    BY RevertEntries DEF Inv
  <2>. QED
    BY <2>1, NilAssumption DEF Inv, JournalInv, Entry
<1>3. PICK a \in Accounts : a = c
  BY <1>2
<1>4. World(a)' = World(a) /\ StoredView(a)' = StoredView(a)
  BY <1>1, <1>2, <1>3 DEF World, Reverting, StoredView
<1>5. \A b \in Accounts \ {a} : World(b)' = World(b) /\ StoredView(b)' = StoredView(b)
  BY <1>1, <1>3, LocalWorld
<1>6. \A b \in Calm : World(b)' = World(b) /\ StoredView(b)' = StoredView(b)
  BY <1>4, <1>5 DEF Calm
<1>7. world' = world /\ stored' = stored
  BY <1>6 DEF world, stored
<1>. QED
  BY <1>1, <1>7 DEF held

\* Finalise commits what the worker has changed and removes no calm account.
LEMMA FinaliseCommits ==
    ASSUME Inv, SerialInv, NEW w \in Workers, NEW deleteEmptyObjects \in BOOLEAN,
           Finalise(w, deleteEmptyObjects)
    PROVE  SS!Commit(w)
<1>1. /\ Inv' /\ SerialInv' /\ UNCHANGED <<holder, own, shared>> /\ journal'[w] = << >>
      /\ \A a \in Accounts : holder[a] # w =>
            trie'[a] = trie[a] /\ \A r \in Ref : Used(r, a) => heap'[r] = heap[r]
      /\ \A a \in Calm : shared[a] # Nil => heap'[shared[a]] = heap[shared[a]]
      /\ Types /\ Types' /\ w # Free
  BY FinaliseStep, FinaliseSerial, NilAssumption DEF Inv
<1>2. /\ phase[w] = "running" /\ phase' = [phase EXCEPT ![w] = "finalised"]
      /\ \A a \in Accounts : own[w][a] = Nil => trie'[a] = trie[a]
  BY DEF Finalise
<1>3. phase'[w] = "finalised" /\ \A v \in Workers \ {w} : phase'[v] = phase[v]
  BY <1>1, <1>2 DEF Types
<1>4. ASSUME NEW a \in Calm, holder[a] = w
      PROVE  World(a)' = World(a) /\ StoredView(a)' = World(a)'
  <2>0. a \in Accounts /\ SerialAt(a)
    BY DEF Calm, SerialInv
  <2>1. World(a) = View(w, a) /\ World(a)' = View(w, a)'
    BY <1>1, <1>2, <1>3, <1>4 DEF World, Reverting
  <2>2. View(w, a)' = StoredView(a)'
    <3>1. NoEntries(a)'
      BY <1>1, <1>4, <2>0 DEF NoEntries, Inv, JournalInv
    <3>2. a \in Calm'
      BY DEF Calm
    <3>. QED
      BY <1>1, <3>1, <3>2, CleanViewsNext
  <2>3. View(w, a)' = View(w, a)
    <3>1. Reads(w, a) /\ Reads(w, a)' /\ Reach(w, a)' = Reach(w, a) /\ Reach(w, a) = shared[a]
      BY <1>1, <2>0, ViewIs, ViewIsNext DEF Reach, SerialAt
    <3>2. CASE Reach(w, a) # Nil
      <4>1. heap'[Reach(w, a)] = heap[Reach(w, a)]
        BY <1>1, <3>1, <3>2
      <4>. QED
        BY <3>1, <3>2, <4>1 DEF Reads
    <3>3. CASE Reach(w, a) = Nil
      <4>1. trie'[a] = trie[a]
        BY <1>2, <2>0, <3>3 DEF Reach
      <4>2. StoredView(a)' = StoredView(a)
        BY <4>1 DEF StoredView
      <4>. QED
        BY <3>1, <3>3, <4>2 DEF Reads
    <3>. QED
      BY <3>2, <3>3
  <2>. QED
    BY <2>1, <2>2, <2>3
<1>5. ASSUME NEW a \in Calm, holder[a] # w
      PROVE  World(a)' = World(a) /\ StoredView(a)' = StoredView(a)
  <2>0. a \in Accounts
    BY DEF Calm
  <2>1. holder[a] # Free => phase'[holder[a]] = phase[holder[a]]
    BY <1>1, <1>3, <1>5, <2>0 DEF Types
  <2>. QED
    BY <1>1, <1>5, <2>0, <2>1, WorldKept
<1>6. world' = world
  BY <1>4, <1>5 DEF world
<1>7. stored' = [a \in Calm |-> IF held[a] = w THEN world'[a] ELSE stored[a]]
  BY <1>4, <1>5 DEF world, stored, held
<1>8. world' = [a \in Calm |-> IF a \in {} THEN Absent ELSE world[a]]
  BY <1>6 DEF world
<1>. QED
  <2>1. stored' = [a \in Calm |-> IF a \in {b \in Calm : held[b] = w} THEN world'[a] ELSE stored[a]]
    BY <1>7
  <2>2. \E gone \in SUBSET {b \in Calm : held[b] = w} :
           world' = [a \in Calm |-> IF a \in gone THEN Absent ELSE world[a]]
    <3>1. {} \in SUBSET {b \in Calm : held[b] = w}
      OBVIOUS
    <3>. QED
      BY <1>8, <3>1
  <2>3. held' = held
    BY <1>1 DEF held
  <2>. QED
    BY <2>1, <2>2, <2>3, Zenon DEF SS!Commit, SS!Held, world, stored, World, held

\* The other steps of a transaction: an undo gives up the changes when it begins,
\* and UnLockAccounts releases what is stored.
LEMMA PhaseRefines ==
    ASSUME Inv, SerialInv, NEW w \in Workers,
           Prepare(w) \/ RevertToSnapshot(w) \/ RevertDone(w) \/ UnLockAccounts(w)
    PROVE  SS!Revert(w) \/ SS!Release(w) \/ UNCHANGED <<held, world, stored>>
<1>0. Calm \subseteq Accounts /\ Calm' = Calm
  BY DEF Calm
<1>1. /\ Inv' /\ UNCHANGED <<heap, own, shared, trie, journal>> /\ Free \notin Workers
      /\ \A a \in Accounts : holder[a] # w => holder'[a] = holder[a]
      /\ SerialInv'
  BY PhaseStep, PhaseSerial, NilAssumption
<1>2. \A a \in Calm : StoredView(a)' = StoredView(a)
  BY <1>1 DEF StoredView
<1>3. stored' = stored
  BY <1>2 DEF stored
<1>4. \A v \in Workers \ {w} : phase'[v] = phase[v]
  BY DEF Prepare, RevertToSnapshot, RevertDone, UnLockAccounts, Inv, Types
<1>5. \A a \in Calm : holder[a] # w => World(a)' = World(a)
  <2> SUFFICES ASSUME NEW a \in Calm, holder[a] # w PROVE World(a)' = World(a)
    OBVIOUS
  <2>0. a \in Accounts
    BY <1>0
  <2>1. holder[a] # Free => phase'[holder[a]] = phase[holder[a]]
    BY <1>4, <2>0 DEF Inv, Types
  <2>. QED
    BY <1>1, <2>0, <2>1, WorldKept
<1>6. CASE Prepare(w) \/ RevertDone(w)
  <2>1. ASSUME NEW a \in Calm, holder[a] = w PROVE World(a)' = World(a)
    <3>0. a \in Accounts
      BY <1>0
    <3>1. holder' = holder
      BY <1>6 DEF Prepare, RevertDone
    <3>2. CASE Prepare(w)
      <4>1. phase[w] = "idle" /\ phase'[w] = "running"
        BY <3>2 DEF Prepare, Inv, Types
      <4>2. View(w, a)' = View(w, a)
        BY <1>1, <3>0, ViewKept DEF Inv
      <4>. QED
        BY <1>1, <2>1, <3>1, <4>1, <4>2 DEF World, Reverting
    <3>3. CASE RevertDone(w)
      <4>1. journal[w] = << >> /\ journal'[w] = << >>
        BY <1>1, <3>3 DEF RevertDone
      <4>2. phase'[w] = "running"
        BY <3>3 DEF RevertDone, Inv, Types
      <4>3. World(a) = StoredView(a)
        BY <2>1, <4>1, CleanWorld
      <4>4. NoEntries(a)'
        BY <1>1, <2>1, <3>0, <3>1, <4>1 DEF NoEntries, Inv, JournalInv
      <4>5. View(w, a)' = StoredView(a)'
        BY <1>0, <1>1, <4>4, CleanViewsNext
      <4>6. World(a)' = View(w, a)'
        BY <1>1, <2>1, <3>1, <4>2 DEF World, Reverting
      <4>. QED
        BY <1>2, <4>3, <4>5, <4>6
    <3>. QED
      BY <1>6, <3>2, <3>3
  <2>2. world' = world
    BY <1>5, <2>1 DEF world
  <2>3. held' = held
    BY <1>6 DEF Prepare, RevertDone, held
  <2>. QED
    BY <1>3, <2>2, <2>3
<1>7. CASE RevertToSnapshot(w)
  <2>1. holder' = holder /\ phase'[w] = "reverting"
    BY <1>7 DEF RevertToSnapshot, Inv, Types
  <2>2. \A a \in Calm : holder[a] = w => World(a)' = StoredView(a)
    BY <1>1, <1>2, <2>1 DEF World, Reverting
  <2>3. world' = [a \in Calm |-> IF a \in {b \in Calm : held[b] = w} THEN stored[a] ELSE world[a]]
    BY <1>5, <2>2 DEF world, stored, held
  <2>4. held' = held
    BY <2>1 DEF held
  <2>. QED
    BY <1>3, <2>3, <2>4 DEF SS!Revert, SS!Held, world, stored, World, held
<1>8. CASE UnLockAccounts(w)
  <2>1. Locks!Release(w) /\ journal[w] = << >>
    BY <1>8 DEF UnLockAccounts, Inv, PhaseInv
  <2>2. \A a \in Calm : holder[a] = w => World(a) = StoredView(a)
    BY <2>1, CleanWorld
  <2>3. \A a \in Calm : holder[a] = w => World(a)' = StoredView(a)'
    BY <1>0, <2>1 DEF World, Locks!Release
  <2>4. world' = world
    BY <1>2, <1>5, <2>2, <2>3 DEF world
  <2>5. \A a \in {b \in Calm : held[b] = w} : world[a] = stored[a]
    BY <2>2 DEF world, stored, held
  <2>6. held' = [a \in Calm |-> IF held[a] = w THEN Free ELSE held[a]]
    BY <1>0, <2>1 DEF Locks!Release, held
  <2>. QED
    BY <1>3, <2>4, <2>5, <2>6 DEF SS!Release, SS!Held, SS!Locks!Release, world, stored, World, held
<1>. QED
  BY <1>6, <1>7, <1>8

\* Workers that execute transactions in parallel do to the calm accounts, which are
\* created, changed and their changes undone, what transactions that run one after
\* the other would, whatever they do to the other accounts: removals, creations
\* over them and undone creations (multi_statedb.go:39 and 555).
THEOREM TransactionsAreSerial == Spec => ImplementsSerialState
<1>1. Init => SS!Init
  <2> SUFFICES ASSUME Init PROVE SS!Init
    OBVIOUS
  <2>1. holder = [a \in Accounts |-> Free]
    BY DEF Init, Locks!Init
  <2>2. \A a \in Calm : a \in Accounts
    BY DEF Calm
  <2>3. world = stored
    BY <2>1, <2>2 DEF world, stored, World
  <2>4. held = [a \in Calm |-> Free]
    BY <2>1, <2>2 DEF held
  <2>. QED
    BY <2>3, <2>4 DEF SS!Init, SS!Locks!Init, world, stored, World, held
<1>2. Inv /\ SerialInv /\ [Next]_vars => [SS!Next]_(SS!vars)
  <2> SUFFICES ASSUME Inv, SerialInv, [Next]_vars
               PROVE  SS!Next \/ UNCHANGED <<held, world, stored>>
    BY DEF SS!vars, world, stored, World, held
  <2>1. ASSUME UNCHANGED vars PROVE UNCHANGED <<held, world, stored>>
    <3>1. UNCHANGED <<holder, heap, own, shared, trie, phase>> /\ Inv'
      BY <2>1, StutterStep DEF vars, tables
    <3>2. \A a \in Calm : World(a)' = World(a) /\ StoredView(a)' = StoredView(a)
      BY <3>1, WorldKept DEF Calm
    <3>. QED
      BY <3>1, <3>2 DEF world, stored, held
  <2>2. ASSUME NEW w \in Workers, Call(w) PROVE SS!Next \/ UNCHANGED <<held, world, stored>>
    <3>1. ASSUME NEW a \in Accounts,
                 \/ Read(w, a) \/ (\E b \in Balances : SetBalance(w, a, b)) \/ (\E n \in Nonces : SetNonce(w, a, n))
                 \/ CreateNew(w, a) \/ CreateOver(w, a) \/ Suicide(w, a)
          PROVE  UNCHANGED <<held, world, stored>> \/ (\E b \in Calm : SS!Acquire(w, b) \/ SS!Write(w, b))
      <4>1. CASE a \notin Calm
        BY <3>1, <4>1, OtherStutters
      <4>2. CASE a \in Calm
        <5>1. ~CreateOver(w, a) /\ ~Suicide(w, a)
          BY <4>2 DEF CreateOver, Suicide, Calm
        <5>2. Read(w, a) => SS!Acquire(w, a)
          BY <4>2, ReadAcquires
        <5>3. ASSUME \/ (\E b \in Balances : SetBalance(w, a, b)) \/ (\E n \in Nonces : SetNonce(w, a, n))
                     \/ CreateNew(w, a)
              PROVE  SS!Write(w, a)
          BY <4>2, <5>3, SettersWrite
        <5>4. SS!Acquire(w, a) \/ SS!Write(w, a)
          BY <3>1, <5>1, <5>2, <5>3
        <5>. QED
          BY <4>2, <5>4
      <4>. QED
        BY <4>1, <4>2
    <3>2. ASSUME RevertEntry(w) PROVE UNCHANGED <<held, world, stored>>
      BY <3>2, RevertEntryStutters
    <3>3. ASSUME NEW d \in BOOLEAN, Finalise(w, d) PROVE SS!Commit(w)
      BY <3>3, FinaliseCommits
    <3>4. ASSUME Prepare(w) \/ RevertToSnapshot(w) \/ RevertDone(w) \/ UnLockAccounts(w)
          PROVE  SS!Revert(w) \/ SS!Release(w) \/ UNCHANGED <<held, world, stored>>
      BY <3>4, PhaseRefines
    <3>5. \/ UNCHANGED <<held, world, stored>>
          \/ (\E a \in Calm : SS!Acquire(w, a) \/ SS!Write(w, a))
          \/ SS!Revert(w) \/ SS!Commit(w) \/ SS!Release(w)
      BY <2>2, <3>1, <3>2, <3>3, <3>4 DEF Call
    <3>. QED
      BY <3>5 DEF SS!Next
  <2>. QED
    BY <2>1, <2>2 DEF Next, BlockDone
<1>. QED
  BY <1>1, <1>2, Invariance, SerialInvariance, PTL DEF Spec, ImplementsSerialState, SS!Spec
=============================================================================
