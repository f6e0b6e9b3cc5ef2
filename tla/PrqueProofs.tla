---------------------------- MODULE PrqueProofs ----------------------------
(***************************************************************************)
(* Proofs about Prque, for any values, size of a block and size of a word: *)
(* the blocks hold exactly the items of the queue, every owner knows where *)
(* its value is, and the root is the item with the greatest priority.      *)
(***************************************************************************)
EXTENDS Prque, FiniteSetTheorems, TLAPS

Spec == QueueInit /\ [][QueueNext]_queueVars

Entries == [value : Values, priority : 0 .. Words - 1]
Things == Entries \cup {Nil}
Conts(nb) ==
    [size : Nat, capacity : Nat, offset : Nat, active : Nat,
     blocks : [0 .. nb - 1 -> [0 .. BlockSize - 1 -> Things]]]

\* The stack c with nb blocks: its size, capacity, offset and active block agree.
Blocks(c, nb) ==
    /\ c \in Conts(nb) /\ c.capacity = nb * BlockSize /\ c.size <= c.capacity
    /\ c.active < nb /\ c.offset <= BlockSize /\ c.size = c.active * BlockSize + c.offset

\* What is at the places below the size, and what the owners know of it.
At(c, p) == c.blocks[p \div BlockSize][p % BlockSize]
Filled(c, n) ==
    /\ \A p \in 0 .. n - 1 : At(c, p) \in Entries
    /\ \A p \in n .. c.capacity - 1 : At(c, p) = Nil
Placed(c, x, n) == \A p \in 0 .. n - 1 : x[At(c, p).value] = p
Owned(c, x, gone, n) == \A v \in Values \ gone : x[v] >= 0 => x[v] < n /\ At(c, x[v]).value = v

\* The priorities are less than half the words above low, so that the order of
\* the words that wraps around is that of the distances from low.
Rank(low, it) == (it.priority - low) % Words
Window(c, low, n) == \A p \in 0 .. n - 1 : 2 * Rank(low, At(c, p)) < Words
Ranks(c, low, n) == [p \in 0 .. n - 1 |-> Rank(low, At(c, p))]
Before(c, p, q) == Signed(At(c, p).priority - At(c, q).priority) > 0
Heap(c, n) == \A p \in 0 .. n - 1 : p > 0 => ~ Before(c, p, Parent(p))

\* The stack c with n items and the indices x: all but the order of the items.
Sound(c, x, gone, low, n) ==
    /\ c.size = n /\ (\E nb \in Nat \ {0} : Blocks(c, nb)) /\ Filled(c, n)
    /\ x \in [Values -> Nat \cup {-1}] /\ gone \subseteq Values
    /\ Placed(c, x, n) /\ Owned(c, x, gone, n)
    /\ low \in 0 .. Words - 1 /\ Window(c, low, n)

Inv == \E low \in 0 .. Words - 1 : Sound(cont, index, dropped, low, cont.size) /\ Heap(cont, cont.size)

-----------------------------------------------------------------------------
\* Induction on the natural numbers, for a set of them: otherwise the numbers
\* up to which all are in the set are finitely many, and adding one to each
\* of them would map them one to one to those of them that are not 0.
LEMMA SetInduction ==
    ASSUME NEW D, 0 \in D, \A k \in Nat : k \in D => k + 1 \in D
    PROVE  \A n \in Nat : n \in D
<1>. SUFFICES ASSUME NEW n \in Nat, n \notin D PROVE FALSE
  OBVIOUS
<1> DEFINE E == {k \in Nat : \A j \in 0..k : j \in D}
           Successor == [k \in E |-> k + 1]
<1>1. 0 \in E /\ \A k \in E : k + 1 \in E
  <2>1. 0..0 = {0}
    OBVIOUS
  <2>2. ASSUME NEW k \in E PROVE \A j \in 0..(k + 1) : j \in D
    <3>1. \A j \in 0..(k + 1) : j \in 0..k \/ j = k + 1
      OBVIOUS
    <3>. QED
      BY <3>1
  <2>. QED
    BY <2>1, <2>2
<1>2. \A k \in E : k <= n
  <2>1. ASSUME NEW k \in E, ~(k <= n) PROVE FALSE
    <3>1. n \in 0..k
      BY <2>1
    <3>. QED
      BY <3>1
  <2>. QED
    BY <2>1
<1>3. IsFiniteSet(E)
  BY <1>2, FS_BoundedSetOfNaturals, E \in SUBSET Nat
<1>4. /\ IsFiniteSet(E \ {0}) /\ Cardinality(E) \in Nat
      /\ Cardinality(E \ {0}) = Cardinality(E) - 1
  BY <1>1, <1>3, FS_RemoveElement, FS_CardinalityType
<1>5. Successor \in Injection(E, E \ {0})
  BY <1>1 DEF Injection, IsInjective
<1>. HIDE DEF Successor, E
<1>. QED
  BY <1>3, <1>4, <1>5, FS_Injection

-----------------------------------------------------------------------------
\* Blocks that are more have more places.
LEMMA Multiples ==
    ASSUME NEW a \in Nat, NEW b \in Nat, a <= b, NEW k \in Nat
    PROVE  a * k <= b * k
<1>1. PICK d \in Nat : b = a + d
  <2>1. b - a \in Nat /\ b = a + (b - a)
    OBVIOUS
  <2>. QED
    BY <2>1
<1>2. b * k = a * k + d * k
  BY <1>1
<1>3. d * k >= 0 /\ a * k \in Nat /\ d * k \in Nat
  OBVIOUS
<1>. QED
  BY <1>2, <1>3

\* The parts of a place: the number of its block and the place in the block.
LEMMA Division ==
    ASSUME NEW p \in Nat
    PROVE  /\ p \div BlockSize \in Nat /\ (p % BlockSize) \in 0 .. BlockSize - 1
           /\ p = BlockSize * (p \div BlockSize) + (p % BlockSize)
  BY PrqueConstants

\* A block and a place in it are those of one place.
LEMMA Compose ==
    ASSUME NEW q \in Nat, NEW r \in 0 .. BlockSize - 1
    PROVE  /\ q * BlockSize + r \in Nat
           /\ ((q * BlockSize + r) % BlockSize) = r /\ (q * BlockSize + r) \div BlockSize = q
<1>1. BlockSize \in Nat \ {0} /\ r \in Nat /\ r < BlockSize
  BY PrqueConstants
<1>2. q * BlockSize + r \in Nat
  BY <1>1
<1>3. ((BlockSize * q + r) % BlockSize) = r /\ (BlockSize * q + r) \div BlockSize = q
  BY <1>1
<1>4. q * BlockSize = BlockSize * q
  BY <1>1
<1>. QED
  BY <1>2, <1>3, <1>4

\* The remainder of a number that is a multiple of the words and less than one.
LEMMA Remainder ==
    ASSUME NEW e \in Int, NEW q \in Int, NEW r \in 0 .. Words - 1, e = Words * q + r
    PROVE  (e % Words) = r
<1>1. Words \in Nat \ {0} /\ r \in Nat /\ r < Words
  BY PrqueConstants
<1>2. ((Words * q + r) % Words) = r
  BY <1>1
<1>. QED
  BY <1>2

\* The difference of two words, within half the words of each other.
LEMMA Differences ==
    ASSUME NEW a \in Int, NEW b \in Int, NEW low \in Int,
           2 * ((a - low) % Words) < Words, 2 * ((b - low) % Words) < Words
    PROVE  Signed(a - b) = ((a - low) % Words) - ((b - low) % Words)
<1>1. PICK x \in 0 .. Words - 1 : x = (a - low) % Words
  BY PrqueConstants
<1>2. PICK y \in 0 .. Words - 1 : y = (b - low) % Words
  BY PrqueConstants
<1>3. Words \in Nat \ {0} /\ 2 * x < Words /\ 2 * y < Words
  BY <1>1, <1>2, PrqueConstants
<1>4. PICK d \in Int : a - b = Words * d + (x - y)
  <2>1. a - low = Words * ((a - low) \div Words) + x /\ (a - low) \div Words \in Int
    BY <1>1, <1>3
  <2>2. b - low = Words * ((b - low) \div Words) + y /\ (b - low) \div Words \in Int
    BY <1>2, <1>3
  <2>3. PICK m \in Int, k \in Int : a - low = Words * m + x /\ b - low = Words * k + y
    BY <2>1, <2>2
  <2>4. a - b = Words * (m - k) + (x - y)
    BY <1>3, <2>3
  <2>. QED
    BY <2>4
<1>5. CASE x >= y
  <2>0. x - y \in 0 .. Words - 1 /\ a - b \in Int
    BY <1>3, <1>5
  <2>1. ((a - b) % Words) = x - y
    BY <1>4, <2>0, Remainder
  <2>. QED
    BY <1>1, <1>2, <1>3, <1>5, <2>1 DEF Signed
<1>6. CASE x < y
  <2>1. a - b = Words * (d - 1) + (Words + x - y)
    BY <1>3, <1>4
  <2>3. Words + x - y \in 0 .. Words - 1 /\ a - b \in Int /\ d - 1 \in Int
    BY <1>3, <1>6
  <2>2. ((a - b) % Words) = Words + x - y
    BY <2>1, <2>3, Remainder
  <2>. QED
    BY <1>1, <1>2, <1>3, <1>6, <2>2 DEF Signed
<1>. QED
  BY <1>5, <1>6

\* Within a window the order of the words is that of the distances from low.
LEMMA BeforeIs ==
    ASSUME NEW c, NEW low \in 0 .. Words - 1, NEW n \in Nat, Window(c, low, n),
           \A p \in 0 .. n - 1 : At(c, p) \in Entries,
           NEW i \in 0 .. n - 1, NEW j \in 0 .. n - 1
    PROVE  /\ Ranks(c, low, n)[i] \in Nat /\ Ranks(c, low, n)[j] \in Nat
           /\ Before(c, i, j) => Ranks(c, low, n)[i] > Ranks(c, low, n)[j]
           /\ ~ Before(c, i, j) => Ranks(c, low, n)[i] <= Ranks(c, low, n)[j]
<1>1. PICK a \in 0 .. Words - 1 : a = At(c, i).priority
  BY DEF Entries
<1>2. PICK b \in 0 .. Words - 1 : b = At(c, j).priority
  BY DEF Entries
<1>3. PICK x : x = (a - low) % Words
  OBVIOUS
<1>4. PICK y : y = (b - low) % Words
  OBVIOUS
<1>5. x \in Nat /\ y \in Nat
  BY <1>3, <1>4, PrqueConstants
<1>6. Ranks(c, low, n)[i] = x /\ Ranks(c, low, n)[j] = y
  BY <1>1, <1>2, <1>3, <1>4 DEF Ranks, Rank
<1>7. 2 * x < Words /\ 2 * y < Words
  BY <1>1, <1>2, <1>3, <1>4 DEF Window, Rank
<1>8. Signed(a - b) = x - y
  <2>1. 2 * ((a - low) % Words) < Words /\ 2 * ((b - low) % Words) < Words
    BY <1>3, <1>4, <1>7
  <2>2. a \in Int /\ b \in Int /\ low \in Int
    BY PrqueConstants
  <2>3. Signed(a - b) = ((a - low) % Words) - ((b - low) % Words)
    BY <2>1, <2>2, Differences
  <2>. QED
    BY <1>3, <1>4, <2>3
<1>9. Before(c, i, j) => x > y
  BY <1>1, <1>2, <1>5, <1>8 DEF Before
<1>10. ~ Before(c, i, j) => x <= y
  BY <1>1, <1>2, <1>5, <1>8 DEF Before
<1>. QED
  BY <1>5, <1>6, <1>9, <1>10

-----------------------------------------------------------------------------
\* A heap of numbers a, and one in which the place j may still have to rise or
\* the place k may still have to sink.
HeapOf(a, n) == \A p \in 1 .. n - 1 : a[p] <= a[Parent(p)]
Rising(a, j, n) ==
    \A p \in 1 .. n - 1 :
        /\ p # j => a[p] <= a[Parent(p)]
        /\ Parent(p) = j /\ j > 0 => a[p] <= a[Parent(j)]
Sinking(a, k, n) ==
    \A p \in 1 .. n - 1 :
        /\ p # k /\ Parent(p) # k => a[p] <= a[Parent(p)]
        /\ Parent(p) = k /\ k > 0 => a[p] <= a[Parent(k)]
Swapped(a, b, i, j, n) ==
    /\ b[i] = a[j] /\ b[j] = a[i]
    /\ \A p \in 0 .. n - 1 : p # i /\ p # j => b[p] = a[p]

\* The parent of a place is before it, and has two children.
LEMMA ParentIs ==
    ASSUME NEW p \in Nat, p > 0
    PROVE  /\ Parent(p) \in Nat /\ Parent(p) < p
           /\ p = 2 * Parent(p) + 1 \/ p = 2 * Parent(p) + 2
  BY DEF Parent

\* The places of which a place is the parent.
LEMMA ChildrenOf ==
    ASSUME NEW i \in Nat
    PROVE  Parent(2 * i + 1) = i /\ Parent(2 * i + 2) = i
  BY DEF Parent

\* No item of a heap is before its root.
LEMMA HeapRoot ==
    ASSUME NEW n \in Nat, NEW a \in [0 .. n - 1 -> Nat], HeapOf(a, n)
    PROVE  \A p \in 0 .. n - 1 : a[p] <= a[0]
<1> DEFINE D == {m \in Nat : \A p \in 0 .. n - 1 : p <= m => a[p] <= a[0]}
<1>1. 0 \in D
  OBVIOUS
<1>2. ASSUME NEW m \in Nat, m \in D PROVE m + 1 \in D
  <2>1. ASSUME NEW p \in 0 .. n - 1, p <= m + 1 PROVE a[p] <= a[0]
    <3>1. CASE p = 0
      BY <3>1
    <3>2. CASE p > 0
      <4>1. Parent(p) \in 0 .. n - 1 /\ Parent(p) <= m
        BY <2>1, <3>2, ParentIs
      <4>2. a[p] <= a[Parent(p)] /\ a[Parent(p)] <= a[0]
        BY <1>2, <3>2, <4>1 DEF HeapOf
      <4>. QED
        BY <4>1, <4>2
    <3>. QED
      BY <3>1, <3>2
  <2>. QED
    BY <2>1
<1>3. \A m \in Nat : m \in D
  <2>. HIDE DEF D
  <2>. QED
    BY <1>1, <1>2, SetInduction
<1>. QED
  BY <1>3

\* In a heap any place may be said to rise.
LEMMA HeapRises ==
    ASSUME NEW n \in Nat, NEW a \in [0 .. n - 1 -> Nat], HeapOf(a, n), NEW j \in 0 .. n - 1
    PROVE  Rising(a, j, n)
<1>1. ASSUME NEW p \in 1 .. n - 1, Parent(p) = j, j > 0 PROVE a[p] <= a[Parent(j)]
  <2>1. Parent(j) \in Nat /\ Parent(j) < j
    BY <1>1, ParentIs
  <2>2. a[p] <= a[j] /\ a[j] <= a[Parent(j)]
    BY <1>1 DEF HeapOf
  <2>3. Parent(j) \in 0 .. n - 1
    BY <2>1
  <2>. QED
    BY <2>2, <2>3
<1>. QED
  BY <1>1 DEF HeapOf, Rising

\* One round up: the place is after its parent and changes with it.
LEMMA RiseStep ==
    ASSUME NEW n \in Nat, NEW a \in [0 .. n - 1 -> Nat], NEW b \in [0 .. n - 1 -> Nat],
           NEW j \in 1 .. n - 1, NEW i \in 0 .. n - 1, i = Parent(j),
           Rising(a, j, n), a[j] > a[i], Swapped(a, b, i, j, n)
    PROVE  Rising(b, i, n)
<1>1. i < j /\ b[i] = a[j] /\ b[j] = a[i]
  BY ParentIs DEF Swapped
<1>2. ASSUME NEW p \in 1 .. n - 1, p # i PROVE b[p] <= b[Parent(p)]
  <2>0. Parent(p) \in 0 .. n - 1 /\ Parent(p) < p
    BY <1>2, ParentIs
  <2>1. CASE p = j
    BY <1>1, <2>1
  <2>2. CASE p # j /\ Parent(p) = i
    <3>1. b[p] = a[p] /\ a[p] <= a[i]
      BY <1>2, <2>2 DEF Rising, Swapped
    <3>. QED
      BY <1>1, <2>2, <3>1
  <2>3. CASE p # j /\ Parent(p) = j
    <3>1. b[p] = a[p] /\ a[p] <= a[Parent(j)]
      BY <1>2, <2>3 DEF Rising, Swapped
    <3>. QED
      BY <1>1, <2>3, <3>1
  <2>4. CASE p # j /\ Parent(p) # i /\ Parent(p) # j
    <3>1. b[p] = a[p] /\ a[p] <= a[Parent(p)] /\ b[Parent(p)] = a[Parent(p)]
      BY <1>2, <2>0, <2>4 DEF Rising, Swapped
    <3>. QED
      BY <3>1
  <2>. QED
    BY <2>1, <2>2, <2>3, <2>4
<1>3. ASSUME NEW p \in 1 .. n - 1, Parent(p) = i, i > 0 PROVE b[p] <= b[Parent(i)]
  <2>1. Parent(i) \in 0 .. n - 1 /\ Parent(i) < i /\ i < p
    BY <1>3, ParentIs
  <2>2. a[i] <= a[Parent(i)] /\ b[Parent(i)] = a[Parent(i)]
    BY <1>1, <1>3, <2>1 DEF Rising, Swapped
  <2>3. CASE p = j
    BY <1>1, <2>2, <2>3
  <2>4. CASE p # j
    <3>1. b[p] = a[p] /\ a[p] <= a[i]
      BY <1>3, <2>1, <2>4 DEF Rising, Swapped
    <3>. QED
      BY <2>1, <2>2, <3>1
  <2>. QED
    BY <2>3, <2>4
<1>. QED
  BY <1>2, <1>3 DEF Rising

\* The last round up: the place is the root or not before its parent.
LEMMA RiseEnd ==
    ASSUME NEW n \in Nat, NEW a \in [0 .. n - 1 -> Nat], NEW j \in 0 .. n - 1, Rising(a, j, n),
           j > 0 => a[j] <= a[Parent(j)]
    PROVE  HeapOf(a, n)
  BY DEF Rising, HeapOf

\* One round down: a child that no other child is before changes with the place.
LEMMA SinkStep ==
    ASSUME NEW n \in Nat, NEW a \in [0 .. n - 1 -> Nat], NEW b \in [0 .. n - 1 -> Nat],
           NEW k \in 0 .. n - 1, NEW j \in 1 .. n - 1, k = Parent(j),
           Sinking(a, k, n), a[j] > a[k], Swapped(a, b, k, j, n),
           \A p \in 1 .. n - 1 : Parent(p) = k => a[p] <= a[j]
    PROVE  Sinking(b, j, n) /\ b[j] <= b[Parent(j)]
<1>1. k < j /\ b[k] = a[j] /\ b[j] = a[k]
  BY ParentIs DEF Swapped
<1>2. ASSUME NEW p \in 1 .. n - 1, p # j, Parent(p) # j PROVE b[p] <= b[Parent(p)]
  <2>0. Parent(p) \in 0 .. n - 1 /\ Parent(p) < p
    BY <1>2, ParentIs
  <2>1. CASE p = k
    <3>1. a[j] <= a[Parent(k)]
      BY <2>1 DEF Sinking
    <3>2. b[Parent(k)] = a[Parent(k)]
      BY <1>1, <1>2, <2>0, <2>1 DEF Swapped
    <3>. QED
      BY <1>1, <2>1, <3>1, <3>2
  <2>2. CASE p # k /\ Parent(p) = k
    <3>1. b[p] = a[p] /\ a[p] <= a[j]
      BY <1>2, <2>2 DEF Swapped
    <3>. QED
      BY <1>1, <2>2, <3>1
  <2>3. CASE p # k /\ Parent(p) # k
    <3>1. b[p] = a[p] /\ a[p] <= a[Parent(p)] /\ b[Parent(p)] = a[Parent(p)]
      BY <1>2, <2>0, <2>3 DEF Sinking, Swapped
    <3>. QED
      BY <3>1
  <2>. QED
    BY <2>1, <2>2, <2>3
<1>3. ASSUME NEW p \in 1 .. n - 1, Parent(p) = j PROVE b[p] <= b[Parent(j)]
  <2>0. p \in Nat /\ p > 0 /\ p \in 0 .. n - 1
    OBVIOUS
  <2>1. Parent(p) < p
    BY <2>0, ParentIs
  <2>2. j < p
    BY <1>3, <2>1
  <2>3. b[p] = a[p]
    BY <1>1, <2>0, <2>2 DEF Swapped
  <2>4. p # k /\ Parent(p) # k
    BY <1>1, <1>3, <2>2
  <2>5. a[p] <= a[j]
    BY <1>3, <2>4 DEF Sinking
  <2>. QED
    BY <1>1, <2>3, <2>5
<1>. QED
  BY <1>1, <1>2, <1>3 DEF Sinking

\* The last round down: no child is before the place.
LEMMA SinkEnd ==
    ASSUME NEW n \in Nat, NEW a \in [0 .. n - 1 -> Nat], NEW k \in 0 .. n - 1, Sinking(a, k, n),
           \A p \in 1 .. n - 1 : Parent(p) = k => a[p] <= a[k]
    PROVE  /\ Rising(a, k, n)
           /\ (k > 0 => a[k] <= a[Parent(k)]) => HeapOf(a, n)
<1>1. Rising(a, k, n)
  BY DEF Sinking, Rising
<1>. QED
  BY <1>1, RiseEnd

-----------------------------------------------------------------------------
\* A place below the capacity is in one of the blocks.
LEMMA PlaceIn ==
    ASSUME NEW nb \in Nat \ {0}, NEW p \in 0 .. nb * BlockSize - 1
    PROVE  p \in Nat /\ p \div BlockSize \in 0 .. nb - 1 /\ (p % BlockSize) \in 0 .. BlockSize - 1
<1>1. BlockSize \in Nat \ {0} /\ nb * BlockSize \in Nat
  BY PrqueConstants
<1>2. p \in Nat /\ p < nb * BlockSize
  BY <1>1
<1>3. PICK q \in Nat, r \in 0 .. BlockSize - 1 : q = p \div BlockSize /\ r = (p % BlockSize) /\ p = BlockSize * q + r
  BY <1>2, Division
<1>4. ASSUME q >= nb PROVE FALSE
  <2>1. BlockSize * q >= BlockSize * nb
    BY <1>1, <1>3, <1>4
  <2>2. nb * BlockSize = BlockSize * nb
    BY <1>1
  <2>. QED
    BY <1>1, <1>2, <1>3, <2>1, <2>2
<1>. QED
  BY <1>2, <1>3, <1>4

\* Two places in the same block and at the same place in it are one.
LEMMA PlacesDiffer ==
    ASSUME NEW p \in Nat, NEW q \in Nat, p \div BlockSize = q \div BlockSize, (p % BlockSize) = (q % BlockSize)
    PROVE  p = q
<1>1. p = BlockSize * (p \div BlockSize) + (p % BlockSize) /\ q = BlockSize * (q \div BlockSize) + (q % BlockSize)
  BY Division
<1>. QED
  BY <1>1

\* One item is put at place p of the stack c, which gives d.
Put(c, p, it) == [c EXCEPT !.blocks[p \div BlockSize][p % BlockSize] = it]
PutTo(c, d, nb, p, it) ==
    /\ Blocks(d, nb) /\ d.size = c.size /\ d.capacity = c.capacity /\ d.offset = c.offset /\ d.active = c.active
    /\ At(d, p) = it
    /\ \A q \in 0 .. c.capacity - 1 : q # p => At(d, q) = At(c, q)
\* Put changes that place and nothing else of the stack.
LEMMA PutIs ==
    ASSUME NEW nb \in Nat \ {0}, NEW c, Blocks(c, nb), NEW p \in 0 .. c.capacity - 1, NEW it \in Things
    PROVE  PutTo(c, Put(c, p, it), nb, p, it)
<1>1. PICK a \in 0 .. nb - 1 : a = p \div BlockSize
  BY PlaceIn DEF Blocks
<1>2. PICK o \in 0 .. BlockSize - 1 : o = (p % BlockSize)
  BY PlaceIn DEF Blocks
<1>3. c \in Conts(nb)
  BY DEF Blocks
<1>4. PICK d : d = [c EXCEPT !.blocks[a][o] = it]
  OBVIOUS
<1>5. d = Put(c, p, it)
  BY <1>1, <1>2, <1>4 DEF Put
<1>6. d \in Conts(nb) /\ d.size = c.size /\ d.capacity = c.capacity /\ d.offset = c.offset /\ d.active = c.active
  BY <1>3, <1>4 DEF Conts
<1>7. Blocks(d, nb)
  BY <1>6 DEF Blocks
<1>8. /\ d.blocks[a][o] = it
      /\ \A b \in 0 .. nb - 1, e \in 0 .. BlockSize - 1 : b # a \/ e # o => d.blocks[b][e] = c.blocks[b][e]
  BY <1>3, <1>4 DEF Conts
<1>9. At(d, p) = it
  BY <1>1, <1>2, <1>8 DEF At
<1>10. ASSUME NEW q \in 0 .. c.capacity - 1, q # p PROVE At(d, q) = At(c, q)
  <2>1. PICK b \in 0 .. nb - 1 : b = q \div BlockSize
    BY PlaceIn DEF Blocks
  <2>2. PICK e \in 0 .. BlockSize - 1 : e = (q % BlockSize)
    BY PlaceIn DEF Blocks
  <2>3. p \in Nat /\ q \in Nat
    BY PlaceIn DEF Blocks
  <2>4. b # a \/ e # o
    BY <1>1, <1>2, <1>10, <2>1, <2>2, <2>3, PlacesDiffer
  <2>5. d.blocks[b][e] = c.blocks[b][e]
    BY <1>8, <2>4
  <2>. QED
    BY <2>1, <2>2, <2>5 DEF At
<1>. QED
  BY <1>5, <1>6, <1>7, <1>9, <1>10 DEF PutTo

\* Two items change places, and their owners are told.
Exchanged(c, d, i, j, n) ==
    /\ At(d, i) = At(c, j) /\ At(d, j) = At(c, i)
    /\ \A p \in 0 .. n - 1 : p # i /\ p # j => At(d, p) = At(c, p)
\* sstack.Swap keeps the stack sound: both owners are told.
LEMMA SwapIs ==
    ASSUME NEW s, NEW gone, NEW low, NEW n \in Nat, Sound(s.cont, s.index, gone, low, n),
           NEW i \in 0 .. n - 1, NEW j \in 0 .. n - 1, NEW t, t = Swap(s, i, j)
    PROVE  Sound(t.cont, t.index, gone, low, n) /\ Exchanged(s.cont, t.cont, i, j, n)
<1>1. PICK c : c = s.cont
  OBVIOUS
<1>2. PICK x : x = s.index
  OBVIOUS
<1>3. PICK nb \in Nat \ {0} : Blocks(c, nb)
  BY <1>1 DEF Sound
<1>4. /\ c.size = n /\ c.capacity = nb * BlockSize /\ n <= c.capacity /\ c.capacity \in Nat
      /\ Filled(c, n) /\ Placed(c, x, n) /\ Owned(c, x, gone, n) /\ x \in [Values -> Nat \cup {-1}]
      /\ gone \subseteq Values /\ low \in 0 .. Words - 1 /\ Window(c, low, n)
  BY <1>1, <1>2, <1>3, PrqueConstants DEF Sound, Blocks
<1>5. PICK a \in Entries : a = At(c, i)
  BY <1>4 DEF Filled
<1>6. PICK b \in Entries : b = At(c, j)
  BY <1>4 DEF Filled
<1>7. i \in 0 .. c.capacity - 1 /\ j \in 0 .. c.capacity - 1 /\ a \in Things /\ b \in Things
  BY <1>4 DEF Things
<1>8. PICK e : e = Put(c, i, b)
  OBVIOUS
<1>9. PICK d : d = Put(e, j, a)
  OBVIOUS
<1>10. PICK y : y = [x EXCEPT ![b.value] = i, ![a.value] = j]
  OBVIOUS
<1>11. t.cont = d /\ t.index = y
  <2>1. t = [cont |-> [c EXCEPT !.blocks[i \div BlockSize][i % BlockSize] = b,
                                !.blocks[j \div BlockSize][j % BlockSize] = a],
             index |-> y]
    BY <1>1, <1>2, <1>5, <1>6, <1>10 DEF Swap, Item, At
  <2>2. t = [cont |-> d, index |-> y]
    BY <1>8, <1>9, <2>1 DEF Put
  <2>. QED
    BY <2>2
<1>12. PutTo(c, e, nb, i, b)
  BY <1>3, <1>7, <1>8, PutIs
<1>13. PutTo(e, d, nb, j, a)
  <2>1. Blocks(e, nb) /\ j \in 0 .. e.capacity - 1
    BY <1>7, <1>12 DEF PutTo
  <2>. QED
    BY <1>7, <1>9, <2>1, PutIs
<1>14. /\ Blocks(d, nb) /\ d.size = n /\ d.capacity = c.capacity
       /\ At(d, i) = b /\ At(d, j) = a
       /\ \A p \in 0 .. c.capacity - 1 : p # i /\ p # j => At(d, p) = At(c, p)
  <2>1. Blocks(d, nb) /\ d.size = n /\ d.capacity = c.capacity
    BY <1>4, <1>12, <1>13 DEF PutTo
  <2>2. At(d, j) = a
    BY <1>13 DEF PutTo
  <2>3. At(d, i) = b
    <3>1. CASE i = j
      BY <1>5, <1>6, <2>2, <3>1
    <3>2. CASE i # j
      BY <1>7, <1>12, <1>13, <3>2 DEF PutTo
    <3>. QED
      BY <3>1, <3>2
  <2>4. \A p \in 0 .. c.capacity - 1 : p # i /\ p # j => At(d, p) = At(c, p)
    BY <1>12, <1>13 DEF PutTo
  <2>. QED
    BY <2>1, <2>2, <2>3, <2>4
<1>15. Exchanged(c, d, i, j, n)
  BY <1>4, <1>5, <1>6, <1>14 DEF Exchanged
<1>16. Filled(d, n)
  <2>1. ASSUME NEW p \in 0 .. n - 1 PROVE At(d, p) \in Entries
    BY <1>4, <1>14, <2>1 DEF Filled
  <2>2. ASSUME NEW p \in n .. d.capacity - 1 PROVE At(d, p) = Nil
    BY <1>4, <1>14, <2>2 DEF Filled
  <2>. QED
    BY <2>1, <2>2 DEF Filled
<1>17. a.value \in Values /\ b.value \in Values /\ x[a.value] = i /\ x[b.value] = j
  BY <1>4, <1>5, <1>6 DEF Entries, Placed
<1>18. /\ y \in [Values -> Nat \cup {-1}] /\ y[a.value] = j /\ y[b.value] = i
       /\ \A v \in Values : v # a.value /\ v # b.value => y[v] = x[v]
  <2>1. i \in Nat /\ j \in Nat
    OBVIOUS
  <2>2. y[a.value] = j
    BY <1>4, <1>10, <1>17
  <2>3. y[b.value] = i
    BY <1>4, <1>10, <1>17
  <2>. QED
    BY <1>4, <1>10, <1>17, <2>1, <2>2, <2>3
<1>19. Placed(d, y, n)
  <2>1. ASSUME NEW p \in 0 .. n - 1 PROVE y[At(d, p).value] = p
    <3>1. CASE p = i \/ p = j
      BY <1>14, <1>18, <3>1
    <3>2. CASE p # i /\ p # j
      <4>1. At(d, p) = At(c, p) /\ x[At(c, p).value] = p /\ At(c, p).value \in Values
        BY <1>4, <1>14, <3>2 DEF Placed, Filled, Entries
      <4>2. At(c, p).value # a.value /\ At(c, p).value # b.value
        BY <1>17, <3>2, <4>1
      <4>. QED
        BY <1>18, <4>1, <4>2
    <3>. QED
      BY <3>1, <3>2
  <2>. QED
    BY <2>1 DEF Placed
<1>20. Owned(d, y, gone, n)
  <2>1. ASSUME NEW v \in Values \ gone, y[v] >= 0 PROVE y[v] < n /\ At(d, y[v]).value = v
    <3>1. CASE v = a.value
      BY <1>14, <1>18, <3>1
    <3>2. CASE v = b.value
      BY <1>14, <1>18, <3>2
    <3>3. CASE v # a.value /\ v # b.value
      <4>1. y[v] = x[v] /\ x[v] \in Nat /\ x[v] < n /\ At(c, x[v]).value = v
        BY <1>4, <1>18, <2>1, <3>3 DEF Owned
      <4>2. x[v] # i /\ x[v] # j
        BY <1>5, <1>6, <3>3, <4>1
      <4>3. At(d, x[v]) = At(c, x[v])
        BY <1>4, <1>14, <4>1, <4>2
      <4>. QED
        BY <4>1, <4>3
    <3>. QED
      BY <3>1, <3>2, <3>3
  <2>. QED
    BY <2>1 DEF Owned
<1>21. Window(d, low, n)
  <2>1. ASSUME NEW p \in 0 .. n - 1 PROVE 2 * Rank(low, At(d, p)) < Words
    <3>1. At(d, p) = At(c, p) \/ At(d, p) = At(c, i) \/ At(d, p) = At(c, j)
      BY <1>15 DEF Exchanged
    <3>. QED
      BY <1>4, <3>1 DEF Window
  <2>. QED
    BY <2>1 DEF Window
<1>22. Sound(d, y, gone, low, n)
  BY <1>4, <1>14, <1>16, <1>18, <1>19, <1>20, <1>21 DEF Sound
<1>. QED
  BY <1>1, <1>11, <1>15, <1>22

-----------------------------------------------------------------------------
\* The place for the next item: the stack d is c with room in the active block.
Roomy(c, d, n) ==
    /\ (\E nb \in Nat \ {0} : Blocks(d, nb)) /\ d.size = n /\ d.offset < BlockSize /\ Filled(d, n)
    /\ \A p \in 0 .. n - 1 : At(d, p) = At(c, p)
\* sstack.Push goes on in a new block, in the next one or in the active one.
LEMMA RoomIs ==
    ASSUME NEW nb \in Nat \ {0}, NEW c, Blocks(c, nb), NEW n \in Nat, n = c.size, Filled(c, n)
    PROVE  Roomy(c, Room(c), n)
<1>1. BlockSize \in Nat \ {0} /\ nb * BlockSize \in Nat
  BY PrqueConstants
<1>2. /\ c \in Conts(nb) /\ c.capacity = nb * BlockSize /\ n <= c.capacity
      /\ c.active < nb /\ c.offset <= BlockSize /\ n = c.active * BlockSize + c.offset
      /\ c.active \in Nat /\ c.offset \in Nat
  BY DEF Blocks, Conts
<1>3. CASE n = c.capacity
  <2>1. c.capacity \div BlockSize = nb
    <3>1. 0 \in 0 .. BlockSize - 1 /\ c.capacity = nb * BlockSize + 0
      BY <1>1, <1>2
    <3>. QED
      BY <3>1, Compose
  <2>2. PICK f : f = [k \in 0 .. nb |-> IF k = nb THEN newBlock ELSE c.blocks[k]]
    OBVIOUS
  <2>3. PICK d : d = [c EXCEPT !.active = nb, !.capacity = @ + BlockSize, !.offset = 0, !.blocks = f]
    OBVIOUS
  <2>4. Room(c) = d
    <3>1. DOMAIN c.blocks \cup {nb} = 0 .. nb
      BY <1>2 DEF Conts
    <3>2. f = [k \in DOMAIN c.blocks \cup {nb} |-> IF k = nb THEN newBlock ELSE c.blocks[k]]
      BY <2>2, <3>1
    <3>. QED
      BY <1>3, <2>1, <2>3, <3>2 DEF Room
  <2>5. newBlock \in [0 .. BlockSize - 1 -> Things] /\ \A r \in 0 .. BlockSize - 1 : newBlock[r] = Nil
    BY DEF newBlock, Things
  <2>6. f \in [0 .. (nb + 1) - 1 -> [0 .. BlockSize - 1 -> Things]]
    <3>1. \A k \in 0 .. nb : k = nb \/ k \in 0 .. nb - 1
      OBVIOUS
    <3>2. \A k \in 0 .. nb - 1 : c.blocks[k] \in [0 .. BlockSize - 1 -> Things]
      BY <1>2 DEF Conts
    <3>3. (nb + 1) - 1 = nb
      OBVIOUS
    <3>. QED
      BY <2>2, <2>5, <3>1, <3>2, <3>3
  <2>7. d \in Conts(nb + 1) /\ d.size = n /\ d.capacity = nb * BlockSize + BlockSize /\ d.offset = 0 /\ d.active = nb
    <3>1. nb * BlockSize + BlockSize \in Nat
      BY <1>1
    <3>. QED
      BY <1>2, <2>3, <2>6, <3>1 DEF Conts
  <2>8. Blocks(d, nb + 1)
    <3>1. (nb + 1) * BlockSize = nb * BlockSize + BlockSize
      BY <1>1
    <3>2. n = nb * BlockSize /\ n <= nb * BlockSize + BlockSize /\ nb < nb + 1
      BY <1>1, <1>2, <1>3
    <3>. QED
      BY <1>1, <2>7, <3>1, <3>2 DEF Blocks
  <2>9. d.blocks = f
    BY <1>2, <2>3 DEF Conts
  <2>10. ASSUME NEW p \in 0 .. n - 1 PROVE At(d, p) = At(c, p)
    <3>1. p \div BlockSize \in 0 .. nb - 1
      BY <1>2, <1>3, PlaceIn
    <3>. QED
      BY <2>2, <2>9, <3>1 DEF At
  <2>11. ASSUME NEW p \in n .. d.capacity - 1 PROVE At(d, p) = Nil
    <3>1. PICK r \in 0 .. BlockSize - 1 : p = nb * BlockSize + r
      <4>1. p - nb * BlockSize \in 0 .. BlockSize - 1 /\ p = nb * BlockSize + (p - nb * BlockSize)
        BY <1>1, <1>2, <1>3, <2>7
      <4>. QED
        BY <4>1
    <3>2. p \div BlockSize = nb /\ (p % BlockSize) = r
      BY <3>1, Compose
    <3>. QED
      BY <2>2, <2>5, <2>9, <3>2 DEF At
  <2>12. Filled(d, n)
    BY <2>10, <2>11 DEF Filled
  <2>. QED
    BY <1>1, <2>4, <2>7, <2>8, <2>10, <2>12 DEF Roomy
<1>4. CASE n # c.capacity /\ c.offset = BlockSize
  <2>1. n = (c.active + 1) * BlockSize + 0
    BY <1>1, <1>2, <1>4
  <2>2. n \div BlockSize = c.active + 1
    <3>1. 0 \in 0 .. BlockSize - 1 /\ c.active + 1 \in Nat
      BY <1>1, <1>2
    <3>. QED
      BY <2>1, <3>1, Compose
  <2>3. c.active + 1 < nb
    <3>0. n <= nb * BlockSize /\ n # nb * BlockSize
      BY <1>2, <1>4
    <3>1. n \in 0 .. nb * BlockSize - 1
      BY <1>1, <3>0
    <3>2. n \div BlockSize \in 0 .. nb - 1
      BY <3>1, PlaceIn
    <3>. QED
      BY <2>2, <3>2
  <2>4. PICK d : d = [c EXCEPT !.active = c.active + 1, !.offset = 0]
    OBVIOUS
  <2>5. Room(c) = d
    BY <1>4, <2>2, <2>4 DEF Room
  <2>6. /\ d \in Conts(nb) /\ d.size = n /\ d.capacity = c.capacity /\ d.offset = 0 /\ d.active = c.active + 1
        /\ d.blocks = c.blocks
    <3>1. c.active + 1 \in Nat /\ c.size = n
      BY <1>2
    <3>2. d \in Conts(nb)
      BY <1>2, <2>4, <3>1 DEF Conts
    <3>3. d.size = n /\ d.capacity = c.capacity /\ d.blocks = c.blocks
      BY <1>2, <2>4, <3>1 DEF Conts
    <3>4. d.offset = 0 /\ d.active = c.active + 1
      BY <1>2, <2>4, <3>1 DEF Conts
    <3>. QED
      BY <3>2, <3>3, <3>4
  <2>7. Blocks(d, nb)
    BY <1>1, <1>2, <2>1, <2>3, <2>6 DEF Blocks
  <2>. QED
    BY <1>1, <2>5, <2>6, <2>7 DEF Roomy, Filled, At
<1>5. CASE n # c.capacity /\ c.offset # BlockSize
  <2>1. Room(c) = c
    BY <1>5 DEF Room
  <2>2. c.offset < BlockSize
    BY <1>1, <1>2, <1>5
  <2>3. \E k \in Nat \ {0} : Blocks(c, k)
    OBVIOUS
  <2>. QED
    BY <2>1, <2>2, <2>3 DEF Roomy
<1>. QED
  BY <1>3, <1>4, <1>5

\* The numbers of an active block that is not full.
LEMMA ActiveIs ==
    ASSUME NEW nb \in Nat \ {0}, NEW c \in Conts(nb), c.offset < BlockSize, NEW n \in Nat,
           n = c.active * BlockSize + c.offset
    PROVE  n \div BlockSize = c.active /\ (n % BlockSize) = c.offset
<1>1. c.active \in Nat /\ c.offset \in 0 .. BlockSize - 1
  BY PrqueConstants DEF Conts
<1>. QED
  BY <1>1, Compose

\* A new item is put behind the others.
Pushed(s, t, it, gone, low, n) ==
    /\ Sound(t.cont, t.index, gone \ {it.value}, low, n + 1)
    /\ At(t.cont, n) = it /\ \A p \in 0 .. n - 1 : At(t.cont, p) = At(s.cont, p)
\* sstack.Push keeps the stack sound: the owner of the new item is told its place.
LEMMA PushIs ==
    ASSUME NEW s, NEW gone, NEW low, NEW n \in Nat, Sound(s.cont, s.index, gone, low, n),
           NEW it \in Entries, \A p \in 0 .. n - 1 : At(s.cont, p).value # it.value,
           2 * Rank(low, it) < Words
    PROVE  Pushed(s, StackPush(s, it), it, gone, low, n)
<1>1. PICK c : c = s.cont
  OBVIOUS
<1>2. PICK x : x = s.index
  OBVIOUS
<1>3. /\ c.size = n /\ Filled(c, n) /\ Placed(c, x, n) /\ Owned(c, x, gone, n) /\ x \in [Values -> Nat \cup {-1}]
      /\ gone \subseteq Values /\ low \in 0 .. Words - 1 /\ Window(c, low, n)
  BY <1>1, <1>2 DEF Sound
<1>4. PICK r : r = Room(c)
  OBVIOUS
<1>5. Roomy(c, r, n)
  <2>1. PICK nb \in Nat \ {0} : Blocks(c, nb)
    BY <1>1 DEF Sound
  <2>. QED
    BY <1>3, <1>4, <2>1, RoomIs
<1>6. PICK nb \in Nat \ {0} : Blocks(r, nb)
  BY <1>5 DEF Roomy
<1>7. /\ r.size = n /\ r.offset < BlockSize /\ Filled(r, n) /\ r \in Conts(nb) /\ r.capacity = nb * BlockSize
      /\ n = r.active * BlockSize + r.offset /\ r.active \in Nat /\ r.offset \in Nat /\ r.active < nb
      /\ \A p \in 0 .. n - 1 : At(r, p) = At(c, p)
  BY <1>5, <1>6 DEF Roomy, Blocks, Conts
<1>8. n \div BlockSize = r.active /\ (n % BlockSize) = r.offset
  BY <1>7, ActiveIs
<1>9. n < r.capacity /\ r.capacity \in Nat
  <2>1. BlockSize \in Nat /\ r.active + 1 <= nb /\ n < (r.active + 1) * BlockSize
    BY <1>7, PrqueConstants
  <2>2. (r.active + 1) * BlockSize <= nb * BlockSize
    <3>1. r.active + 1 \in Nat
      BY <1>7
    <3>. QED
      BY <2>1, <3>1, Multiples
  <2>3. (r.active + 1) * BlockSize \in Nat /\ nb * BlockSize \in Nat
    BY <1>7, <2>1
  <2>. QED
    BY <1>7, <2>1, <2>2, <2>3
<1>10. PICK e : e = Put(r, n, it)
  OBVIOUS
<1>11. PutTo(r, e, nb, n, it)
  BY <1>6, <1>9, <1>10, PutIs DEF Things
<1>12. PICK d : d = [e EXCEPT !.offset = @ + 1, !.size = @ + 1]
  OBVIOUS
<1>13. PICK y : y = [x EXCEPT ![it.value] = n]
  OBVIOUS
<1>14. StackPush(s, it).cont = d /\ StackPush(s, it).index = y
  <2>1. StackPush(s, it) =
            [cont |-> [r EXCEPT !.blocks[n \div BlockSize][n % BlockSize] = it, !.offset = @ + 1, !.size = @ + 1],
             index |-> y]
    BY <1>1, <1>2, <1>3, <1>4, <1>8, <1>13 DEF StackPush
  <2>2. StackPush(s, it) = [cont |-> d, index |-> y]
    BY <1>10, <1>12, <2>1 DEF Put
  <2>. QED
    BY <2>2
<1>15. /\ d \in Conts(nb) /\ d.size = n + 1 /\ d.capacity = r.capacity /\ d.offset = r.offset + 1
       /\ d.active = r.active /\ d.blocks = e.blocks
  <2>1. e \in Conts(nb) /\ e.size = n /\ e.capacity = r.capacity /\ e.offset = r.offset /\ e.active = r.active
    BY <1>7, <1>11 DEF PutTo, Blocks
  <2>2. e.offset + 1 = r.offset + 1 /\ e.size + 1 = n + 1 /\ r.offset + 1 \in Nat /\ n + 1 \in Nat
    BY <1>7, <2>1
  <2>3. d = [e EXCEPT !.offset = r.offset + 1, !.size = n + 1]
    BY <1>12, <2>1, <2>2
  <2>4. d \in Conts(nb)
    BY <2>1, <2>2, <2>3 DEF Conts
  <2>5. d.size = n + 1 /\ d.offset = r.offset + 1
    BY <2>1, <2>3 DEF Conts
  <2>6. d.capacity = e.capacity /\ d.active = e.active /\ d.blocks = e.blocks
    BY <2>1, <2>3 DEF Conts
  <2>. QED
    BY <2>1, <2>4, <2>5, <2>6
<1>16. Blocks(d, nb)
  BY <1>7, <1>9, <1>15, PrqueConstants DEF Blocks
<1>17. At(d, n) = it /\ \A p \in 0 .. r.capacity - 1 : p # n => At(d, p) = At(r, p)
  BY <1>11, <1>15 DEF PutTo, At
<1>18. \A p \in 0 .. n - 1 : At(d, p) = At(c, p)
  BY <1>7, <1>9, <1>17
<1>19. Filled(d, n + 1)
  <2>1. ASSUME NEW p \in 0 .. (n + 1) - 1 PROVE At(d, p) \in Entries
    <3>1. p = n \/ p \in 0 .. n - 1
      OBVIOUS
    <3>. QED
      BY <1>3, <1>17, <1>18, <3>1 DEF Filled
  <2>2. ASSUME NEW p \in n + 1 .. d.capacity - 1 PROVE At(d, p) = Nil
    <3>1. p \in n .. r.capacity - 1 /\ p \in 0 .. r.capacity - 1 /\ p # n
      BY <1>9, <1>15
    <3>. QED
      BY <1>7, <1>17, <3>1 DEF Filled
  <2>. QED
    BY <2>1, <2>2 DEF Filled
<1>20. /\ it.value \in Values /\ y \in [Values -> Nat \cup {-1}] /\ y[it.value] = n
       /\ \A v \in Values : v # it.value => y[v] = x[v]
  <2>1. it.value \in Values
    BY DEF Entries
  <2>. QED
    BY <1>3, <1>13, <2>1
<1>21. Placed(d, y, n + 1)
  <2>1. ASSUME NEW p \in 0 .. (n + 1) - 1 PROVE y[At(d, p).value] = p
    <3>1. CASE p = n
      BY <1>17, <1>20, <3>1
    <3>2. CASE p # n
      <4>1. p \in 0 .. n - 1
        BY <3>2
      <4>2. At(c, p).value \in Values /\ x[At(c, p).value] = p /\ At(d, p) = At(c, p) /\ At(c, p).value # it.value
        BY <1>1, <1>3, <1>18, <4>1 DEF Filled, Entries, Placed
      <4>. QED
        BY <1>20, <4>2
    <3>. QED
      BY <3>1, <3>2
  <2>. QED
    BY <2>1 DEF Placed
<1>22. Owned(d, y, gone \ {it.value}, n + 1)
  <2>1. ASSUME NEW v \in Values \ (gone \ {it.value}), y[v] >= 0 PROVE y[v] < n + 1 /\ At(d, y[v]).value = v
    <3>1. CASE v = it.value
      BY <1>17, <1>20, <3>1
    <3>2. CASE v # it.value
      <4>1. y[v] = x[v] /\ x[v] \in Nat /\ x[v] < n /\ At(c, x[v]).value = v
        BY <1>3, <1>20, <2>1, <3>2 DEF Owned
      <4>2. At(d, x[v]) = At(c, x[v])
        BY <1>18, <4>1
      <4>. QED
        BY <4>1, <4>2
    <3>. QED
      BY <3>1, <3>2
  <2>. QED
    BY <2>1 DEF Owned
<1>23. Window(d, low, n + 1)
  <2>1. ASSUME NEW p \in 0 .. (n + 1) - 1 PROVE 2 * Rank(low, At(d, p)) < Words
    <3>1. p = n \/ p \in 0 .. n - 1
      OBVIOUS
    <3>. QED
      BY <1>3, <1>17, <1>18, <3>1 DEF Window
  <2>. QED
    BY <2>1 DEF Window
<1>24. Sound(d, y, gone \ {it.value}, low, n + 1)
  BY <1>3, <1>15, <1>16, <1>19, <1>20, <1>21, <1>22, <1>23 DEF Sound
<1>. QED
  BY <1>1, <1>14, <1>17, <1>18, <1>24 DEF Pushed

\* The last item is taken away, and its owner is told.
Popped(s, r, gone, low, n) ==
    /\ Sound(r.s.cont, r.s.index, gone, low, n - 1)
    /\ \A p \in 0 .. n - 2 : At(r.s.cont, p) = At(s.cont, p)
\* sstack.Pop keeps the stack sound, across the edge of a block too.
LEMMA PopIs ==
    ASSUME NEW s, NEW gone, NEW low, NEW n \in Nat \ {0}, Sound(s.cont, s.index, gone, low, n)
    PROVE  Popped(s, StackPop(s), gone, low, n)
<1>1. PICK c : c = s.cont
  OBVIOUS
<1>2. PICK x : x = s.index
  OBVIOUS
<1>3. PICK nb \in Nat \ {0} : Blocks(c, nb)
  BY <1>1 DEF Sound
<1>4. /\ c.size = n /\ Filled(c, n) /\ Placed(c, x, n) /\ Owned(c, x, gone, n) /\ x \in [Values -> Nat \cup {-1}]
      /\ gone \subseteq Values /\ low \in 0 .. Words - 1 /\ Window(c, low, n)
  BY <1>1, <1>2 DEF Sound
<1>5. /\ c \in Conts(nb) /\ c.capacity = nb * BlockSize /\ n <= c.capacity /\ c.capacity \in Nat
      /\ c.active < nb /\ c.offset <= BlockSize /\ n = c.active * BlockSize + c.offset
      /\ c.active \in Nat /\ c.offset \in Nat /\ BlockSize \in Nat \ {0}
  BY <1>3, <1>4, PrqueConstants DEF Blocks, Conts
<1>6. PICK b : b = StepBack(c)
  OBVIOUS
<1>7. /\ b \in Conts(nb) /\ b.size = n - 1 /\ b.capacity = c.capacity /\ b.offset < BlockSize /\ b.active < nb
      /\ n - 1 = b.active * BlockSize + b.offset /\ b.blocks = c.blocks
  <2>1. CASE c.offset = 0
    <3>1. n - 1 \in 0 .. nb * BlockSize - 1
      BY <1>5
    <3>2. (n - 1) \div BlockSize \in 0 .. nb - 1 /\ n - 1 \in Nat
      BY <3>1, PlaceIn
    <3>3. PICK a \in 0 .. nb - 1 : a = (n - 1) \div BlockSize
      BY <3>2
    <3>4. c.active \in Nat \ {0}
      BY <1>5, <2>1
    <3>5. n - 1 = (c.active - 1) * BlockSize + (BlockSize - 1)
      BY <1>5, <2>1
    <3>6. BlockSize - 1 \in 0 .. BlockSize - 1 /\ c.active - 1 \in Nat
      BY <1>5, <3>4
    <3>7. a = c.active - 1
      BY <3>3, <3>5, <3>6, Compose
    <3>8. b = [c EXCEPT !.size = n - 1, !.offset = BlockSize - 1, !.active = a]
      BY <1>4, <1>6, <2>1, <3>3 DEF StepBack
    <3>9. /\ b \in Conts(nb) /\ b.size = n - 1 /\ b.capacity = c.capacity /\ b.offset = BlockSize - 1
          /\ b.active = a /\ b.blocks = c.blocks
      <4>1. n - 1 \in Nat /\ BlockSize - 1 \in Nat /\ a \in Nat
        BY <1>5
      <4>2. b \in Conts(nb)
        BY <1>5, <3>8, <4>1 DEF Conts
      <4>3. b.size = n - 1 /\ b.capacity = c.capacity /\ b.offset = BlockSize - 1
        BY <1>5, <3>8 DEF Conts
      <4>4. b.active = a /\ b.blocks = c.blocks
        BY <1>5, <3>8 DEF Conts
      <4>. QED
        BY <4>2, <4>3, <4>4
    <3>. QED
      BY <1>5, <3>5, <3>7, <3>9
  <2>2. CASE c.offset # 0
    <3>1. b = [c EXCEPT !.size = n - 1, !.offset = c.offset - 1]
      BY <1>4, <1>6, <2>2 DEF StepBack
    <3>2. c.offset - 1 \in Nat /\ n - 1 \in Nat
      BY <1>5, <2>2
    <3>3. /\ b \in Conts(nb) /\ b.size = n - 1 /\ b.capacity = c.capacity /\ b.offset = c.offset - 1
          /\ b.active = c.active /\ b.blocks = c.blocks
      BY <1>5, <3>1, <3>2 DEF Conts
    <3>. QED
      BY <1>5, <3>3
  <2>. QED
    BY <2>1, <2>2
<1>8. PICK m \in Nat : m = n - 1
  OBVIOUS
<1>9. Blocks(b, nb) /\ m \in 0 .. b.capacity - 1
  <2>1. b.capacity = nb * BlockSize /\ b.offset <= BlockSize
    <3>1. b.offset \in Nat
      BY <1>7 DEF Conts
    <3>. QED
      BY <1>5, <1>7, <3>1
  <2>2. n - 1 <= c.capacity /\ n - 1 \in 0 .. c.capacity - 1
    BY <1>5
  <2>. QED
    BY <1>7, <1>8, <2>1, <2>2 DEF Blocks
<1>10. m \div BlockSize = b.active /\ (m % BlockSize) = b.offset
  BY <1>7, <1>8, ActiveIs
<1>11. PICK d : d = Put(b, m, Nil)
  OBVIOUS
<1>12. PutTo(b, d, nb, m, Nil)
  BY <1>9, <1>11, PutIs DEF Things
<1>13. PICK res \in Entries : res = At(c, m)
  BY <1>4, <1>8 DEF Filled
<1>14. PICK y : y = [x EXCEPT ![res.value] = -1]
  OBVIOUS
<1>15. StackPop(s).s.cont = d /\ StackPop(s).s.index = y
  <2>1. b.blocks[b.active][b.offset] = res
    BY <1>7, <1>10, <1>13 DEF At
  <2>2. StackPop(s) = [s |-> [cont |-> d, index |-> y], res |-> res]
    BY <1>1, <1>2, <1>6, <1>10, <1>11, <1>14, <2>1 DEF StackPop, Put
  <2>. QED
    BY <2>2
<1>16. /\ Blocks(d, nb) /\ d.size = m /\ d.capacity = c.capacity /\ At(d, m) = Nil
       /\ \A p \in 0 .. c.capacity - 1 : p # m => At(d, p) = At(c, p)
  <2>1. \A p : At(b, p) = At(c, p)
    BY <1>7 DEF At
  <2>. QED
    BY <1>7, <1>8, <1>12, <2>1 DEF PutTo
<1>17. \A p \in 0 .. m - 1 : At(d, p) = At(c, p) /\ p \in 0 .. n - 1
  BY <1>5, <1>8, <1>16
<1>18. Filled(d, m)
  <2>1. ASSUME NEW p \in m .. d.capacity - 1 PROVE At(d, p) = Nil
    <3>1. CASE p = m
      BY <1>16, <3>1
    <3>2. CASE p # m
      <4>1. p \in n .. c.capacity - 1 /\ p \in 0 .. c.capacity - 1
        BY <1>8, <1>16, <3>2
      <4>. QED
        BY <1>4, <1>16, <3>2, <4>1 DEF Filled
    <3>. QED
      BY <3>1, <3>2
  <2>2. ASSUME NEW p \in 0 .. m - 1 PROVE At(d, p) \in Entries
    BY <1>4, <1>17, <2>2 DEF Filled
  <2>. QED
    BY <2>1, <2>2 DEF Filled
<1>19. /\ res.value \in Values /\ x[res.value] = m
       /\ y \in [Values -> Nat \cup {-1}] /\ y[res.value] = -1
       /\ \A v \in Values : v # res.value => y[v] = x[v]
  <2>1. res.value \in Values
    BY DEF Entries
  <2>2. x[res.value] = m
    BY <1>4, <1>8, <1>13 DEF Placed
  <2>. QED
    BY <1>4, <1>14, <2>1, <2>2
<1>20. Placed(d, y, m)
  <2>1. ASSUME NEW p \in 0 .. m - 1 PROVE y[At(d, p).value] = p
    <3>1. At(c, p).value \in Values /\ x[At(c, p).value] = p /\ At(d, p) = At(c, p)
      BY <1>4, <1>17 DEF Filled, Entries, Placed
    <3>2. At(c, p).value # res.value
      BY <1>19, <3>1
    <3>. QED
      BY <1>19, <3>1, <3>2
  <2>. QED
    BY <2>1 DEF Placed
<1>21. Owned(d, y, gone, m)
  <2>1. ASSUME NEW v \in Values \ gone, y[v] >= 0 PROVE y[v] < m /\ At(d, y[v]).value = v
    <3>1. v # res.value
      BY <1>19, <2>1
    <3>2. y[v] = x[v] /\ x[v] \in Nat /\ x[v] < n /\ At(c, x[v]).value = v
      BY <1>4, <1>19, <2>1, <3>1 DEF Owned
    <3>3. x[v] # m
      BY <1>13, <3>1, <3>2
    <3>4. x[v] \in 0 .. m - 1
      BY <1>8, <3>2, <3>3
    <3>. QED
      BY <1>17, <3>2, <3>4
  <2>. QED
    BY <2>1 DEF Owned
<1>22. Window(d, low, m)
  BY <1>4, <1>17 DEF Window
<1>23. Sound(d, y, gone, low, m)
  BY <1>4, <1>16, <1>18, <1>19, <1>20, <1>21, <1>22 DEF Sound
<1>24. \A p \in 0 .. n - 2 : At(d, p) = At(c, p)
  <2>1. ASSUME NEW p \in 0 .. n - 2 PROVE p \in 0 .. m - 1
    BY <1>8
  <2>. QED
    BY <1>17, <2>1
<1>. QED
  BY <1>1, <1>8, <1>15, <1>23, <1>24 DEF Popped

-----------------------------------------------------------------------------
\* The state t is s with the items below m in another order.
Turned(s, t, gone, low, m, n) ==
    /\ Sound(t.cont, t.index, gone, low, n)
    /\ \A p \in m .. n - 1 : At(t.cont, p) = At(s.cont, p)

\* The distances of the first m items are numbers that decide Less.
Decided(s, a, m) ==
    /\ a \in [0 .. m - 1 -> Nat]
    /\ \A i, j \in 0 .. m - 1 : /\ Less(s, i, j) => a[i] > a[j]
                                /\ ~ Less(s, i, j) => a[i] <= a[j]
\* The distances from low of a sound stack do so.
LEMMA DecidedIs ==
    ASSUME NEW s, NEW gone, NEW low, NEW n \in Nat, Sound(s.cont, s.index, gone, low, n), NEW m \in 0 .. n
    PROVE  Decided(s, Ranks(s.cont, low, m), m)
<1>1. PICK a : a = Ranks(s.cont, low, m)
  OBVIOUS
<1>2. m \in Nat /\ Window(s.cont, low, m) /\ low \in 0 .. Words - 1 /\ \A p \in 0 .. m - 1 : At(s.cont, p) \in Entries
  BY DEF Sound, Window, Filled
<1>3. ASSUME NEW i \in 0 .. m - 1, NEW j \in 0 .. m - 1
      PROVE  /\ a[i] \in Nat
             /\ Less(s, i, j) => a[i] > a[j]
             /\ ~ Less(s, i, j) => a[i] <= a[j]
  <2>1. Less(s, i, j) <=> Before(s.cont, i, j)
    BY DEF Less, Before, Item, At
  <2>2. /\ a[i] \in Nat
        /\ Before(s.cont, i, j) => a[i] > a[j]
        /\ ~ Before(s.cont, i, j) => a[i] <= a[j]
    BY <1>1, <1>2, <1>3, BeforeIs
  <2>. QED
    BY <2>1, <2>2
<1>4. a \in [0 .. m - 1 -> Nat]
  <2>1. a = [p \in 0 .. m - 1 |-> a[p]]
    BY <1>1 DEF Ranks
  <2>2. \A p \in 0 .. m - 1 : a[p] \in Nat
    BY <1>3
  <2>. QED
    BY <2>1, <2>2
<1>. QED
  BY <1>1, <1>3, <1>4 DEF Decided

\* Two of the first m items change places, and their distances with them.
LEMMA Exchange ==
    ASSUME NEW s, NEW gone, NEW low, NEW n \in Nat, Sound(s.cont, s.index, gone, low, n), NEW m \in 0 .. n,
           NEW i \in 0 .. m - 1, NEW j \in 0 .. m - 1, NEW t, t = Swap(s, i, j)
    PROVE  /\ Turned(s, t, gone, low, m, n)
           /\ Swapped(Ranks(s.cont, low, m), Ranks(t.cont, low, m), i, j, m)
<1>1. i \in 0 .. n - 1 /\ j \in 0 .. n - 1
  OBVIOUS
<1>2. Sound(t.cont, t.index, gone, low, n) /\ Exchanged(s.cont, t.cont, i, j, n)
  BY <1>1, SwapIs
<1>3. Turned(s, t, gone, low, m, n)
  <2>1. ASSUME NEW p \in m .. n - 1 PROVE At(t.cont, p) = At(s.cont, p)
    BY <1>2 DEF Exchanged
  <2>. QED
    BY <1>2, <2>1 DEF Turned
<1>4. Swapped(Ranks(s.cont, low, m), Ranks(t.cont, low, m), i, j, m)
  <2>1. Ranks(t.cont, low, m)[i] = Ranks(s.cont, low, m)[j] /\ Ranks(t.cont, low, m)[j] = Ranks(s.cont, low, m)[i]
    BY <1>2 DEF Exchanged, Ranks
  <2>2. ASSUME NEW p \in 0 .. m - 1, p # i, p # j PROVE Ranks(t.cont, low, m)[p] = Ranks(s.cont, low, m)[p]
    <3>1. At(t.cont, p) = At(s.cont, p)
      BY <1>2, <2>2 DEF Exchanged
    <3>. QED
      BY <3>1 DEF Ranks
  <2>. QED
    BY <2>1, <2>2 DEF Swapped
<1>. QED
  BY <1>3, <1>4

\* A loop of rounds up has a state after each round.
UpLoop(f, l, m) == f = [k \in 0 .. m |-> IF k = 0 THEN l ELSE UpRound(f[k - 1])]
\* Such a loop exists, by induction on the number of its rounds.
LEMMA UpLoops ==
    ASSUME NEW l, NEW m \in Nat
    PROVE  \E f : UpLoop(f, l, m)
<1> DEFINE D == {k \in Nat : \E f : UpLoop(f, l, k)}
<1>1. 0 \in D
  <2>1. PICK f : f = [k \in 0 .. 0 |-> l]
    OBVIOUS
  <2>2. UpLoop(f, l, 0)
    BY <2>1 DEF UpLoop
  <2>. QED
    BY <2>2
<1>2. ASSUME NEW k \in Nat, k \in D PROVE k + 1 \in D
  <2>1. PICK f : UpLoop(f, l, k)
    BY <1>2
  <2>2. PICK g : g = [i \in 0 .. k + 1 |-> IF i = k + 1 THEN UpRound(f[k]) ELSE f[i]]
    OBVIOUS
  <2>3. ASSUME NEW i \in 0 .. k + 1 PROVE g[i] = IF i = 0 THEN l ELSE UpRound(g[i - 1])
    <3>1. CASE i = k + 1
      <4>1. i # 0 /\ g[i] = UpRound(f[k]) /\ g[i - 1] = f[k]
        BY <2>2, <3>1
      <4>. QED
        BY <4>1
    <3>2. CASE i # k + 1
      <4>1. i \in 0 .. k /\ g[i] = f[i] /\ (i # 0 => g[i - 1] = f[i - 1])
        BY <2>2, <3>2
      <4>2. f[i] = IF i = 0 THEN l ELSE UpRound(f[i - 1])
        BY <2>1, <4>1 DEF UpLoop
      <4>. QED
        BY <4>1, <4>2
    <3>. QED
      BY <3>1, <3>2
  <2>4. UpLoop(g, l, k + 1)
    BY <2>2, <2>3 DEF UpLoop
  <2>. QED
    BY <2>4
<1>3. \A k \in Nat : k \in D
  <2>. HIDE DEF D
  <2>. QED
    BY <1>1, <1>2, SetInduction
<1>. QED
  BY <1>3

\* Up is where its rounds end.
LEMMA UpIs ==
    ASSUME NEW s, NEW j \in Nat
    PROVE  \E f : UpLoop(f, [s |-> s, j |-> j], j) /\ Up(s, j) = f[j].s
<1>1. PICK f : f = CHOOSE g : UpLoop(g, [s |-> s, j |-> j], j)
  OBVIOUS
<1>2. UpLoop(f, [s |-> s, j |-> j], j)
  BY <1>1, UpLoops
<1>3. Up(s, j) = f[j].s
  BY <1>1, Zenon DEF Up, UpLoop
<1>. QED
  BY <1>2, <1>3

\* The state of the loop up after k rounds from place j.
Climbed(s, l, gone, low, m, n, j, k) ==
    /\ Turned(s, l.s, gone, low, m, n) /\ l.j \in 0 .. m - 1
    /\ Rising(Ranks(l.s.cont, low, m), l.j, m)
    /\ HeapOf(Ranks(l.s.cont, low, m), m) \/ l.j <= j - k
\* A round up keeps that: it ends the loop, or brings the place nearer to the root.
LEMMA UpRoundIs ==
    ASSUME NEW s, NEW l, NEW gone, NEW low, NEW n \in Nat, NEW m \in 0 .. n, NEW j \in 0 .. m - 1, NEW k \in Nat,
           Climbed(s, l, gone, low, m, n, j, k)
    PROVE  Climbed(s, UpRound(l), gone, low, m, n, j, k + 1)
<1>1. PICK u : u = l.s
  OBVIOUS
<1>2. PICK x \in 0 .. m - 1 : x = l.j
  BY DEF Climbed
<1>3. PICK a : a = Ranks(u.cont, low, m)
  OBVIOUS
<1>4. Turned(s, u, gone, low, m, n) /\ Rising(a, x, m) /\ (HeapOf(a, m) \/ x <= j - k)
  BY <1>1, <1>2, <1>3 DEF Climbed
<1>5. Sound(u.cont, u.index, gone, low, n)
  BY <1>4 DEF Turned
<1>6. Decided(u, a, m) /\ a \in [0 .. m - 1 -> Nat] /\ m \in Nat
  <2>1. Decided(u, a, m)
    BY <1>3, <1>5, DecidedIs
  <2>. QED
    BY <2>1 DEF Decided
<1>7. CASE x = 0 \/ ~ Less(u, x, Parent(x))
  <2>1. UpRound(l) = l
    BY <1>1, <1>2, <1>7 DEF UpRound
  <2>2. x > 0 => a[x] <= a[Parent(x)]
    <3>1. ASSUME x > 0 PROVE Parent(x) \in 0 .. m - 1
      BY <3>1, ParentIs
    <3>. QED
      BY <1>6, <1>7, <3>1 DEF Decided
  <2>3. HeapOf(a, m)
    BY <1>4, <1>6, <2>2, RiseEnd
  <2>. QED
    BY <1>1, <1>2, <1>3, <1>4, <2>1, <2>3 DEF Climbed
<1>8. CASE x # 0 /\ Less(u, x, Parent(x))
  <2>1. PICK i \in 0 .. m - 1 : i = Parent(x) /\ i < x
    <3>1. x \in Nat /\ x > 0
      BY <1>8
    <3>2. Parent(x) \in Nat /\ Parent(x) < x
      BY <3>1, ParentIs
    <3>. QED
      BY <3>2
  <2>2. PICK t : t = Swap(u, i, x)
    OBVIOUS
  <2>3. UpRound(l) = [s |-> t, j |-> i]
    BY <1>1, <1>2, <1>8, <2>1, <2>2 DEF UpRound
  <2>4. UpRound(l).s = t /\ UpRound(l).j = i
    BY <2>3
  <2>5. PICK b : b = Ranks(t.cont, low, m)
    OBVIOUS
  <2>6. Turned(u, t, gone, low, m, n) /\ Swapped(a, b, i, x, m)
    BY <1>3, <1>5, <2>2, <2>5, Exchange
  <2>7. b \in [0 .. m - 1 -> Nat]
    <3>1. Sound(t.cont, t.index, gone, low, n)
      BY <2>6 DEF Turned
    <3>. QED
      BY <2>5, <3>1, DecidedIs DEF Decided
  <2>8. a[x] > a[i]
    BY <1>6, <1>8, <2>1 DEF Decided
  <2>9. Rising(b, i, m)
    <3>1. x \in 1 .. m - 1
      BY <1>8
    <3>. QED
      BY <1>4, <1>6, <2>1, <2>6, <2>7, <2>8, <3>1, RiseStep
  <2>10. ~ HeapOf(a, m)
    <3>1. x \in 1 .. m - 1 /\ a[x] \in Nat /\ a[i] \in Nat
      BY <1>6, <1>8
    <3>. QED
      BY <2>1, <2>8, <3>1 DEF HeapOf
  <2>11. i <= j - (k + 1)
    BY <1>4, <2>1, <2>10
  <2>12. Turned(s, t, gone, low, m, n)
    BY <1>4, <2>6 DEF Turned
  <2>. QED
    BY <2>4, <2>5, <2>9, <2>11, <2>12 DEF Climbed
<1>. QED
  BY <1>7, <1>8

\* Up makes the first m items a heap again.
LEMMA UpHeap ==
    ASSUME NEW s, NEW gone, NEW low, NEW n \in Nat, Sound(s.cont, s.index, gone, low, n),
           NEW m \in 0 .. n, NEW j \in 0 .. m - 1, Rising(Ranks(s.cont, low, m), j, m)
    PROVE  Turned(s, Up(s, j), gone, low, m, n) /\ HeapOf(Ranks(Up(s, j).cont, low, m), m)
<1>1. PICK f : UpLoop(f, [s |-> s, j |-> j], j) /\ Up(s, j) = f[j].s
  BY UpIs
<1> DEFINE D == {k \in Nat : k <= j => Climbed(s, f[k], gone, low, m, n, j, k)}
<1>2. 0 \in D
  <2>1. f[0] = [s |-> s, j |-> j]
    BY <1>1 DEF UpLoop
  <2>2. f[0].s = s /\ f[0].j = j
    BY <2>1
  <2>3. Turned(s, s, gone, low, m, n)
    BY DEF Turned
  <2>4. j <= j - 0
    OBVIOUS
  <2>5. Climbed(s, f[0], gone, low, m, n, j, 0)
    BY <2>2, <2>3, <2>4 DEF Climbed
  <2>. QED
    BY <2>5
<1>3. ASSUME NEW k \in Nat, k \in D PROVE k + 1 \in D
  <2>1. ASSUME k + 1 <= j PROVE Climbed(s, f[k + 1], gone, low, m, n, j, k + 1)
    <3>1. Climbed(s, f[k], gone, low, m, n, j, k)
      BY <1>3, <2>1
    <3>2. f[k + 1] = UpRound(f[k])
      <4>1. k + 1 \in 0 .. j /\ k + 1 # 0 /\ (k + 1) - 1 = k
        BY <2>1
      <4>. QED
        BY <1>1, <4>1 DEF UpLoop
    <3>. QED
      BY <3>1, <3>2, UpRoundIs
  <2>. QED
    BY <2>1
<1>4. \A k \in Nat : k \in D
  <2>. HIDE DEF D
  <2>. QED
    BY <1>2, <1>3, SetInduction
<1>5. Climbed(s, f[j], gone, low, m, n, j, j)
  BY <1>4
<1>6. PICK t : t = f[j].s
  OBVIOUS
<1>7. PICK a : a = Ranks(t.cont, low, m)
  OBVIOUS
<1>8. Turned(s, t, gone, low, m, n) /\ Rising(a, f[j].j, m) /\ f[j].j \in 0 .. m - 1 /\ (HeapOf(a, m) \/ f[j].j <= 0)
  BY <1>5, <1>6, <1>7 DEF Climbed
<1>9. a \in [0 .. m - 1 -> Nat] /\ m \in Nat
  <2>1. Sound(t.cont, t.index, gone, low, n)
    BY <1>8 DEF Turned
  <2>2. Decided(t, a, m)
    BY <1>7, <2>1, DecidedIs
  <2>. QED
    BY <2>2 DEF Decided
<1>10. HeapOf(a, m)
  <2>1. CASE f[j].j <= 0
    <3>1. f[j].j = 0
      BY <1>8, <2>1
    <3>2. Rising(a, 0, m) /\ 0 \in 0 .. m - 1
      BY <1>8, <3>1
    <3>. QED
      BY <1>9, <3>2, RiseEnd, SMTT(90)
  <2>. QED
    BY <1>8, <2>1
<1>. QED
  BY <1>1, <1>6, <1>7, <1>8, <1>10

-----------------------------------------------------------------------------
\* A loop of rounds down has a state after each round.
DownLoop(f, l, m) == f = [k \in 0 .. m |-> IF k = 0 THEN l ELSE DownRound(f[k - 1], m)]
DownLoopTo(f, l, m, e) == f = [k \in 0 .. e |-> IF k = 0 THEN l ELSE DownRound(f[k - 1], m)]
\* Such a loop exists, by induction on the number of its rounds.
LEMMA DownLoops ==
    ASSUME NEW l, NEW m \in Nat
    PROVE  \E f : DownLoop(f, l, m)
<1> DEFINE D == {k \in Nat : \E f : DownLoopTo(f, l, m, k)}
<1>1. 0 \in D
  <2>1. PICK f : f = [k \in 0 .. 0 |-> l]
    OBVIOUS
  <2>2. DownLoopTo(f, l, m, 0)
    BY <2>1 DEF DownLoopTo
  <2>. QED
    BY <2>2
<1>2. ASSUME NEW k \in Nat, k \in D PROVE k + 1 \in D
  <2>1. PICK f : DownLoopTo(f, l, m, k)
    BY <1>2
  <2>2. PICK g : g = [i \in 0 .. k + 1 |-> IF i = k + 1 THEN DownRound(f[k], m) ELSE f[i]]
    OBVIOUS
  <2>3. ASSUME NEW i \in 0 .. k + 1 PROVE g[i] = IF i = 0 THEN l ELSE DownRound(g[i - 1], m)
    <3>1. CASE i = k + 1
      <4>1. i # 0 /\ g[i] = DownRound(f[k], m) /\ g[i - 1] = f[k]
        BY <2>2, <3>1
      <4>. QED
        BY <4>1
    <3>2. CASE i # k + 1
      <4>1. i \in 0 .. k /\ g[i] = f[i] /\ (i # 0 => g[i - 1] = f[i - 1])
        BY <2>2, <3>2
      <4>2. f[i] = IF i = 0 THEN l ELSE DownRound(f[i - 1], m)
        BY <2>1, <4>1 DEF DownLoopTo
      <4>. QED
        BY <4>1, <4>2
    <3>. QED
      BY <3>1, <3>2
  <2>4. DownLoopTo(g, l, m, k + 1)
    BY <2>2, <2>3 DEF DownLoopTo
  <2>. QED
    BY <2>4
<1>3. \A k \in Nat : k \in D
  <2>. HIDE DEF D
  <2>. QED
    BY <1>1, <1>2, SetInduction
<1>4. PICK f : DownLoopTo(f, l, m, m)
  BY <1>3
<1>. QED
  BY <1>4 DEF DownLoop, DownLoopTo

\* Down is where its rounds end.
LEMMA DownIs ==
    ASSUME NEW s, NEW i, NEW m \in Nat
    PROVE  \E f : DownLoop(f, [s |-> s, i |-> i], m) /\ Down(s, i, m) = f[m].s
<1>1. PICK f : f = CHOOSE g : DownLoop(g, [s |-> s, i |-> i], m)
  OBVIOUS
<1>2. DownLoop(f, [s |-> s, i |-> i], m)
  BY <1>1, DownLoops
<1>3. Down(s, i, m) = f[m].s
  BY <1>1, Zenon DEF Down, DownLoop
<1>. QED
  BY <1>2, <1>3

\* No child of i is before the one that the loop down chooses.
LEMMA ChildIs ==
    ASSUME NEW s, NEW m \in Nat, NEW a, Decided(s, a, m), NEW i \in 0 .. m - 1, 2 * i + 1 < m
    PROVE  /\ Child(s, i, m) \in 1 .. m - 1 /\ Parent(Child(s, i, m)) = i
           /\ \A p \in 1 .. m - 1 : Parent(p) = i => a[p] <= a[Child(s, i, m)]
<1>1. PICK y : y = 2 * i + 1
  OBVIOUS
<1>2. PICK z : z = 2 * i + 2
  OBVIOUS
<1>3. y \in 1 .. m - 1 /\ y \in 0 .. m - 1 /\ z \in Nat
  BY <1>1, <1>2
<1>4. Parent(y) = i /\ Parent(z) = i
  BY <1>1, <1>2, ChildrenOf
<1>5. \A p \in 1 .. m - 1 : Parent(p) = i => p = y \/ p = z
  <2>1. ASSUME NEW p \in 1 .. m - 1, Parent(p) = i PROVE p = y \/ p = z
    <3>1. p \in Nat /\ p > 0
      OBVIOUS
    <3>. QED
      BY <1>1, <1>2, <2>1, <3>1, ParentIs
  <2>. QED
    BY <2>1
<1>6. Child(s, i, m) = IF z < m /\ Less(s, z, y) THEN z ELSE y
  BY <1>1, <1>2 DEF Child
<1>7. \A p \in 0 .. m - 1 : a[p] \in Nat
  BY DEF Decided
<1>8. CASE z < m /\ Less(s, z, y)
  <2>1. Child(s, i, m) = z /\ z \in 0 .. m - 1 /\ z \in 1 .. m - 1
    BY <1>2, <1>3, <1>6, <1>8
  <2>2. a[z] > a[y] /\ a[z] \in Nat /\ a[y] \in Nat
    BY <1>3, <1>7, <1>8, <2>1 DEF Decided
  <2>. QED
    BY <1>4, <1>5, <2>1, <2>2
<1>9. CASE z < m /\ ~ Less(s, z, y)
  <2>1. Child(s, i, m) = y /\ z \in 0 .. m - 1
    BY <1>2, <1>3, <1>6, <1>9
  <2>2. a[z] <= a[y] /\ a[y] \in Nat
    BY <1>3, <1>7, <1>9, <2>1 DEF Decided
  <2>. QED
    BY <1>3, <1>4, <1>5, <2>1, <2>2
<1>10. CASE ~(z < m)
  <2>1. Child(s, i, m) = y
    BY <1>6, <1>10
  <2>2. \A p \in 1 .. m - 1 : Parent(p) = i => p = y
    BY <1>3, <1>5, <1>10
  <2>3. a[y] <= a[y]
    BY <1>3, <1>7
  <2>. QED
    BY <1>3, <1>4, <2>1, <2>2, <2>3
<1>. QED
  BY <1>8, <1>9, <1>10

\* The state of the loop down after k rounds from place i.
Settled(a, i, m) == \A p \in 1 .. m - 1 : Parent(p) = i => a[p] <= a[i]
Dived(s, l, gone, low, m, n, i, k) ==
    /\ Turned(s, l.s, gone, low, m, n) /\ l.i \in 0 .. m - 1
    /\ Sinking(Ranks(l.s.cont, low, m), l.i, m)
    /\ \/ l.s = s /\ l.i = i
       \/ Ranks(l.s.cont, low, m)[l.i] <= Ranks(l.s.cont, low, m)[Parent(l.i)]
    /\ Settled(Ranks(l.s.cont, low, m), l.i, m) \/ l.i >= k
\* A round down keeps that: it ends the loop, or brings the place further down.
LEMMA DownRoundIs ==
    ASSUME NEW s, NEW l, NEW gone, NEW low, NEW n \in Nat, NEW m \in 0 .. n, NEW i \in 0 .. m - 1, NEW k \in Nat,
           Dived(s, l, gone, low, m, n, i, k)
    PROVE  Dived(s, DownRound(l, m), gone, low, m, n, i, k + 1)
<1>1. PICK u : u = l.s
  OBVIOUS
<1>2. PICK x \in 0 .. m - 1 : x = l.i
  BY DEF Dived
<1>3. PICK a : a = Ranks(u.cont, low, m)
  OBVIOUS
<1>4. Turned(s, u, gone, low, m, n) /\ Sinking(a, x, m) /\ (Settled(a, x, m) \/ x >= k)
  BY <1>1, <1>2, <1>3 DEF Dived
<1>5. Sound(u.cont, u.index, gone, low, n)
  BY <1>4 DEF Turned
<1>6. Decided(u, a, m) /\ a \in [0 .. m - 1 -> Nat] /\ m \in Nat
  <2>1. Decided(u, a, m)
    BY <1>3, <1>5, DecidedIs
  <2>. QED
    BY <2>1 DEF Decided
<1>7. PICK y : y = Child(u, x, m)
  OBVIOUS
<1>8. 2 * x + 1 < m => /\ y \in 1 .. m - 1 /\ Parent(y) = x
                       /\ \A p \in 1 .. m - 1 : Parent(p) = x => a[p] <= a[y]
  BY <1>6, <1>7, ChildIs
<1>9. CASE 2 * x + 1 >= m \/ ~ Less(u, y, x)
  <2>1. DownRound(l, m) = l
    BY <1>1, <1>2, <1>7, <1>9 DEF DownRound
  <2>2. ASSUME NEW p \in 1 .. m - 1, Parent(p) = x PROVE a[p] <= a[x]
    <3>1. 2 * x + 1 < m
      <4>1. p \in Nat /\ p > 0
        OBVIOUS
      <4>2. p = 2 * x + 1 \/ p = 2 * x + 2
        BY <2>2, <4>1, ParentIs
      <4>. QED
        BY <4>2
    <3>2. y \in 0 .. m - 1 /\ a[p] <= a[y] /\ ~ Less(u, y, x)
      BY <1>8, <1>9, <2>2, <3>1
    <3>3. a[y] <= a[x]
      BY <1>6, <3>2 DEF Decided
    <3>4. a[p] \in Nat /\ a[y] \in Nat /\ a[x] \in Nat
      BY <1>6, <3>2
    <3>. QED
      BY <3>2, <3>3, <3>4
  <2>3. Settled(a, x, m)
    BY <2>2 DEF Settled
  <2>. QED
    BY <1>1, <1>2, <1>3, <2>1, <2>3 DEF Dived
<1>10. CASE 2 * x + 1 < m /\ Less(u, y, x)
  <2>1. y \in 1 .. m - 1 /\ y \in 0 .. m - 1 /\ Parent(y) = x /\ x < y
    <3>1. y \in 1 .. m - 1 /\ Parent(y) = x
      BY <1>8, <1>10
    <3>2. y \in Nat /\ y > 0
      BY <3>1
    <3>. QED
      BY <3>1, <3>2, ParentIs
  <2>2. PICK t : t = Swap(u, x, y)
    OBVIOUS
  <2>3. DownRound(l, m) = [s |-> t, i |-> y]
    BY <1>1, <1>2, <1>7, <1>10, <2>2 DEF DownRound
  <2>4. DownRound(l, m).s = t /\ DownRound(l, m).i = y
    BY <2>3
  <2>5. PICK b : b = Ranks(t.cont, low, m)
    OBVIOUS
  <2>6. Turned(u, t, gone, low, m, n) /\ Swapped(a, b, x, y, m)
    BY <1>3, <1>5, <2>1, <2>2, <2>5, Exchange
  <2>7. b \in [0 .. m - 1 -> Nat]
    <3>1. Sound(t.cont, t.index, gone, low, n)
      BY <2>6 DEF Turned
    <3>. QED
      BY <2>5, <3>1, DecidedIs DEF Decided
  <2>8. a[y] > a[x]
    BY <1>6, <1>10, <2>1 DEF Decided
  <2>9. Sinking(b, y, m) /\ b[y] <= b[Parent(y)]
    <3>1. \A p \in 1 .. m - 1 : Parent(p) = x => a[p] <= a[y]
      BY <1>8, <1>10
    <3>. QED
      BY <1>4, <1>6, <2>1, <2>6, <2>7, <2>8, <3>1, SinkStep
  <2>10. ~ Settled(a, x, m)
    <3>1. a[x] \in Nat /\ a[y] \in Nat
      BY <1>6, <2>1
    <3>. QED
      BY <2>1, <2>8, <3>1 DEF Settled
  <2>11. y >= k + 1
    BY <1>4, <2>1, <2>10
  <2>12. Turned(s, t, gone, low, m, n)
    BY <1>4, <2>6 DEF Turned
  <2>. QED
    BY <2>1, <2>4, <2>5, <2>9, <2>11, <2>12 DEF Dived
<1>. QED
  BY <1>9, <1>10

\* Down makes the first m items a heap, or changes nothing, when the item may
\* have to rise instead.
Sunk(s, t, gone, low, m, n, i) ==
    /\ Turned(s, t, gone, low, m, n)
    /\ HeapOf(Ranks(t.cont, low, m), m) \/ (t = s /\ Rising(Ranks(t.cont, low, m), i, m))
\* The last round of Down is one of the two.
LEMMA DownHeap ==
    ASSUME NEW s, NEW gone, NEW low, NEW n \in Nat, Sound(s.cont, s.index, gone, low, n),
           NEW m \in 0 .. n, NEW i \in 0 .. m - 1, Sinking(Ranks(s.cont, low, m), i, m)
    PROVE  Sunk(s, Down(s, i, m), gone, low, m, n, i)
<1>0. m \in Nat
  OBVIOUS
<1>1. PICK f : DownLoop(f, [s |-> s, i |-> i], m) /\ Down(s, i, m) = f[m].s
  BY <1>0, DownIs
<1> DEFINE D == {k \in Nat : k <= m => Dived(s, f[k], gone, low, m, n, i, k)}
<1>2. 0 \in D
  <2>1. f[0] = [s |-> s, i |-> i]
    BY <1>0, <1>1 DEF DownLoop
  <2>2. f[0].s = s /\ f[0].i = i
    BY <2>1
  <2>3. Turned(s, s, gone, low, m, n)
    BY DEF Turned
  <2>4. i >= 0
    OBVIOUS
  <2>5. Dived(s, f[0], gone, low, m, n, i, 0)
    BY <2>2, <2>3, <2>4 DEF Dived
  <2>. QED
    BY <2>5
<1>3. ASSUME NEW k \in Nat, k \in D PROVE k + 1 \in D
  <2>1. ASSUME k + 1 <= m PROVE Dived(s, f[k + 1], gone, low, m, n, i, k + 1)
    <3>1. Dived(s, f[k], gone, low, m, n, i, k)
      BY <1>0, <1>3, <2>1
    <3>2. f[k + 1] = DownRound(f[k], m)
      <4>1. k + 1 \in 0 .. m /\ k + 1 # 0 /\ (k + 1) - 1 = k
        BY <1>0, <2>1
      <4>. QED
        BY <1>1, <4>1 DEF DownLoop
    <3>. QED
      BY <3>1, <3>2, DownRoundIs
  <2>. QED
    BY <2>1
<1>4. \A k \in Nat : k \in D
  <2>. HIDE DEF D
  <2>. QED
    BY <1>2, <1>3, SetInduction
<1>5. Dived(s, f[m], gone, low, m, n, i, m)
  BY <1>0, <1>4
<1>6. PICK t : t = f[m].s
  OBVIOUS
<1>7. PICK x \in 0 .. m - 1 : x = f[m].i
  BY <1>5 DEF Dived
<1>8. PICK a : a = Ranks(t.cont, low, m)
  OBVIOUS
<1>9. /\ Turned(s, t, gone, low, m, n) /\ Sinking(a, x, m) /\ (Settled(a, x, m) \/ x >= m)
      /\ (t = s /\ x = i) \/ a[x] <= a[Parent(x)]
  BY <1>5, <1>6, <1>7, <1>8 DEF Dived
<1>10. a \in [0 .. m - 1 -> Nat]
  <2>1. Sound(t.cont, t.index, gone, low, n)
    BY <1>9 DEF Turned
  <2>2. Decided(t, a, m)
    BY <1>8, <2>1, DecidedIs
  <2>. QED
    BY <2>2 DEF Decided
<1>11. \A p \in 1 .. m - 1 : Parent(p) = x => a[p] <= a[x]
  BY <1>9 DEF Settled
<1>12. Rising(a, x, m) /\ ((x > 0 => a[x] <= a[Parent(x)]) => HeapOf(a, m))
  BY <1>0, <1>9, <1>10, <1>11, SinkEnd
<1>13. HeapOf(a, m) \/ (t = s /\ Rising(a, i, m))
  BY <1>9, <1>12
<1>. QED
  BY <1>1, <1>6, <1>8, <1>9, <1>13 DEF Sunk

-----------------------------------------------------------------------------
\* The heap of the items is the heap of their distances from low.
LEMMA HeapTo ==
    ASSUME NEW s, NEW gone, NEW low, NEW n \in Nat, Sound(s.cont, s.index, gone, low, n), NEW m \in 0 .. n,
           Heap(s.cont, m)
    PROVE  HeapOf(Ranks(s.cont, low, m), m)
<1>1. PICK a : a = Ranks(s.cont, low, m)
  OBVIOUS
<1>2. Decided(s, a, m)
  BY <1>1, DecidedIs
<1>3. ASSUME NEW p \in 1 .. m - 1 PROVE a[p] <= a[Parent(p)]
  <2>1. p \in 0 .. m - 1 /\ p > 0 /\ p \in Nat
    OBVIOUS
  <2>2. Parent(p) \in Nat /\ Parent(p) < p
    BY <2>1, ParentIs
  <2>3. Parent(p) \in 0 .. m - 1
    BY <2>2
  <2>4. ~ Less(s, p, Parent(p))
    BY <2>1 DEF Heap, Before, Less, Item, At
  <2>. QED
    BY <1>2, <2>1, <2>3, <2>4 DEF Decided
<1>. QED
  BY <1>1, <1>3 DEF HeapOf
\* And a heap of the distances is a heap of the items.
LEMMA HeapFrom ==
    ASSUME NEW s, NEW gone, NEW low, NEW n \in Nat, Sound(s.cont, s.index, gone, low, n), NEW m \in 0 .. n,
           HeapOf(Ranks(s.cont, low, m), m)
    PROVE  Heap(s.cont, m)
<1>1. PICK a : a = Ranks(s.cont, low, m)
  OBVIOUS
<1>2. Decided(s, a, m)
  BY <1>1, DecidedIs
<1>3. ASSUME NEW p \in 0 .. m - 1, p > 0 PROVE ~ Before(s.cont, p, Parent(p))
  <2>1. p \in 1 .. m - 1 /\ p \in Nat
    BY <1>3
  <2>2. Parent(p) \in Nat /\ Parent(p) < p
    BY <1>3, <2>1, ParentIs
  <2>3. Parent(p) \in 0 .. m - 1
    BY <2>2
  <2>4. a[p] <= a[Parent(p)] /\ a[p] \in Nat /\ a[Parent(p)] \in Nat
    BY <1>1, <1>2, <2>1, <2>3 DEF HeapOf, Decided
  <2>5. ~ Less(s, p, Parent(p))
    BY <1>2, <2>3, <2>4 DEF Decided
  <2>. QED
    BY <2>5 DEF Before, Less, Item, At
<1>. QED
  BY <1>3 DEF Heap

\* The first items of a heap are one, and so are they in another stack.
LEMMA HeapSame ==
    ASSUME NEW c, NEW d, NEW n \in Nat, Heap(c, n), NEW m \in 0 .. n,
           \A p \in 0 .. m - 1 : At(d, p) = At(c, p)
    PROVE  Heap(d, m)
<1>1. ASSUME NEW p \in 0 .. m - 1, p > 0 PROVE ~ Before(d, p, Parent(p))
  <2>1. Parent(p) \in Nat /\ Parent(p) < p
    BY <1>1, ParentIs
  <2>2. Parent(p) \in 0 .. m - 1 /\ p \in 0 .. n - 1
    BY <2>1
  <2>3. ~ Before(c, p, Parent(p))
    BY <1>1, <2>2 DEF Heap
  <2>. QED
    BY <2>2, <2>3 DEF Before
<1>. QED
  BY <1>1 DEF Heap

\* The queue s of n items.
Kept(s, gone, low, n) == Sound(s.cont, s.index, gone, low, n) /\ Heap(s.cont, n)

\* The last item is taken from a stack whose other items are a heap.
LEMMA PopKeeps ==
    ASSUME NEW s, NEW gone, NEW low, NEW n \in Nat \ {0}, Sound(s.cont, s.index, gone, low, n), Heap(s.cont, n - 1)
    PROVE  Kept(StackPop(s).s, gone, low, n - 1)
<1>1. PICK r : r = StackPop(s)
  OBVIOUS
<1>2. Popped(s, r, gone, low, n)
  BY <1>1, PopIs
<1>3. PICK m \in Nat : m = n - 1
  OBVIOUS
<1>4. Sound(r.s.cont, r.s.index, gone, low, m) /\ \A p \in 0 .. m - 1 : At(r.s.cont, p) = At(s.cont, p)
  <2>1. n - 2 = m - 1
    BY <1>3
  <2>. QED
    BY <1>2, <1>3, <2>1 DEF Popped
<1>5. Heap(r.s.cont, m)
  <2>1. Heap(s.cont, m) /\ m \in 0 .. m
    BY <1>3
  <2>. QED
    BY <1>4, <2>1, HeapSame
<1>. QED
  BY <1>1, <1>3, <1>4, <1>5 DEF Kept

\* The last item comes to place i: in the others only i may have to sink or rise.
LEMMA MovedSinks ==
    ASSUME NEW s, NEW gone, NEW low, NEW n \in Nat \ {0}, Kept(s, gone, low, n), NEW m \in Nat, m = n - 1,
           NEW i \in 0 .. m, NEW t, t = Swap(s, i, m)
    PROVE  /\ Sound(t.cont, t.index, gone, low, n)
           /\ i < m => Sinking(Ranks(t.cont, low, m), i, m)
<1>1. m \in 0 .. n - 1 /\ i \in 0 .. n - 1 /\ m \in 0 .. n /\ n \in Nat
  OBVIOUS
<1>2. Sound(s.cont, s.index, gone, low, n) /\ Heap(s.cont, n)
  BY DEF Kept
<1>3. Sound(t.cont, t.index, gone, low, n) /\ Exchanged(s.cont, t.cont, i, m, n)
  BY <1>1, <1>2, SwapIs
<1>4. PICK a : a = Ranks(s.cont, low, m)
  OBVIOUS
<1>5. PICK b : b = Ranks(t.cont, low, m)
  OBVIOUS
<1>6. a \in [0 .. m - 1 -> Nat]
  <2>1. Decided(s, a, m)
    BY <1>1, <1>2, <1>4, DecidedIs
  <2>. QED
    BY <2>1 DEF Decided
<1>7. HeapOf(a, m)
  <2>1. Heap(s.cont, m)
    BY <1>1, <1>2, HeapSame
  <2>. QED
    BY <1>1, <1>2, <1>4, <2>1, HeapTo
<1>8. ASSUME NEW p \in 0 .. m - 1, p # i PROVE b[p] = a[p]
  <2>1. p \in 0 .. n - 1 /\ p # m
    BY <1>1
  <2>2. At(t.cont, p) = At(s.cont, p)
    BY <1>3, <1>8, <2>1 DEF Exchanged
  <2>. QED
    BY <1>4, <1>5, <2>2 DEF Ranks
<1>9. ASSUME i < m, NEW p \in 1 .. m - 1, p # i, Parent(p) # i PROVE b[p] <= b[Parent(p)]
  <2>1. p \in Nat /\ p > 0 /\ p \in 0 .. m - 1
    OBVIOUS
  <2>2. Parent(p) \in Nat /\ Parent(p) < p
    BY <2>1, ParentIs
  <2>3. Parent(p) \in 0 .. m - 1
    BY <2>2
  <2>4. a[p] <= a[Parent(p)]
    BY <1>7 DEF HeapOf
  <2>. QED
    BY <1>8, <1>9, <2>1, <2>3, <2>4
<1>10. ASSUME i < m, NEW p \in 1 .. m - 1, Parent(p) = i, i > 0 PROVE b[p] <= b[Parent(i)]
  <2>1. p \in Nat /\ p > 0 /\ p \in 0 .. m - 1 /\ i \in Nat /\ i \in 0 .. m - 1
    BY <1>10
  <2>2. i < p /\ Parent(i) \in Nat /\ Parent(i) < i
    BY <1>10, <2>1, ParentIs
  <2>3. Parent(i) \in 0 .. m - 1
    BY <2>1, <2>2
  <2>4. Rising(a, i, m)
    BY <1>6, <1>7, <2>1, HeapRises
  <2>5. a[p] <= a[Parent(i)]
    BY <1>10, <2>4 DEF Rising
  <2>. QED
    BY <1>8, <2>1, <2>2, <2>3, <2>5
<1>. QED
  BY <1>3, <1>5, <1>9, <1>10 DEF Sinking

\* heap.Pop: the root is taken away.
LEMMA HeapPopIs ==
    ASSUME NEW s, NEW gone, NEW low, NEW n \in Nat \ {0}, Kept(s, gone, low, n)
    PROVE  Kept(HeapPop(s).s, gone, low, n - 1)
<1>1. PICK m \in Nat : m = n - 1
  OBVIOUS
<1>2. PICK t : t = Swap(s, 0, m)
  OBVIOUS
<1>3. PICK u : u = Down(t, 0, m)
  OBVIOUS
<1>4. s.cont.size = n
  BY DEF Kept, Sound
<1>5. HeapPop(s) = StackPop(u)
  BY <1>1, <1>2, <1>3, <1>4 DEF HeapPop
<1>6. Sound(t.cont, t.index, gone, low, n) /\ (0 < m => Sinking(Ranks(t.cont, low, m), 0, m))
  <2>1. 0 \in 0 .. m
    OBVIOUS
  <2>. QED
    BY <1>1, <1>2, <2>1, MovedSinks
<1>7. Sound(u.cont, u.index, gone, low, n) /\ Heap(u.cont, m)
  <2>1. CASE m = 0
    <3>1. PICK f : DownLoop(f, [s |-> t, i |-> 0], 0) /\ Down(t, 0, 0) = f[0].s
      BY DownIs
    <3>2. f[0] = [s |-> t, i |-> 0]
      BY <3>1 DEF DownLoop
    <3>3. u = t
      BY <1>3, <2>1, <3>1, <3>2
    <3>4. Heap(u.cont, 0)
      BY DEF Heap
    <3>. QED
      BY <1>6, <2>1, <3>3, <3>4
  <2>2. CASE m > 0
    <3>1. m \in 0 .. n /\ 0 \in 0 .. m - 1 /\ n \in Nat
      BY <1>1, <2>2
    <3>2. Sunk(t, u, gone, low, m, n, 0)
      BY <1>3, <1>6, <2>2, <3>1, DownHeap
    <3>3. Sound(u.cont, u.index, gone, low, n)
      BY <3>2 DEF Sunk, Turned
    <3>4. Decided(u, Ranks(u.cont, low, m), m)
      BY <3>1, <3>3, DecidedIs
    <3>5. Ranks(u.cont, low, m) \in [0 .. m - 1 -> Nat]
      BY <3>4 DEF Decided
    <3>6. HeapOf(Ranks(u.cont, low, m), m)
      <4>1. Rising(Ranks(u.cont, low, m), 0, m) => HeapOf(Ranks(u.cont, low, m), m)
        BY <3>1, <3>5, RiseEnd
      <4>. QED
        BY <3>2, <4>1 DEF Sunk
    <3>. QED
      BY <3>1, <3>3, <3>6, HeapFrom
  <2>. QED
    BY <2>1, <2>2
<1>. QED
  BY <1>1, <1>5, <1>7, PopKeeps

\* heap.Remove: the item at any place is taken away.
LEMMA HeapRemoveIs ==
    ASSUME NEW s, NEW gone, NEW low, NEW n \in Nat \ {0}, Kept(s, gone, low, n), NEW i \in 0 .. n - 1
    PROVE  Kept(HeapRemove(s, i).s, gone, low, n - 1)
<1>1. PICK m \in Nat : m = n - 1
  OBVIOUS
<1>2. s.cont.size = n /\ Sound(s.cont, s.index, gone, low, n) /\ Heap(s.cont, n)
  BY DEF Kept, Sound
<1>3. CASE m = i
  <2>1. HeapRemove(s, i) = StackPop(s)
    BY <1>1, <1>2, <1>3 DEF HeapRemove
  <2>2. Heap(s.cont, m)
    <3>1. m \in 0 .. n /\ n \in Nat
      BY <1>1
    <3>. QED
      BY <1>2, <3>1, HeapSame
  <2>. QED
    BY <1>1, <1>2, <2>1, <2>2, PopKeeps
<1>4. CASE m # i
  <2>1. PICK t : t = Swap(s, i, m)
    OBVIOUS
  <2>2. PICK u : u = Down(t, i, m)
    OBVIOUS
  <2>3. PICK w : w = IF u = t THEN Up(t, i) ELSE u
    OBVIOUS
  <2>4. HeapRemove(s, i) = StackPop(w)
    <3>1. HeapRemove(s, i) = StackPop(IF u = t THEN Up(t, i) ELSE u)
      BY <1>1, <1>2, <1>4, <2>1, <2>2 DEF HeapRemove
    <3>. QED
      BY <2>3, <3>1
  <2>5. i \in 0 .. m /\ i < m /\ i \in 0 .. m - 1 /\ m \in 0 .. n /\ n \in Nat
    BY <1>1, <1>4
  <2>6. Sound(t.cont, t.index, gone, low, n) /\ Sinking(Ranks(t.cont, low, m), i, m)
    BY <1>1, <2>1, <2>5, MovedSinks
  <2>7. Sunk(t, u, gone, low, m, n, i)
    BY <2>2, <2>5, <2>6, DownHeap
  <2>8. Sound(u.cont, u.index, gone, low, n)
    BY <2>7 DEF Sunk, Turned
  <2>9. Sound(w.cont, w.index, gone, low, n) /\ HeapOf(Ranks(w.cont, low, m), m)
    <3>1. CASE u # t
      BY <2>3, <2>7, <2>8, <3>1 DEF Sunk
    <3>2. CASE u = t
      <4>1. Decided(t, Ranks(t.cont, low, m), m)
        BY <2>5, <2>6, DecidedIs
      <4>2. Ranks(t.cont, low, m) \in [0 .. m - 1 -> Nat] /\ m \in Nat
        BY <4>1 DEF Decided
      <4>3. HeapOf(Ranks(t.cont, low, m), m) => Rising(Ranks(t.cont, low, m), i, m)
        BY <2>5, <4>2, HeapRises
      <4>4. Rising(Ranks(t.cont, low, m), i, m)
        BY <2>7, <3>2, <4>3 DEF Sunk
      <4>5. w = Up(t, i)
        BY <2>3, <3>2
      <4>6. Turned(t, w, gone, low, m, n) /\ HeapOf(Ranks(w.cont, low, m), m)
        BY <2>5, <2>6, <4>4, <4>5, UpHeap
      <4>. QED
        BY <4>6 DEF Turned
    <3>. QED
      BY <3>1, <3>2
  <2>10. Heap(w.cont, m)
    BY <2>5, <2>9, HeapFrom
  <2>. QED
    BY <1>1, <2>4, <2>9, <2>10, PopKeeps
<1>. QED
  BY <1>3, <1>4

\* heap.Push: an item is put at the end and rises.
LEMMA HeapPushIs ==
    ASSUME NEW s, NEW gone, NEW low, NEW n \in Nat, Kept(s, gone, low, n),
           NEW it \in Entries, \A p \in 0 .. n - 1 : At(s.cont, p).value # it.value,
           2 * Rank(low, it) < Words
    PROVE  Kept(Up(StackPush(s, it), n), gone \ {it.value}, low, n + 1)
<1>1. PICK t : t = StackPush(s, it)
  OBVIOUS
<1>2. PICK left : left = gone \ {it.value}
  OBVIOUS
<1>3. PICK m \in Nat \ {0} : m = n + 1
  OBVIOUS
<1>4. Pushed(s, t, it, gone, low, n)
  BY <1>1, PushIs DEF Kept
<1>5. Sound(t.cont, t.index, left, low, m) /\ \A p \in 0 .. n - 1 : At(t.cont, p) = At(s.cont, p)
  BY <1>2, <1>3, <1>4 DEF Pushed
<1>6. PICK a : a = Ranks(t.cont, low, m)
  OBVIOUS
<1>7. Heap(t.cont, n)
  <2>1. n \in 0 .. n /\ Heap(s.cont, n)
    BY DEF Kept
  <2>. QED
    BY <1>5, <2>1, HeapSame
<1>8. HeapOf(Ranks(t.cont, low, n), n)
  <2>1. n \in 0 .. m /\ m \in Nat
    BY <1>3
  <2>. QED
    BY <1>5, <1>7, <2>1, HeapTo
<1>9. Rising(a, n, m)
  <2>1. ASSUME NEW p \in 1 .. m - 1, p # n PROVE a[p] <= a[Parent(p)]
    <3>1. p \in 1 .. n - 1 /\ p \in Nat /\ p > 0 /\ p \in 0 .. n - 1 /\ p \in 0 .. m - 1
      BY <1>3, <2>1
    <3>2. Parent(p) \in Nat /\ Parent(p) < p
      BY <3>1, ParentIs
    <3>3. Parent(p) \in 0 .. n - 1 /\ Parent(p) \in 0 .. m - 1
      BY <1>3, <3>1, <3>2
    <3>4. Ranks(t.cont, low, n)[p] <= Ranks(t.cont, low, n)[Parent(p)]
      BY <1>8, <3>1 DEF HeapOf
    <3>. QED
      BY <1>6, <3>1, <3>3, <3>4 DEF Ranks
  <2>2. ASSUME NEW p \in 1 .. m - 1 PROVE Parent(p) # n
    <3>1. p \in Nat /\ p > 0 /\ p <= n
      BY <1>3
    <3>2. Parent(p) \in Nat /\ Parent(p) < p
      BY <3>1, ParentIs
    <3>. QED
      BY <3>1, <3>2
  <2>. QED
    BY <2>1, <2>2 DEF Rising
<1>10. PICK u : u = Up(t, n)
  OBVIOUS
<1>11. Turned(t, u, left, low, m, m) /\ HeapOf(Ranks(u.cont, low, m), m)
  <2>1. m \in 0 .. m /\ n \in 0 .. m - 1 /\ m \in Nat
    BY <1>3
  <2>. QED
    BY <1>5, <1>6, <1>9, <1>10, <2>1, UpHeap
<1>12. Sound(u.cont, u.index, left, low, m)
  BY <1>11 DEF Turned
<1>13. Heap(u.cont, m)
  <2>1. m \in 0 .. m /\ m \in Nat
    OBVIOUS
  <2>. QED
    BY <1>11, <1>12, <2>1, HeapFrom
<1>. QED
  BY <1>1, <1>2, <1>3, <1>10, <1>12, <1>13 DEF Kept

-----------------------------------------------------------------------------
\* The invariant says that the queue is kept.
LEMMA InvIs ==
    ASSUME Inv
    PROVE  /\ cont.size \in Nat
           /\ \E low \in 0 .. Words - 1 : Kept(State, dropped, low, cont.size)
<1>1. PICK low \in 0 .. Words - 1 : Sound(cont, index, dropped, low, cont.size) /\ Heap(cont, cont.size)
  BY DEF Inv
<1>2. PICK nb \in Nat \ {0} : Blocks(cont, nb)
  BY <1>1 DEF Sound
<1>3. cont.size \in Nat
  BY <1>2 DEF Blocks, Conts
<1>4. State.cont = cont /\ State.index = index
  BY DEF State
<1>. QED
  BY <1>1, <1>3, <1>4 DEF Kept

\* A queue that is kept has the invariant.
LEMMA KeptInv ==
    ASSUME NEW s, NEW low, NEW n, Kept(s, dropped', low, n), cont' = s.cont, index' = s.index
    PROVE  Inv'
<1>1. Sound(cont', index', dropped', low, n) /\ Heap(cont', n) /\ cont'.size = n /\ low \in 0 .. Words - 1
  BY DEF Kept, Sound
<1>. QED
  BY <1>1 DEF Inv

\* A stack without items has one block of nothing.
LEMMA EmptyIs ==
    ASSUME NEW x \in [Values -> Nat \cup {-1}], NEW gone, gone \subseteq Values,
           \A v \in Values \ gone : x[v] < 0
    PROVE  newSstack.size = 0 /\ Sound(newSstack, x, gone, 0, 0) /\ Heap(newSstack, 0)
<1>1. BlockSize \in Nat \ {0} /\ Words \in Nat \ {0}
  BY PrqueConstants
<1>2. newBlock \in [0 .. BlockSize - 1 -> Things] /\ \A r \in 0 .. BlockSize - 1 : newBlock[r] = Nil
  BY DEF newBlock, Things
<1>3. PICK c : c = newSstack
  OBVIOUS
<1>4. /\ c.size = 0 /\ c.capacity = BlockSize /\ c.offset = 0 /\ c.active = 0
      /\ c.blocks = [b \in {0} |-> newBlock]
  BY <1>3 DEF newSstack
<1>5. c.blocks \in [0 .. 1 - 1 -> [0 .. BlockSize - 1 -> Things]] /\ c.blocks[0] = newBlock
  <2>1. 0 .. 1 - 1 = {0}
    OBVIOUS
  <2>. QED
    BY <1>2, <1>4, <2>1
<1>6. c \in Conts(1)
  BY <1>1, <1>3, <1>4, <1>5 DEF Conts, newSstack
<1>7. Blocks(c, 1)
  BY <1>1, <1>4, <1>6 DEF Blocks
<1>8. Filled(c, 0)
  <2>1. ASSUME NEW p \in 0 .. c.capacity - 1 PROVE At(c, p) = Nil
    <3>1. p \in 0 .. 1 * BlockSize - 1 /\ 1 \in Nat \ {0}
      BY <1>1, <1>4
    <3>2. p \div BlockSize \in 0 .. 1 - 1 /\ (p % BlockSize) \in 0 .. BlockSize - 1
      BY <3>1, PlaceIn
    <3>3. p \div BlockSize = 0
      BY <3>2
    <3>. QED
      BY <1>2, <1>5, <3>2, <3>3 DEF At
  <2>. QED
    BY <2>1 DEF Filled
<1>9. Placed(c, x, 0) /\ Owned(c, x, gone, 0) /\ Window(c, 0, 0) /\ Heap(c, 0)
  <2>1. Owned(c, x, gone, 0)
    <3>1. ASSUME NEW v \in Values \ gone, x[v] >= 0 PROVE FALSE
      <4>1. x[v] \in Nat \cup {-1} /\ x[v] < 0
        OBVIOUS
      <4>. QED
        BY <3>1, <4>1
    <3>. QED
      BY <3>1 DEF Owned
  <2>. QED
    BY <2>1 DEF Placed, Window, Heap
<1>10. 0 \in 0 .. Words - 1 /\ \E nb \in Nat \ {0} : Blocks(c, nb)
  BY <1>1, <1>7
<1>11. Sound(c, x, gone, 0, 0)
  BY <1>4, <1>8, <1>9, <1>10 DEF Sound
<1>. QED
  BY <1>3, <1>4, <1>9, <1>11

\* The queue starts empty.
LEMMA InitInv == ASSUME QueueInit PROVE Inv
<1>1. cont = newSstack /\ dropped = {} /\ index = [v \in Values |-> -1]
  BY DEF QueueInit
<1>2. index \in [Values -> Nat \cup {-1}] /\ \A v \in Values \ {} : index[v] < 0
  BY <1>1
<1>3. newSstack.size = 0 /\ Sound(newSstack, index, {}, 0, 0) /\ Heap(newSstack, 0)
  BY <1>2, EmptyIs
<1>4. 0 \in 0 .. Words - 1
  BY PrqueConstants
<1>. QED
  BY <1>1, <1>3, <1>4 DEF Inv

\* Push: the new priority may move the window, but not the order.
LEMMA PushInv ==
    ASSUME Inv, NEW v \in Values, NEW p \in 0 .. Words - 1, Push(v, p)
    PROVE  Inv'
<1>1. PICK n \in Nat : n = cont.size
  BY InvIs
<1>2. PICK old \in 0 .. Words - 1 : Kept(State, dropped, old, n)
  BY <1>1, InvIs
<1>3. PICK s : s = State
  OBVIOUS
<1>4. s.cont = cont /\ s.index = index
  BY <1>3 DEF State
<1>5. Sound(cont, index, dropped, old, n) /\ Heap(cont, n)
  BY <1>2, <1>3, <1>4 DEF Kept
<1>6. Items = {At(cont, i) : i \in 0 .. n - 1}
  BY <1>1 DEF Items, Item, At, State, Positions
<1>7. \A i \in 0 .. n - 1 : At(cont, i) \in Entries /\ At(cont, i) \in Items
  BY <1>5, <1>6 DEF Sound, Filled
<1>8. PICK it : it = [value |-> v, priority |-> p]
  OBVIOUS
<1>9. it \in Entries /\ it.value = v /\ it.priority = p
  BY <1>8 DEF Entries
<1>10. \A i \in 0 .. n - 1 : At(cont, i).value # v
  BY <1>7 DEF Push
<1>11. PICK low \in {p} \cup {i.priority : i \in Items} :
           \A q \in {p} \cup {i.priority : i \in Items} : 2 * ((q - low) % Words) < Words
  BY DEF Push, Close
<1>12. low \in 0 .. Words - 1
  <2>1. \A i \in Items : i.priority \in 0 .. Words - 1
    BY <1>6, <1>7 DEF Entries
  <2>. QED
    BY <2>1
<1>13. Window(cont, low, n)
  <2>1. ASSUME NEW i \in 0 .. n - 1 PROVE 2 * Rank(low, At(cont, i)) < Words
    <3>1. At(cont, i).priority \in {p} \cup {j.priority : j \in Items}
      BY <1>7
    <3>. QED
      BY <1>11, <3>1 DEF Rank
  <2>. QED
    BY <2>1 DEF Window
<1>14. 2 * Rank(low, it) < Words
  BY <1>9, <1>11 DEF Rank
<1>15. Kept(s, dropped, low, n)
  <2>1. Sound(cont, index, dropped, low, n)
    BY <1>5, <1>12, <1>13 DEF Sound
  <2>. QED
    BY <1>4, <1>5, <2>1 DEF Kept
<1>16. PICK t : t = Up(StackPush(s, it), n)
  OBVIOUS
<1>17. Kept(t, dropped \ {v}, low, n + 1)
  BY <1>4, <1>9, <1>10, <1>14, <1>15, <1>16, HeapPushIs
<1>18. cont' = t.cont /\ index' = t.index /\ dropped' = dropped \ {v}
  BY <1>1, <1>3, <1>8, <1>16 DEF Push
<1>. QED
  BY <1>17, <1>18, KeptInv

\* Pop takes the root out of a queue that is not empty.
LEMMA PopInv == ASSUME Inv, Pop PROVE Inv'
<1>1. PICK n \in Nat : n = cont.size
  BY InvIs
<1>2. PICK low \in 0 .. Words - 1 : Kept(State, dropped, low, n)
  BY <1>1, InvIs
<1>3. n \in Nat \ {0}
  BY <1>1 DEF Pop
<1>4. PICK r : r = HeapPop(State)
  OBVIOUS
<1>5. Kept(r.s, dropped, low, n - 1)
  BY <1>2, <1>3, <1>4, HeapPopIs
<1>6. cont' = r.s.cont /\ index' = r.s.index /\ dropped' = dropped
  BY <1>4 DEF Pop, Take
<1>. QED
  BY <1>5, <1>6, KeptInv

\* Remove at the index the owner was told, when its value was not dropped.
LEMMA RemoveInv == ASSUME Inv, NEW v \in Values, RemoveValue(v) PROVE Inv'
<1>1. PICK n \in Nat : n = cont.size
  BY InvIs
<1>2. PICK low \in 0 .. Words - 1 : Kept(State, dropped, low, n)
  BY <1>1, InvIs
<1>3. Sound(cont, index, dropped, low, n)
  BY <1>2 DEF Kept, State
<1>4. CASE index[v] < 0
  BY <1>4 DEF RemoveValue, Inv
<1>5. CASE ~(index[v] < 0)
  <2>1. PICK i \in 0 .. n - 1 : i = index[v]
    <3>1. index[v] \in Nat \cup {-1} /\ Owned(cont, index, dropped, n)
      BY <1>3 DEF Sound
    <3>2. index[v] \in Nat
      BY <1>5, <3>1
    <3>3. v \in Values \ dropped
      BY DEF RemoveValue
    <3>4. index[v] < n
      BY <3>1, <3>2, <3>3 DEF Owned
    <3>. QED
      BY <3>2, <3>4
  <2>2. n \in Nat \ {0}
    BY <2>1
  <2>3. PICK r : r = HeapRemove(State, i)
    OBVIOUS
  <2>4. Kept(r.s, dropped, low, n - 1)
    BY <1>2, <2>1, <2>2, <2>3, HeapRemoveIs
  <2>5. cont' = r.s.cont /\ index' = r.s.index /\ dropped' = dropped
    BY <1>5, <2>1, <2>3 DEF RemoveValue, Take
  <2>. QED
    BY <2>4, <2>5, KeptInv
<1>. QED
  BY <1>4, <1>5

\* Reset: the values that were in the queue keep an index and are dropped.
LEMMA ResetInv == ASSUME Inv, Reset PROVE Inv'
<1>1. PICK n \in Nat : n = cont.size
  BY InvIs
<1>2. PICK low \in 0 .. Words - 1 : Kept(State, dropped, low, n)
  BY <1>1, InvIs
<1>3. Sound(cont, index, dropped, low, n)
  BY <1>2 DEF Kept, State
<1>4. Items = {At(cont, i) : i \in 0 .. n - 1}
  BY <1>1 DEF Items, Item, At, State, Positions
<1>5. /\ index \in [Values -> Nat \cup {-1}] /\ dropped \subseteq Values /\ Owned(cont, index, dropped, n)
      /\ \A i \in 0 .. n - 1 : At(cont, i) \in Entries
  BY <1>3 DEF Sound, Filled
<1>6. PICK gone : gone = dropped \cup {it.value : it \in Items}
  OBVIOUS
<1>7. gone \subseteq Values
  BY <1>4, <1>5, <1>6 DEF Entries
<1>8. ASSUME NEW v \in Values \ gone PROVE index[v] < 0
  <2>1. v \in Values \ dropped /\ \A i \in 0 .. n - 1 : At(cont, i).value # v
    BY <1>4, <1>6
  <2>2. index[v] \in Nat \cup {-1}
    BY <1>5
  <2>3. ASSUME index[v] >= 0 PROVE FALSE
    <3>1. index[v] < n /\ At(cont, index[v]).value = v
      BY <1>5, <2>1, <2>3 DEF Owned
    <3>2. index[v] \in 0 .. n - 1
      BY <2>2, <2>3, <3>1
    <3>. QED
      BY <2>1, <3>1, <3>2
  <2>. QED
    BY <2>2, <2>3
<1>9. newSstack.size = 0 /\ Sound(newSstack, index, gone, 0, 0) /\ Heap(newSstack, 0)
  BY <1>5, <1>7, <1>8, EmptyIs
<1>10. cont' = newSstack /\ index' = index /\ dropped' = gone
  BY <1>6 DEF Reset
<1>11. 0 \in 0 .. Words - 1
  BY PrqueConstants
<1>. QED
  BY <1>9, <1>10, <1>11 DEF Inv

\* Every step of the queue keeps the invariant.
LEMMA NextInv == ASSUME Inv, [QueueNext]_queueVars PROVE Inv'
<1>1. CASE \E v \in Values, p \in 0 .. Words - 1 : Push(v, p)
  BY <1>1, PushInv
<1>2. CASE Pop
  BY <1>2, PopInv
<1>3. CASE \E v \in Values : RemoveValue(v)
  BY <1>3, RemoveInv
<1>4. CASE Reset
  BY <1>4, ResetInv
<1>5. CASE UNCHANGED queueVars
  BY <1>5 DEF queueVars, Inv
<1>. QED
  BY <1>1, <1>2, <1>3, <1>4, <1>5 DEF QueueNext

-----------------------------------------------------------------------------
\* What LayoutExact says follows from the numbers of the stack.
LEMMA LayoutFrom == ASSUME Inv PROVE LayoutExact
<1>1. PICK n \in Nat : n = cont.size
  BY InvIs
<1>2. PICK low \in 0 .. Words - 1 : Sound(cont, index, dropped, low, n)
  BY <1>1 DEF Inv
<1>3. PICK nb \in Nat \ {0} : Blocks(cont, nb)
  BY <1>2 DEF Sound
<1>4. cont.size = cont.active * BlockSize + cont.offset /\ cont.capacity = nb * BlockSize
  BY <1>3 DEF Blocks
<1>5. Cardinality(DOMAIN cont.blocks) = nb
  <2>1. DOMAIN cont.blocks = 0 .. nb - 1
    BY <1>3 DEF Blocks, Conts
  <2>2. 0 \in Int /\ nb - 1 \in Int /\ ~(0 > nb - 1) /\ (nb - 1) - 0 + 1 = nb
    OBVIOUS
  <2>3. Cardinality(0 .. nb - 1) = (nb - 1) - 0 + 1
    BY <2>2, FS_Interval
  <2>. QED
    BY <2>1, <2>2, <2>3
<1>6. ASSUME NEW i \in 0 .. cont.capacity - 1 PROVE Item(State, i) = Nil <=> i >= cont.size
  <2>1. Item(State, i) = At(cont, i)
    BY DEF Item, At, State
  <2>2. CASE i >= n
    <3>1. i \in n .. cont.capacity - 1
      BY <2>2
    <3>2. At(cont, i) = Nil
      BY <1>2, <3>1 DEF Sound, Filled
    <3>. QED
      BY <1>1, <2>1, <2>2, <3>2
  <2>3. CASE ~(i >= n)
    <3>1. i \in 0 .. n - 1
      BY <2>3
    <3>2. At(cont, i).priority \in 0 .. Words - 1
      BY <1>2, <3>1 DEF Sound, Filled, Entries
    <3>3. At(cont, i) # Nil
      <4>1. Nil.priority = -1
        BY DEF Nil
      <4>. QED
        BY <3>2, <4>1, PrqueConstants
    <3>. QED
      BY <1>1, <2>1, <2>3, <3>3
  <2>. QED
    BY <2>2, <2>3
<1>. QED
  BY <1>4, <1>5, <1>6 DEF LayoutExact

\* What IndexExact says is part of the invariant.
LEMMA IndexFrom == ASSUME Inv PROVE IndexExact
<1>1. PICK n \in Nat : n = cont.size
  BY InvIs
<1>2. PICK low \in 0 .. Words - 1 : Sound(cont, index, dropped, low, n)
  BY <1>1 DEF Inv
<1>3. \A i : Item(State, i) = At(cont, i)
  BY DEF Item, At, State
<1>4. Placed(cont, index, n) /\ Owned(cont, index, dropped, n)
  BY <1>2 DEF Sound
<1>5. ASSUME NEW i \in Positions PROVE index[Item(State, i).value] = i
  BY <1>1, <1>3, <1>4 DEF Positions, Placed
<1>6. ASSUME NEW v \in Values \ dropped, index[v] >= 0
      PROVE  index[v] < cont.size /\ Item(State, index[v]).value = v
  BY <1>1, <1>3, <1>4, <1>6 DEF Owned
<1>. QED
  BY <1>5, <1>6 DEF IndexExact

\* The root of a heap is the first in the order of the words.
LEMMA RootFrom == ASSUME Inv PROVE RootFirst
<1>1. PICK n \in Nat : n = cont.size
  BY InvIs
<1>2. PICK low \in 0 .. Words - 1 : Kept(State, dropped, low, n)
  BY <1>1, InvIs
<1>3. PICK s : s = State
  OBVIOUS
<1>4. s.cont = cont /\ Sound(s.cont, s.index, dropped, low, n) /\ Heap(s.cont, n) /\ n \in 0 .. n
  BY <1>2, <1>3 DEF Kept, State
<1>5. PICK a : a = Ranks(cont, low, n)
  OBVIOUS
<1>6. HeapOf(a, n)
  BY <1>4, <1>5, HeapTo
<1>7. Decided(s, a, n)
  BY <1>4, <1>5, DecidedIs
<1>8. ASSUME NEW i \in 0 .. n - 1 PROVE Signed(At(cont, i).priority - At(cont, 0).priority) <= 0
  <2>1. 0 \in 0 .. n - 1
    OBVIOUS
  <2>2. a[i] <= a[0] /\ a[i] \in Nat /\ a[0] \in Nat
    <3>1. a \in [0 .. n - 1 -> Nat]
      BY <1>7 DEF Decided
    <3>2. \A p \in 0 .. n - 1 : a[p] <= a[0]
      BY <1>6, <3>1, HeapRoot
    <3>. QED
      BY <2>1, <3>1, <3>2
  <2>3. PICK x \in Int : x = At(cont, i).priority
    BY <1>4 DEF Sound, Filled, Entries
  <2>4. PICK y \in Int : y = At(cont, 0).priority
    BY <1>4, <2>1 DEF Sound, Filled, Entries
  <2>5. a[i] = (x - low) % Words /\ a[0] = (y - low) % Words
    BY <1>5, <2>1, <2>3, <2>4 DEF Ranks, Rank
  <2>6. 2 * ((x - low) % Words) < Words /\ 2 * ((y - low) % Words) < Words
    BY <1>4, <2>1, <2>3, <2>4 DEF Sound, Window, Rank
  <2>7. Signed(x - y) = ((x - low) % Words) - ((y - low) % Words)
    <3>1. low \in Int
      OBVIOUS
    <3>. QED
      BY <2>6, <3>1, Differences
  <2>8. Signed(x - y) = a[i] - a[0]
    BY <2>5, <2>7
  <2>. QED
    BY <2>2, <2>3, <2>4, <2>8
<1>. QED
  BY <1>1, <1>8 DEF RootFirst, Positions, Item, At, State

-----------------------------------------------------------------------------
\* Push, Pop, Remove and Reset keep the blocks, the indices and the heap.
THEOREM Invariance == Spec => []Inv
<1>1. QueueInit => Inv
  BY InitInv
<1>2. Inv /\ [QueueNext]_queueVars => Inv'
  BY NextInv
<1>. QED
  BY <1>1, <1>2, PTL DEF Spec

\* sstack.Push and Pop: size, capacity, offset, the active block and what is in
\* the blocks agree, over any number of steps across the edge of a block.
THEOREM LayoutIsExact == Spec => []LayoutExact
<1>1. Inv => LayoutExact
  BY LayoutFrom
<1>. QED
  BY <1>1, Invariance, PTL

\* sstack.Swap: an owner was told the place of its value, so that Remove takes
\* out that value and no other.
THEOREM IndexIsExact == Spec => []IndexExact
<1>1. Inv => IndexExact
  BY IndexFrom
<1>. QED
  BY <1>1, Invariance, PTL

\* prque.Pop: the root has the greatest priority, in the order of the words
\* that wraps around, after any sequence of Push, Pop, Remove and Reset.
THEOREM RootIsFirst == Spec => []RootFirst
<1>1. Inv => RootFirst
  BY RootFrom
<1>. QED
  BY <1>1, Invariance, PTL

\* prque: the blocks hold the items below size, the index an owner was told is
\* where its value is, and Pop takes the greatest priority.
THEOREM QueueIsExact == Spec => []QueueExact
<1>1. LayoutExact /\ IndexExact /\ RootFirst => QueueExact
  BY DEF QueueExact
<1>. QED
  BY <1>1, LayoutIsExact, IndexIsExact, RootIsFirst, PTL
=============================================================================
