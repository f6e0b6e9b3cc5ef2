------------------------------- MODULE Prque -------------------------------
(***************************************************************************)
(* common/prque: a binary heap over a stack kept in blocks of fixed size.  *)
(* Priorities are words that wrap around; the owner of a value is told its *)
(* index whenever the value moves, to be able to remove it.                *)
(***************************************************************************)
EXTENDS Integers, FiniteSets

CONSTANTS
    Values,      \* what is queued, each at most once
    BlockSize,   \* items of a block
    Words        \* how many priorities a word has

ASSUME PrqueConstants == BlockSize \in Nat \ {0} /\ Words \in Nat \ {0}

VARIABLES
    cont,        \* the sstack: size, capacity, offset, active, blocks
    index,       \* the last index setIndex told of a value, -1 when out
    dropped,     \* the values a Reset took out without telling
    last         \* the last item out: value and priority

queueVars == <<cont, index, dropped, last>>
Nil == [value |-> 0, priority |-> -1]

Signed(n) == LET w == n % Words IN IF 2 * w >= Words THEN w - Words ELSE w

-----------------------------------------------------------------------------
(* sstack.go; a state is [cont, index], and active is the number of a block *)

newBlock == [i \in 0 .. BlockSize - 1 |-> Nil]
newSstack == [size |-> 0, capacity |-> BlockSize, offset |-> 0, active |-> 0, blocks |-> [b \in {0} |-> newBlock]]

Item(s, i) == s.cont.blocks[i \div BlockSize][i % BlockSize]

Less(s, i, j) == Signed(Item(s, i).priority - Item(s, j).priority) > 0

(* A mutant tells the first of the two only *)
SwapTellsOne(s, i, j) ==
    [cont |-> [s.cont EXCEPT !.blocks[i \div BlockSize][i % BlockSize] = Item(s, j),
                             !.blocks[j \div BlockSize][j % BlockSize] = Item(s, i)],
     index |-> [s.index EXCEPT ![Item(s, j).value] = i]]
Swap(s, i, j) ==
    [cont |-> [s.cont EXCEPT !.blocks[i \div BlockSize][i % BlockSize] = Item(s, j),
                             !.blocks[j \div BlockSize][j % BlockSize] = Item(s, i)],
     index |-> [s.index EXCEPT ![Item(s, j).value] = i, ![Item(s, i).value] = j]]

(* Where the next item goes: a new block, the next one, or the active one *)
Room(c) ==
    IF c.size = c.capacity
    THEN LET b == c.capacity \div BlockSize
         IN [c EXCEPT !.active = b, !.capacity = @ + BlockSize, !.offset = 0,
                      !.blocks = [k \in DOMAIN @ \cup {b} |-> IF k = b THEN newBlock ELSE @[k]]]
    ELSE IF c.offset = BlockSize THEN [c EXCEPT !.active = c.size \div BlockSize, !.offset = 0] ELSE c

StackPush(s, it) ==
    LET c == Room(s.cont)
    IN [cont |-> [c EXCEPT !.blocks[c.active][c.offset] = it, !.offset = @ + 1, !.size = @ + 1],
        index |-> [s.index EXCEPT ![it.value] = s.cont.size]]

StepBack(c) ==
    IF c.offset = 0
    THEN [c EXCEPT !.size = @ - 1, !.offset = BlockSize - 1, !.active = (c.size - 1) \div BlockSize]
    ELSE [c EXCEPT !.size = @ - 1, !.offset = @ - 1]

StackPop(s) ==
    LET c == StepBack(s.cont)
        res == c.blocks[c.active][c.offset]
    IN [s |-> [cont |-> [c EXCEPT !.blocks[c.active][c.offset] = Nil],
               index |-> [s.index EXCEPT ![res.value] = -1]],
        res |-> res]

-----------------------------------------------------------------------------
(* container/heap *)

(* Rounds of a loop that starts with l, for a body that leaves l alone    *)
(* when the loop has ended: up in at most j rounds, down in at most n      *)
Parent(j) == (j - 1) \div 2
UpRound(l) ==
    IF l.j = 0 \/ ~ Less(l.s, l.j, Parent(l.j)) THEN l
    ELSE [s |-> Swap(l.s, Parent(l.j), l.j), j |-> Parent(l.j)]
Up(s, j) ==
    LET rounds[k \in 0 .. j] == IF k = 0 THEN [s |-> s, j |-> j] ELSE UpRound(rounds[k - 1])
    IN rounds[j].s

(* The child of i that comes first *)
Child(s, i, n) == IF 2 * i + 2 < n /\ Less(s, 2 * i + 2, 2 * i + 1) THEN 2 * i + 2 ELSE 2 * i + 1
DownRound(l, n) ==
    LET j == Child(l.s, l.i, n)
    IN IF 2 * l.i + 1 >= n \/ ~ Less(l.s, j, l.i) THEN l ELSE [s |-> Swap(l.s, l.i, j), i |-> j]
Down(s, i, n) ==
    LET rounds[k \in 0 .. n] == IF k = 0 THEN [s |-> s, i |-> i] ELSE DownRound(rounds[k - 1], n)
    IN rounds[n].s

HeapPop(s) == LET n == s.cont.size - 1 IN StackPop(Down(Swap(s, 0, n), 0, n))

HeapRemove(s, i) ==
    LET n == s.cont.size - 1
        moved == Swap(s, i, n)
        sunk == Down(moved, i, n)
    IN IF n = i THEN StackPop(s) ELSE StackPop(IF sunk = moved THEN Up(moved, i) ELSE sunk)

-----------------------------------------------------------------------------
(* prque.go *)

State == [cont |-> cont, index |-> index]
Positions == 0 .. cont.size - 1
Items == {Item(State, i) : i \in Positions}

(* What the comment on item asks of its users: the priorities in the queue *)
(* are less than half the words apart                                      *)
Close(p) ==
    LET queued == {p} \cup {it.priority : it \in Items}
    IN \E low \in queued : \A q \in queued : 2 * ((q - low) % Words) < Words

QueueInit ==
    /\ cont = newSstack
    /\ index = [v \in Values |-> -1]
    /\ dropped = {}
    /\ last = Nil

Push(v, p) ==
    /\ v \notin {it.value : it \in Items} /\ Close(p)
    /\ LET it == [value |-> v, priority |-> p]
           s == Up(StackPush(State, it), cont.size)
       IN cont' = s.cont /\ index' = s.index
    /\ dropped' = dropped \ {v}
    /\ last' = Nil

Take(r) == cont' = r.s.cont /\ index' = r.s.index /\ last' = r.res /\ UNCHANGED dropped

Pop == cont.size > 0 /\ Take(HeapPop(State))

(* The owner of v removes it at the index it was told, and an index below 0 *)
(* leaves the queue alone                                                  *)
RemoveValue(v) ==
    /\ v \notin dropped
    /\ IF index[v] < 0 THEN last' = Nil /\ UNCHANGED <<cont, index, dropped>> ELSE Take(HeapRemove(State, index[v]))

(* setIndex is not called: the owners of the values still have an index *)
Reset ==
    /\ dropped' = dropped \cup {it.value : it \in Items}
    /\ cont' = newSstack
    /\ last' = Nil
    /\ UNCHANGED index

QueueNext ==
    \/ \E v \in Values, p \in 0 .. Words - 1 : Push(v, p)
    \/ Pop
    \/ \E v \in Values : RemoveValue(v)
    \/ Reset

-----------------------------------------------------------------------------
(* sstack.Push and Pop: size, capacity, offset and the active block agree, *)
(* and the items are the places below size, over any number of steps back  *)
(* and forth across the edge of a block.                                   *)
LayoutExact ==
    /\ cont.size = cont.active * BlockSize + cont.offset
    /\ cont.capacity = Cardinality(DOMAIN cont.blocks) * BlockSize
    /\ \A i \in 0 .. cont.capacity - 1 : Item(State, i) = Nil <=> i >= cont.size

(* sstack.Swap, Push and Pop: the index an owner was told last is where    *)
(* its value is, and a value that is out has none, unless a Reset dropped  *)
(* it. Without this Remove takes out another value.                        *)
IndexExact ==
    /\ \A i \in Positions : index[Item(State, i).value] = i
    /\ \A v \in Values \ dropped : index[v] >= 0 => index[v] < cont.size /\ Item(State, index[v]).value = v

(* prque.Pop: "Pops the value with the greates priority": no item left is  *)
(* before the root, in the order of the words that wraps around, after any *)
(* sequence of Push, Pop and Remove.                                       *)
RootFirst == \A i \in Positions : Signed(Item(State, i).priority - Item(State, 0).priority) <= 0

(* prque: the blocks hold exactly the items below size, the index an owner *)
(* was told is where its value is, and Pop takes the greatest priority.    *)
QueueExact == LayoutExact /\ IndexExact /\ RootFirst
=============================================================================
