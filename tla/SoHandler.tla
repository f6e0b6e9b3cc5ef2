----------------------------- MODULE SoHandler -----------------------------
(***************************************************************************)
(* The SO handler, the stub a contract gets and the contract of            *)
(* simpleDemo.go. The ledger is an MStateDB that one contract uses at a    *)
(* time (module MStateDB has the concurrency); blocks are sealed and their *)
(* states pruned by the chain behind public.BC.                            *)
(***************************************************************************)
EXTENDS Integers, Sequences, FiniteSets, SequencesExt

CONSTANTS
    Addresses,
    Keys, Vals,  \* byte strings
    HashLength,
    Ranges,      \* of blocks, asked for in GET_HISTORY
    MaxSize,     \* of a history, in the size of a RecordElement
    MaxBlocks,   \* bound: blocks sealed
    MaxWrites    \* bound: acknowledged writes

VARIABLES
    db,          \* the PDX state: address -> hash -> bytes
    chain,       \* block number + 1 -> the state of its root, or Pruned
    last,        \* the last call and what it gave
    acks         \* history: the acknowledged writes of the contracts

vars == <<db, chain, last, acks>>
Bytes == {0, 1}
Hashes == [1 .. HashLength -> Bytes]
Pruned == [a \in {} |-> 0]

(* A mutant keeps the first bytes of a long key *)
BytesToHashFirst(b) ==
    LET part == IF Len(b) > HashLength THEN SubSeq(b, 1, HashLength) ELSE b
    IN [i \in 1 .. HashLength |-> IF i <= HashLength - Len(part) THEN 0 ELSE part[i - HashLength + Len(part)]]
BytesToHash(b) ==
    LET part == IF Len(b) > HashLength THEN SubSeq(b, Len(b) - HashLength + 1, Len(b)) ELSE b
    IN [i \in 1 .. HashLength |-> IF i <= HashLength - Len(part) THEN 0 ELSE part[i - HashLength + Len(part)]]

-----------------------------------------------------------------------------
(* Handler.handle: the ledger it leaves and its answer, which may be nil or *)
(* no answer at all (a panic)                                              *)

Answer(res, err) == [kind |-> "answer", res |-> res, err |-> err, found |-> <<>>]
Nil == [kind |-> "nil", res |-> <<>>, err |-> "", found |-> <<>>]
Panic == [kind |-> "panic", res |-> <<>>, err |-> "", found |-> <<>>]
SetPDXState(a, hash, v) == [db EXCEPT ![a][hash] = v]
Reply(ledger, answer) == [db |-> ledger, answer |-> answer]

(* The value is looked up but never put in an answer *)
HandleGet(a, hash) == Reply(db, IF db[a][hash] = <<>> THEN Answer(<<>>, "NoResult") ELSE Nil)

HandlePut(a, hash, inputs) ==
    IF Len(inputs) # 2 THEN Reply(db, Answer(<<>>, "Key_Value_NotMatch"))
    ELSE Reply(SetPDXState(a, hash, inputs[2]), Answer(<<>>, ""))

(* The loop ends at the remainder of the length by 2, not at its half *)
HandlePuts(a, inputs) ==
    IF Len(inputs) % 2 # 0 THEN Reply(db, Answer(<<>>, "Key_Value_NotMatch"))
    ELSE LET put(ledger, i) == [ledger EXCEPT ![a][BytesToHash(inputs[2 * i + 1])] = inputs[2 * i + 2]]
         IN Reply(FoldLeft(put, db, [i \in 1 .. Len(inputs) % 2 |-> i - 1]), Answer(<<>>, ""))

HandleDel(a, hash) == Reply(SetPDXState(a, hash, <<>>), Answer(<<>>, ""))

(* Mutant: PushBack for PushFront *)
RecordBack(found, v, n) == Append(found, [value |-> v, num |-> n])
Record(found, v, n) == <<[value |-> v, num |-> n]>> \o found

(* The blocks from n on: one that does not exist is dereferenced, one      *)
(* whose state is gone ends the history, as its size does. A RecordElement *)
(* has no exported field, so that its Size is 1.                           *)
RECURSIVE History(_, _, _, _, _)
History(a, hash, n, finish, found) ==
    IF n >= finish \/ Len(found) >= MaxSize THEN [ok |-> TRUE, found |-> found]
    ELSE IF n >= Len(chain) THEN [ok |-> FALSE, found |-> found]
    ELSE IF chain[n + 1] = Pruned THEN [ok |-> TRUE, found |-> found]
    ELSE LET v == chain[n + 1][a][hash]
         IN History(a, hash, n + 1, finish, IF v = <<>> THEN found ELSE Record(found, v, n))

(* list.List has no exported field either: what is sent is an empty list, *)
(* and always with an error                                                *)
EncodedList == <<192>>
HandleHistory(a, hash, start, finish) ==
    LET history == History(a, hash, start, finish, <<>>)
    IN IF start > finish THEN Reply(db, Answer(<<>>, "Start_FinishNum_Illegal"))
       ELSE IF ~ history.ok THEN Reply(db, Panic)
       ELSE Reply(db, [Answer(EncodedList, "History_Limit_Reached") EXCEPT !.found = history.found])

ValidityInput(input) == input # <<>>
Handle(a, type, inputs) ==
    LET hash == BytesToHash(inputs[1])
    IN IF ~ ValidityInput(inputs[1]) THEN Reply(db, Answer(<<>>, "Input_Error"))
       ELSE CASE type = "GET_STATE"   -> HandleGet(a, hash)
              [] type = "PUT_STATE"   -> HandlePut(a, hash, inputs)
              [] type = "PUT_STATES"  -> HandlePuts(a, inputs)
              [] type = "DEL_STATE"   -> HandleDel(a, hash)
              [] type = "GET_HISTORY" -> HandleHistory(a, hash, inputs[2], inputs[3])

-----------------------------------------------------------------------------
(* SOCallStub: GetState and the writes read the answer without looking     *)
(* whether there is one; a history that has bytes is given up              *)

Outcome(answer, res) ==
    IF answer.kind # "answer" THEN [panic |-> TRUE, res |-> <<>>, err |-> "", found |-> <<>>]
    ELSE [panic |-> FALSE, res |-> res, err |-> answer.err, found |-> answer.found]

StubGetState(a, k) == LET r == Handle(a, "GET_STATE", <<k>>) IN Reply(r.db, Outcome(r.answer, r.answer.res))
StubPutState(a, k, v) == LET r == Handle(a, "PUT_STATE", <<k, v>>) IN Reply(r.db, Outcome(r.answer, <<>>))
StubDelState(a, k) == LET r == Handle(a, "DEL_STATE", <<k>>) IN Reply(r.db, Outcome(r.answer, <<>>))
StubGetHistoryForKey(a, k, start, end) ==
    LET r == Handle(a, "GET_HISTORY", <<k, start, end>>)
        o == Outcome(r.answer, <<>>)
    IN Reply(r.db, IF r.answer.kind = "answer" /\ r.answer.res = <<>> THEN [o EXCEPT !.err = "EOF"] ELSE o)

(* simple.Run: the arguments are the name of a function and its own *)
GetFunctionAndParameters(args) ==
    [function |-> IF args = <<>> THEN "" ELSE args[1], params |-> IF args = <<>> THEN <<>> ELSE Tail(args)]
WrongInput == [panic |-> FALSE, res |-> <<>>, err |-> "input", found |-> <<>>]
Run(a, args) ==
    LET call == GetFunctionAndParameters(args)
        params == call.params
        saved == StubPutState(a, params[1], params[2])
    IN CASE call.function = "queryPersonInfo" -> IF Len(params) # 1 THEN Reply(db, WrongInput)
                                                 ELSE StubGetState(a, params[1])
         [] call.function = "savePersonInfo"  -> IF Len(params) # 2 THEN Reply(db, WrongInput)
                                                 ELSE IF saved.answer.err # "" THEN saved
                                                 ELSE [saved EXCEPT !.answer.res = params[2]]
         [] OTHER -> Reply(db, [WrongInput EXCEPT !.err = ""])

-----------------------------------------------------------------------------
Nothing ==
    [op |-> "none", a |-> "", k |-> <<>>, range |-> <<>>, panic |-> FALSE, res |-> <<>>, err |-> "", found |-> <<>>]
Empty == [a \in Addresses |-> [h \in Hashes |-> <<>>]]

Init ==
    /\ db = Empty /\ chain = <<Empty>>
    /\ acks = <<>> /\ last = Nothing

Called(op, a, k, range, r) ==
    /\ db' = r.db
    /\ last' = [op |-> op, a |-> a, k |-> k, range |-> range, panic |-> r.answer.panic, res |-> r.answer.res,
                err |-> r.answer.err, found |-> r.answer.found]
    /\ UNCHANGED chain
Acknowledged(a, k, v, r) ==
    /\ Len(acks) < MaxWrites
    /\ acks' = IF r.answer.err = "" /\ ~ r.answer.panic THEN Append(acks, [a |-> a, k |-> k, v |-> v]) ELSE acks

GetState(a, k) == Called("GetState", a, k, <<>>, StubGetState(a, k)) /\ UNCHANGED acks
PutState(a, k, v) == LET r == StubPutState(a, k, v) IN Called("PutState", a, k, <<>>, r) /\ Acknowledged(a, k, v, r)
DelState(a, k) == LET r == StubDelState(a, k) IN Called("DelState", a, k, <<>>, r) /\ Acknowledged(a, k, <<>>, r)
GetHistoryForKey(a, k, start, end) ==
    /\ Called("GetHistoryForKey", a, k, <<start, end>>, StubGetHistoryForKey(a, k, start, end))
    /\ UNCHANGED acks

(* No method of the stub sends PUT_STATES; it is sent to the handler. What *)
(* it acknowledges is no write: its loop makes none.                       *)
PutStates(a, inputs) ==
    LET r == Handle(a, "PUT_STATES", inputs)
    IN Called("PutStates", a, inputs[1], <<>>, Reply(r.db, Outcome(r.answer, <<>>))) /\ UNCHANGED acks

RunSimple(a, args) ==
    LET r == Run(a, args)
        saves == Len(args) = 3 /\ args[1] = "savePersonInfo"
    IN /\ Called("Run", a, <<>>, <<>>, r)
       /\ IF saves THEN Acknowledged(a, args[2], args[3], r) ELSE UNCHANGED acks

(* The chain: a block is sealed with the ledger, an old state is pruned *)
SealBlock ==
    /\ Len(chain) < MaxBlocks
    /\ chain' = Append(chain, db) /\ last' = Nothing
    /\ UNCHANGED <<db, acks>>
Prune(n) ==
    /\ n < Len(chain) /\ chain[n + 1] # Pruned
    /\ chain' = [chain EXCEPT ![n + 1] = Pruned] /\ last' = Nothing
    /\ UNCHANGED <<db, acks>>

Next ==
    \/ \E a \in Addresses, k \in Keys :
          \/ GetState(a, k) \/ DelState(a, k)
          \/ \E v \in Vals : PutState(a, k, v) \/ PutStates(a, <<k, v>>) \/ PutStates(a, <<k, v, k>>)
          \/ \E r \in Ranges : GetHistoryForKey(a, k, r[1], r[2])
          \/ RunSimple(a, <<"queryPersonInfo", k>>)
          \/ \E v \in Vals : RunSimple(a, <<"savePersonInfo", k, v>>)
    \/ \E a \in Addresses, args \in {<<>>, <<"other">>, <<"savePersonInfo">>} : RunSimple(a, args)
    \/ SealBlock
    \/ \E n \in 0 .. MaxBlocks - 1 : Prune(n)

Spec == Init /\ [][Next]_vars

-----------------------------------------------------------------------------
(* The number a key is, as far as it fits in a hash                        *)
Number(k) == FoldLeft(LAMBDA n, b : (2 * n + b) % 2 ^ HashLength, 0, k)

(* What the last acknowledged write left among those of an address to keys *)
(* that satisfy a condition                                                *)
LastWrite(a, chosen(_)) ==
    LET writes == SelectSeq(acks, LAMBDA w : w.a = a /\ chosen(w.k))
    IN IF writes = <<>> THEN <<>> ELSE Last(writes).v

(* The stub's PutState and DelState: an entry holds what the last          *)
(* acknowledged write put there, and no call that answers an error or that *)
(* panics changes it. Writes to keys with the same number meet in one      *)
(* entry (BytesToHash; KeysApart is what interface.go says), and what      *)
(* PUT_STATES acknowledges is never written.                               *)
WritesHeld ==
    \A a \in Addresses, k \in Keys :
        k # <<>> => db[a][BytesToHash(k)] = LastWrite(a, LAMBDA j : Number(j) = Number(k))

(* What follows up to HistoryReturned is what interface.go says of the     *)
(* calls and the handler does not keep; no run checks it.                  *)

(* "PutState puts the specified `key` and `value` into the state. simple   *)
(* keys must not be an empty string and must not start with a null         *)
(* character" (interface.go:24): under such a key is what was last put     *)
(* there.                                                                  *)
KeysApart ==
    \A a \in Addresses, k \in Keys :
        k # <<>> /\ k[1] # 0 => db[a][BytesToHash(k)] = LastWrite(a, LAMBDA j : j = k)

(* "GetState returns the value of the specified `key` from the ledger"     *)
(* (interface.go:20): what is under the key is what GetState returns.      *)
GetStateReturns ==
    last.op = "GetState" /\ last.k # <<>> =>
        LET v == db[last.a][BytesToHash(last.k)]
        IN v # <<>> => ~ last.panic /\ last.err = "" /\ last.res = v

(* "Note that GetState doesn`t read data from the writest, which has not   *)
(* been committed to the state" (interface.go:21): it has no result when   *)
(* the last block has none.                                                *)
GetStateCommitted ==
    last.op = "GetState" /\ last.k # <<>> /\ Last(chain) # Pruned /\ last.err = "NoResult" =>
        Last(chain)[last.a][BytesToHash(last.k)] = <<>>

(* "GetHistoryForKey returns a history of key values across time"          *)
(* (interface.go:17): it does when the handler has found one.              *)
HistoryReturned == last.op = "GetHistoryForKey" /\ last.found # <<>> => last.err = ""

(* GET_HISTORY: the handler finds, newest first, the values the key has in *)
(* the blocks of the range, up to a block whose state is pruned, and as    *)
(* many of the oldest as fit. It dereferences a block that is missing      *)
(* exactly if neither of the two has stopped it before the head.           *)
HistoryExact ==
    last.op = "GetHistoryForKey" /\ last.k # <<>> =>
        LET start   == last.range[1]
            finish  == last.range[2]
            blocks  == start .. finish - 1
            sealed  == {n \in blocks : n < Len(chain)}
            reached == {n \in sealed : \A m \in start .. n : chain[m + 1] # Pruned}
            held    == {n \in reached : chain[n + 1][last.a][BytesToHash(last.k)] # <<>>}
            fitting == {n \in held : Cardinality({m \in held : m < n}) < MaxSize}
            stopped == reached # sealed \/ Cardinality(held) >= MaxSize
        IN /\ last.panic <=> blocks # sealed /\ ~ stopped
           /\ ~ last.panic => last.found = [i \in DOMAIN last.found |->
                  LET n == SetToSortSeq(fitting, >)[i]
                  IN [value |-> chain[n + 1][last.a][BytesToHash(last.k)], num |-> n]]
           /\ ~ last.panic => Len(last.found) = Cardinality(fitting)
=============================================================================
