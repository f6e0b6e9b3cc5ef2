---------------------------- MODULE AccountLock ----------------------------
(***************************************************************************)
(* The account locks that let several goroutines execute the transactions  *)
(* of one block in parallel (core/state/multi_statedb.go).  Every worker   *)
(* is one MStateDB; all workers share one MContext.  A worker runs one     *)
(* transaction at a time: Prepare stores its hash, every state access goes *)
(* through requestAndLock, and UnLockAccounts ends it.                     *)
(*                                                                         *)
(* The sections under MContext.mLock contain no blocking call, so each is  *)
(* one atomic action; what happens outside of mLock (the wait for an       *)
(* account's mutex, the unlocking of the mutexes one by one) is a step of  *)
(* its own.                                                                *)
(***************************************************************************)
EXTENDS Integers, Sequences

CONSTANTS Workers,      \* the MStateDBs returned by NewMStateDB
          Txs,          \* transaction hashes
          Accounts,     \* account addresses
          NoTx,         \* common.Hash{}, "no transaction"
          Free,         \* an account mutex that nobody holds, or none yet
          NoAccount,    \* "no account requested"
          MaxAttempts   \* how often one hash may be passed to Prepare

ASSUME SentinelAssumption ==
    NoTx \notin Txs /\ Free \notin Workers /\ NoAccount \notin Accounts
ASSUME AttemptsAssumption == MaxAttempts \in Nat \ {0}

VARIABLES
    thash,          \* StateDB.thash of every worker
    lockedAccount,  \* MContext.lockedAccount: last transaction to lock it
    accountLock,    \* MContext.accountLock: who has locked the mutex
    txLockQueue,    \* MContext.txLockQueue
    executedTxs,    \* MContext.executedTxs
    pc,             \* where each worker is
    want,           \* the account whose mutex a worker waits for
    unlocking,      \* local accountLocks of UnLockAccounts, still locked
    granted,        \* history: accounts requestAndLock has returned for
    grantOrder,     \* history: transactions in the order they got an account
    attempts        \* how often each hash was prepared

ctxVars  == <<lockedAccount, accountLock, txLockQueue, executedTxs>>
histVars == <<granted, grantOrder, attempts>>
vars == <<thash, ctxVars, pc, want, unlocking, histVars>>

PCs == {"idle", "running", "waiting", "acquired", "deadlocked", "unlocking"}

Active(w) == pc[w] # "idle"

Last(q) == q[Len(q)]
InQueue(a, q) == \E i \in 1..Len(q) : q[i] = a

(***************************************************************************)
(* NewMStateDB: one MContext with empty maps shared by all the workers.    *)
(***************************************************************************)
Init ==
    /\ thash = [w \in Workers |-> NoTx]
    /\ lockedAccount = [a \in Accounts |-> NoTx]
    /\ accountLock = [a \in Accounts |-> Free]
    /\ txLockQueue = [t \in Txs |-> << >>]
    /\ executedTxs = << >>
    /\ pc = [w \in Workers |-> "idle"]
    /\ want = [w \in Workers |-> NoAccount]
    /\ unlocking = [w \in Workers |-> << >>]
    /\ granted = [w \in Workers |-> {}]
    /\ grantOrder = [a \in Accounts |-> << >>]
    /\ attempts = [t \in Txs |-> 0]

\* The hash can be given to a worker: no worker runs it, it has not been
\* recorded as executed, and the attempts are not used up.
Runnable(t) ==
    /\ attempts[t] < MaxAttempts
    /\ ~InQueue(t, executedTxs)
    /\ \A w \in Workers : Active(w) => thash[w] # t

Prepare(w, t) ==
    /\ pc[w] = "idle"
    /\ Runnable(t)
    /\ thash' = [thash EXCEPT ![w] = t]
    /\ pc' = [pc EXCEPT ![w] = "running"]
    /\ attempts' = [attempts EXCEPT ![t] = @ + 1]
    /\ UNCHANGED <<ctxVars, want, unlocking, granted, grantOrder>>

Grant(w, a) ==
    /\ granted' = [granted EXCEPT ![w] = @ \cup {a}]
    /\ grantOrder' = IF a \in granted[w] THEN grantOrder
                     ELSE [grantOrder EXCEPT ![a] = Append(@, thash[w])]
    /\ UNCHANGED attempts

(***************************************************************************)
(* _checkDeadLock.  Its loop tests tx # lockedAccount[addr], and the first *)
(* pass leaves addr = lockingAddr and tx = lockedAccount[lockingAddr]: the *)
(* test fails there and the body runs at most once: this is that body.     *)
(***************************************************************************)
checkDeadLock(lockingAddr, lockQueue, addr) ==
    /\ lockedAccount[lockingAddr] # lockedAccount[addr]
    /\ InQueue(lockingAddr, lockQueue)

\* Mutants of DeadLockFound: a requester with one account is not checked, and
\* two queues that are long enough already count as a deadlock.
DeadLockFoundLate(w, a) ==
    LET tx1_LQ == txLockQueue[lockedAccount[a]]
        tx2_LQ == txLockQueue[thash[w]]
    IN  /\ Len(tx1_LQ) > 1
        /\ Len(tx2_LQ) > 1
        /\ checkDeadLock(Last(tx1_LQ), tx2_LQ, a)

DeadLockFoundEagerly(w, a) ==
    Len(txLockQueue[lockedAccount[a]]) > 1 /\ Len(txLockQueue[thash[w]]) > 0

\* The condition of requestAndLock's last branch.
DeadLockFound(w, a) ==
    LET tx1_LQ == txLockQueue[lockedAccount[a]]
        tx2_LQ == txLockQueue[thash[w]]
    IN  /\ Len(tx1_LQ) > 1
        /\ Len(tx2_LQ) > 0
        /\ checkDeadLock(Last(tx1_LQ), tx2_LQ, a)

\* Mutant of RequestOwn: the account is queued a second time.
RequestOwnQueues(w, a) ==
    /\ pc[w] = "running"
    /\ lockedAccount[a] = thash[w]
    /\ txLockQueue' = [txLockQueue EXCEPT ![thash[w]] = Append(@, a)]
    /\ Grant(w, a)
    /\ UNCHANGED <<thash, lockedAccount, accountLock, executedTxs, pc, want,
                   unlocking>>

\* requestAndLock, first branch: the account is recorded as this tx's own.
RequestOwn(w, a) ==
    /\ pc[w] = "running"
    /\ lockedAccount[a] = thash[w]
    /\ Grant(w, a)
    /\ UNCHANGED <<thash, ctxVars, pc, want, unlocking>>

\* Second branch: never locked before; a new mutex is created and locked.
RequestFresh(w, a) ==
    /\ pc[w] = "running"
    /\ lockedAccount[a] = NoTx
    /\ lockedAccount' = [lockedAccount EXCEPT ![a] = thash[w]]
    /\ accountLock' = [accountLock EXCEPT ![a] = w]
    /\ txLockQueue' = [txLockQueue EXCEPT ![thash[w]] = Append(@, a)]
    /\ Grant(w, a)
    /\ UNCHANGED <<thash, executedTxs, pc, want, unlocking>>

\* Mutant of RequestContended: requestAndLock returns without the mutex.
RequestContendedReturns(w, a) ==
    /\ pc[w] = "running"
    /\ lockedAccount[a] \notin {thash[w], NoTx}
    /\ ~DeadLockFound(w, a)
    /\ txLockQueue' = [txLockQueue EXCEPT ![thash[w]] = Append(@, a)]
    /\ Grant(w, a)
    /\ UNCHANGED <<thash, lockedAccount, accountLock, executedTxs, pc, want,
                   unlocking>>

\* Third branch, no deadlock: queue up, leave mLock and block on the mutex.
RequestContended(w, a) ==
    /\ pc[w] = "running"
    /\ lockedAccount[a] \notin {thash[w], NoTx}
    /\ ~DeadLockFound(w, a)
    /\ txLockQueue' = [txLockQueue EXCEPT ![thash[w]] = Append(@, a)]
    /\ pc' = [pc EXCEPT ![w] = "waiting"]
    /\ want' = [want EXCEPT ![w] = a]
    /\ UNCHANGED <<thash, lockedAccount, accountLock, executedTxs, unlocking,
                   histVars>>

\* Third branch, deadlock: panic(ErrMStateDBDeadLock), recovered by the caller.
RequestPanics(w, a) ==
    /\ pc[w] = "running"
    /\ lockedAccount[a] \notin {thash[w], NoTx}
    /\ DeadLockFound(w, a)
    /\ pc' = [pc EXCEPT ![w] = "deadlocked"]
    /\ want' = [want EXCEPT ![w] = a]
    /\ UNCHANGED <<thash, ctxVars, unlocking, histVars>>

\* Mutant of AcquireMutex: the worker does not wait.
AcquireMutexAtOnce(w) ==
    /\ pc[w] = "waiting"
    /\ accountLock' = [accountLock EXCEPT ![want[w]] = w]
    /\ pc' = [pc EXCEPT ![w] = "acquired"]
    /\ UNCHANGED <<thash, lockedAccount, txLockQueue, executedTxs, want,
                   unlocking, histVars>>

\* aLock.Lock() returns.
AcquireMutex(w) ==
    /\ pc[w] = "waiting"
    /\ accountLock[want[w]] = Free
    /\ accountLock' = [accountLock EXCEPT ![want[w]] = w]
    /\ pc' = [pc EXCEPT ![w] = "acquired"]
    /\ UNCHANGED <<thash, lockedAccount, txLockQueue, executedTxs, want,
                   unlocking, histVars>>

\* Mutant of RecordOwner: the owner changed meanwhile, so try again (the test
\* that is commented out at lines 203-208).
RecordOwnerRetries(w) ==
    /\ pc[w] = "acquired"
    /\ accountLock' = [accountLock EXCEPT ![want[w]] = Free]
    /\ pc' = [pc EXCEPT ![w] = "waiting"]
    /\ UNCHANGED <<thash, lockedAccount, txLockQueue, executedTxs, want,
                   unlocking, histVars>>

\* mLock is taken again and the new owner recorded.
RecordOwner(w) ==
    /\ pc[w] = "acquired"
    /\ lockedAccount' = [lockedAccount EXCEPT ![want[w]] = thash[w]]
    /\ pc' = [pc EXCEPT ![w] = "running"]
    /\ Grant(w, want[w])
    /\ want' = [want EXCEPT ![w] = NoAccount]
    /\ UNCHANGED <<thash, accountLock, txLockQueue, executedTxs, unlocking>>

\* Mutant of UnLockAccounts: the hash goes to the front of executedTxs.
UnLockAccountsPrepends(w, addTx) ==
    /\ pc[w] \in IF addTx THEN {"running"} ELSE {"running", "deadlocked"}
    /\ executedTxs' = IF addTx THEN <<thash[w]>> \o executedTxs ELSE executedTxs
    /\ unlocking' = [unlocking EXCEPT ![w] = txLockQueue[thash[w]]]
    /\ txLockQueue' = [txLockQueue EXCEPT ![thash[w]] = << >>]
    /\ pc' = [pc EXCEPT ![w] = "unlocking"]
    /\ want' = [want EXCEPT ![w] = NoAccount]
    /\ granted' = [granted EXCEPT ![w] = {}]
    /\ UNCHANGED <<thash, lockedAccount, accountLock, grantOrder, attempts>>

(***************************************************************************)
(* UnLockAccounts(addTx): under mLock the queue of the transaction is      *)
(* collected and deleted and, with addTx, the hash is appended to          *)
(* executedTxs.  lockedAccount keeps naming the transaction.  A worker     *)
(* whose request panicked can only give its transaction up.                *)
(***************************************************************************)
UnLockAccounts(w, addTx) ==
    /\ pc[w] \in IF addTx THEN {"running"} ELSE {"running", "deadlocked"}
    /\ executedTxs' = IF addTx THEN Append(executedTxs, thash[w])
                      ELSE executedTxs
    /\ unlocking' = [unlocking EXCEPT ![w] = txLockQueue[thash[w]]]
    /\ txLockQueue' = [txLockQueue EXCEPT ![thash[w]] = << >>]
    /\ pc' = [pc EXCEPT ![w] = "unlocking"]
    /\ want' = [want EXCEPT ![w] = NoAccount]
    /\ granted' = [granted EXCEPT ![w] = {}]
    /\ UNCHANGED <<thash, lockedAccount, accountLock, grantOrder, attempts>>

\* The loop over accountLocks, outside of mLock.
UnlockNext(w) ==
    /\ pc[w] = "unlocking"
    /\ unlocking[w] # << >>
    /\ accountLock' = [accountLock EXCEPT ![Head(unlocking[w])] = Free]
    /\ unlocking' = [unlocking EXCEPT ![w] = Tail(@)]
    /\ UNCHANGED <<thash, lockedAccount, txLockQueue, executedTxs, pc, want,
                   histVars>>

UnlockDone(w) ==
    /\ pc[w] = "unlocking"
    /\ unlocking[w] = << >>
    /\ pc' = [pc EXCEPT ![w] = "idle"]
    /\ UNCHANGED <<thash, ctxVars, want, unlocking, histVars>>

\* The block is executed: nothing runs and nothing is left to run.
BlockDone ==
    /\ \A w \in Workers : ~Active(w)
    /\ \A t \in Txs : ~Runnable(t)
    /\ UNCHANGED vars

requestAndLock(w, a) ==
    \/ RequestOwn(w, a)
    \/ RequestFresh(w, a)
    \/ RequestContended(w, a)
    \/ RequestPanics(w, a)

Progress(w) == RecordOwner(w) \/ UnlockNext(w) \/ UnlockDone(w)

Next ==
    \/ \E w \in Workers :
         \/ \E t \in Txs : Prepare(w, t)
         \/ \E a \in Accounts : requestAndLock(w, a)
         \/ AcquireMutex(w)
         \/ Progress(w)
         \/ \E addTx \in BOOLEAN : UnLockAccounts(w, addTx)
    \/ BlockDone

Spec == Init /\ [][Next]_vars

(***************************************************************************)
(* Fairness: goroutines are scheduled (weak fairness of their own steps),  *)
(* the caller ends every transaction it began, and sync.Mutex hands a      *)
(* mutex to a starving waiter (strong fairness of AcquireMutex).           *)
(***************************************************************************)
Fairness ==
    \A w \in Workers :
        /\ WF_vars(Progress(w))
        /\ WF_vars(\E addTx \in BOOLEAN : UnLockAccounts(w, addTx))
        /\ SF_vars(AcquireMutex(w))

FairSpec == Spec /\ Fairness
-----------------------------------------------------------------------------
\* Every variable stays in the set the code's types give it, a worker that
\* is not idle has a transaction, and one that waits has an account it wants.
TypeOK ==
    /\ thash \in [Workers -> Txs \cup {NoTx}]
    /\ lockedAccount \in [Accounts -> Txs \cup {NoTx}]
    /\ accountLock \in [Accounts -> Workers \cup {Free}]
    /\ txLockQueue \in [Txs -> Seq(Accounts)]
    /\ executedTxs \in Seq(Txs)
    /\ pc \in [Workers -> PCs]
    /\ want \in [Workers -> Accounts \cup {NoAccount}]
    /\ unlocking \in [Workers -> Seq(Accounts)]
    /\ granted \in [Workers -> SUBSET Accounts]
    /\ grantOrder \in [Accounts -> Seq(Txs)]
    /\ attempts \in [Txs -> Nat]
    /\ \A w \in Workers : Active(w) => thash[w] \in Txs
    /\ \A w \in Workers :
          pc[w] \in {"waiting", "acquired"} => want[w] \in Accounts

\* No two workers have an account at the same time: once requestAndLock
\* (multi_statedb.go:156) has returned for one of them, it does not return
\* for another before the first has called UnLockAccounts.
MutualExclusion ==
    \A v, w \in Workers : v # w => granted[v] \cap granted[w] = {}

\* "this tx holds the account lock, so just return" (multi_statedb.go:162):
\* an account a worker may use is one whose mutex that worker has locked.
GrantedMeansLocked ==
    \A w \in Workers : \A a \in granted[w] : accountLock[a] = w

\* UnLockAccounts only unlocks mutexes its own transaction has locked:
\* unlocking an unlocked sync.Mutex is a fatal error (line 237).
UnlocksOwnMutexes ==
    \A w \in Workers : \A i \in 1..Len(unlocking[w]) :
        /\ accountLock[unlocking[w][i]] = w
        /\ \A j \in 1..Len(unlocking[w]) :
              i # j => unlocking[w][i] # unlocking[w][j]

Blocks(v, w) == pc[w] = "waiting" /\ accountLock[want[w]] = v

\* Two transactions never wait for each other: _checkDeadLock finds the
\* second request of such a pair and panics instead of blocking.
NoMutualWait ==
    \A v, w \in Workers : ~(Blocks(v, w) /\ Blocks(w, v))

\* "check whether deadlock occurs after locking" (line 181), with the example
\* above _checkDeadLock in which three transactions wait for one another: no
\* set of workers is blocked on each other.
NoDeadlock ==
    \A S \in SUBSET Workers :
        S # {} => \E w \in S : \A v \in S : ~Blocks(v, w)

\* requestAndLock panics with ErrMStateDBDeadLock only where blocking would
\* really have closed a cycle: the holder of the account waits for the caller.
PanicIsDeadlock ==
    [][\A w \in Workers :
          (pc[w] = "running" /\ pc'[w] = "deadlocked") =>
             \E v \in Workers : /\ accountLock[want'[w]] = v
                                /\ Blocks(w, v)]_vars

Position(t) == CHOOSE i \in 1..Len(executedTxs) : executedTxs[i] = t

\* "can be executed and verified in order" (line 39): if two executed
\* transactions used one account, executedTxs lists them in the order in
\* which they got it, so a sequential replay sees the same values.
ReplayOrder ==
    \A a \in Accounts : \A i, j \in 1..Len(grantOrder[a]) :
        LET ti == grantOrder[a][i]
            tj == grantOrder[a][j]
        IN  (i < j /\ InQueue(ti, executedTxs) /\ InQueue(tj, executedTxs))
              => Position(ti) < Position(tj)

\* A transaction that blocks on an account gets it: with two workers every
\* deadlock is broken by a panic and every holder unlocks.
WaiterServed ==
    \A w \in Workers : (pc[w] = "waiting") ~> (pc[w] = "running")
-----------------------------------------------------------------------------
(***************************************************************************)
(* AccountLock implements LockService: the holder of an account is the     *)
(* worker it was granted to.                                               *)
(***************************************************************************)
HolderIn(g, a) ==
    IF \E w \in Workers : a \in g[w] THEN CHOOSE w \in Workers : a \in g[w]
    ELSE Free

LS == INSTANCE LockService WITH
    holder <- [a \in Accounts |-> HolderIn(granted, a)]

\* requestAndLock and UnLockAccounts (multi_statedb.go:156, 215) are a lock
\* service for MStateDB: an account is granted only when nobody has it, and
\* comes back only when its worker ends the transaction.
ImplementsLockService == LS!Spec
-----------------------------------------------------------------------------
(***************************************************************************)
(* The inductive invariant behind the safety properties.  It holds when a  *)
(* hash is prepared once (MaxAttempts = 1): lockedAccount is never reset,  *)
(* so a hash that ended must not come back (OwnerHolds).                   *)
(***************************************************************************)
Holding(w) == pc[w] \in {"running", "waiting", "acquired", "deadlocked"}
Queue(w)   == txLockQueue[thash[w]]

\* How many entries of its queue a worker has got and recorded.
HeldLen(w) == IF pc[w] \in {"waiting", "acquired"} THEN Len(Queue(w)) - 1
              ELSE Len(Queue(w))

DistinctTxs ==
    /\ \A w \in Workers :
          Active(w) => thash[w] \in Txs /\ attempts[thash[w]] > 0
    /\ \A v, w \in Workers :
          (v # w /\ Active(v) /\ Active(w)) => thash[v] # thash[w]

UnusedHash ==
    \A t \in Txs : attempts[t] = 0 =>
        txLockQueue[t] = << >> /\ \A a \in Accounts : lockedAccount[a] # t

NeverLocked ==
    \A a \in Accounts : lockedAccount[a] = NoTx => accountLock[a] = Free

QueueHeld ==
    \A w \in Workers : Holding(w) =>
        \A i \in 1..HeldLen(w) : /\ accountLock[Queue(w)[i]] = w
                                 /\ lockedAccount[Queue(w)[i]] = thash[w]

QueueDistinct ==
    \A w \in Workers : Holding(w) =>
        \A i, j \in 1..Len(Queue(w)) : i # j => Queue(w)[i] # Queue(w)[j]

WaitsForLast ==
    \A w \in Workers : pc[w] \in {"waiting", "acquired"} =>
        /\ Len(Queue(w)) > 0
        /\ want[w] = Last(Queue(w))
        /\ lockedAccount[want[w]] # NoTx
        /\ accountLock[want[w]] = w <=> pc[w] = "acquired"

OwnerHolds ==
    \A w \in Workers, a \in Accounts :
        (Holding(w) /\ lockedAccount[a] = thash[w]) => accountLock[a] = w

HolderQueued ==
    \A w \in Workers, a \in Accounts : accountLock[a] = w =>
        \/ Holding(w) /\ InQueue(a, Queue(w))
        \/ pc[w] = "unlocking" /\ InQueue(a, unlocking[w])

QueueOwner ==
    \A t \in Txs : txLockQueue[t] # << >> =>
        \E w \in Workers : Holding(w) /\ thash[w] = t

GrantedWhileHolding ==
    \A w \in Workers : granted[w] # {} => Holding(w)

UnlockingPhase ==
    \A w \in Workers : unlocking[w] # << >> => pc[w] = "unlocking"

\* Who holds which mutex, as recorded by lockedAccount and txLockQueue of
\* MContext (multi_statedb.go:34): the conjunction is inductive.
LockInv ==
    /\ DistinctTxs
    /\ UnusedHash
    /\ NeverLocked
    /\ QueueHeld
    /\ QueueDistinct
    /\ WaitsForLast
    /\ OwnerHolds
    /\ HolderQueued
    /\ QueueOwner
    /\ GrantedWhileHolding
    /\ GrantedMeansLocked
    /\ UnlocksOwnMutexes
    /\ UnlockingPhase
=============================================================================
