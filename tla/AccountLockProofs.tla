------------------------- MODULE AccountLockProofs -------------------------
(***************************************************************************)
(* Proofs about AccountLock, for any number of workers, transactions and   *)
(* accounts.                                                               *)
(***************************************************************************)
EXTENDS AccountLock, TLAPS

\* A transaction hash is prepared at most once per MContext.
NoRetry == MaxAttempts = 1

\* Type correctness of MContext and of the workers' positions.
THEOREM TypeCorrect == Spec => []TypeOK
<1>1. Init => TypeOK
  BY DEF Init, TypeOK, PCs, Active
<1>2. TypeOK /\ [Next]_vars => TypeOK'
  <2> SUFFICES ASSUME TypeOK, [Next]_vars PROVE TypeOK'
    OBVIOUS
  <2> USE DEF TypeOK, PCs, Active, ctxVars, histVars
  <2>1. ASSUME NEW w \in Workers, NEW t \in Txs, Prepare(w, t) PROVE TypeOK'
    BY <2>1 DEF Prepare
  <2>2. ASSUME NEW w \in Workers, NEW a \in Accounts, RequestOwn(w, a)
        PROVE  TypeOK'
    BY <2>2, SentinelAssumption DEF RequestOwn, Grant
  <2>3. ASSUME NEW w \in Workers, NEW a \in Accounts, RequestFresh(w, a)
        PROVE  TypeOK'
    BY <2>3 DEF RequestFresh, Grant
  <2>4. ASSUME NEW w \in Workers, NEW a \in Accounts, RequestContended(w, a)
        PROVE  TypeOK'
    BY <2>4 DEF RequestContended
  <2>5. ASSUME NEW w \in Workers, NEW a \in Accounts, RequestPanics(w, a)
        PROVE  TypeOK'
    BY <2>5 DEF RequestPanics
  <2>6. ASSUME NEW w \in Workers, AcquireMutex(w) PROVE TypeOK'
    BY <2>6 DEF AcquireMutex
  <2>7. ASSUME NEW w \in Workers, RecordOwner(w) PROVE TypeOK'
    BY <2>7 DEF RecordOwner, Grant
  <2>8. ASSUME NEW w \in Workers, NEW addTx \in BOOLEAN, UnLockAccounts(w, addTx)
        PROVE  TypeOK'
    BY <2>8 DEF UnLockAccounts
  <2>9. ASSUME NEW w \in Workers, UnlockNext(w) PROVE TypeOK'
    BY <2>9 DEF UnlockNext
  <2>10. ASSUME NEW w \in Workers, UnlockDone(w) PROVE TypeOK'
    BY <2>10 DEF UnlockDone
  <2>11. CASE UNCHANGED vars
    BY <2>11 DEF vars
  <2>12. QED
    BY <2>1, <2>2, <2>3, <2>4, <2>5, <2>6, <2>7, <2>8, <2>9, <2>10, <2>11
    DEF Next, requestAndLock, Progress, BlockDone
<1>3. QED
  BY <1>1, <1>2, PTL DEF Spec

\* Appending an account to a lock queue (requestAndLock) adds that account.
LEMMA InAppend ==
    ASSUME NEW S, NEW q \in Seq(S), NEW x \in S, NEW y
    PROVE  InQueue(y, Append(q, x)) <=> (InQueue(y, q) \/ y = x)
<1>1. Len(Append(q, x)) = Len(q) + 1 /\ Append(q, x)[Len(q) + 1] = x
  OBVIOUS
<1>2. \A i \in 1..Len(q) : Append(q, x)[i] = q[i]
  OBVIOUS
<1>3. Len(q) \in Nat
  OBVIOUS
<1>4. ASSUME InQueue(y, Append(q, x)), y # x PROVE InQueue(y, q)
  BY <1>1, <1>2, <1>3, <1>4 DEF InQueue
<1>5. ASSUME InQueue(y, q) PROVE InQueue(y, Append(q, x))
  BY <1>1, <1>2, <1>3, <1>5 DEF InQueue
<1>6. ASSUME y = x PROVE InQueue(y, Append(q, x))
  BY <1>1, <1>3, <1>6 DEF InQueue
<1>7. QED
  BY <1>4, <1>5, <1>6

\* Unlocking the head of the collected mutexes leaves the others to unlock.
LEMMA InTail ==
    ASSUME NEW S, NEW q \in Seq(S), q # << >>, NEW y
    PROVE  InQueue(y, q) <=> (InQueue(y, Tail(q)) \/ y = Head(q))
<1>1. Len(Tail(q)) = Len(q) - 1 /\ Len(q) > 0 /\ Len(q) \in Nat /\ Head(q) = q[1]
  OBVIOUS
<1>2. \A i \in 1..Len(q) - 1 : Tail(q)[i] = q[i + 1]
  OBVIOUS
<1>3. ASSUME InQueue(y, q), y # Head(q) PROVE InQueue(y, Tail(q))
  <2>1. PICK i \in 1..Len(q) : q[i] = y
    BY <1>3 DEF InQueue
  <2>2. i # 1 /\ i - 1 \in 1..Len(Tail(q))
    BY <2>1, <1>1, <1>3
  <2>3. Tail(q)[i - 1] = y
    BY <2>1, <2>2, <1>1, <1>2
  <2>4. QED
    BY <2>2, <2>3 DEF InQueue
<1>4. ASSUME InQueue(y, Tail(q)) PROVE InQueue(y, q)
  <2>1. PICK i \in 1..Len(Tail(q)) : Tail(q)[i] = y
    BY <1>4 DEF InQueue
  <2>2. i + 1 \in 1..Len(q) /\ q[i + 1] = y
    BY <2>1, <1>1, <1>2
  <2>3. QED
    BY <2>2 DEF InQueue
<1>5. ASSUME y = Head(q) PROVE InQueue(y, q)
  BY <1>1, <1>5 DEF InQueue
<1>6. QED
  BY <1>3, <1>4, <1>5

\* A queue without duplicates stays so when a new account is appended.
LEMMA DistinctAppend ==
    ASSUME NEW S, NEW q \in Seq(S), NEW x \in S,
           \A i, j \in 1..Len(q) : i # j => q[i] # q[j],
           \A i \in 1..Len(q) : q[i] # x,
           NEW r, r = Append(q, x)
    PROVE  \A i, j \in 1..Len(r) : i # j => r[i] # r[j]
<1>1. Len(q) \in Nat /\ Len(r) = Len(q) + 1 /\ r[Len(q) + 1] = x
  OBVIOUS
<1>2. \A i \in 1..Len(q) : r[i] = q[i]
  OBVIOUS
<1>3. \A i \in 1..Len(r) : i \in 1..Len(q) \/ i = Len(q) + 1
  BY <1>1
<1>4. QED
  BY <1>1, <1>2, <1>3

(***************************************************************************)
(* Every step of every worker preserves LockInv.  LockInv ties the three   *)
(* maps of MContext together: the recorded part of a transaction's queue   *)
(* is what its worker has locked (QueueHeld, OwnerHolds), everything it    *)
(* has locked is in the queue or being unlocked (HolderQueued), and it     *)
(* waits at most for the last entry (WaitsForLast).                        *)
(***************************************************************************)
LEMMA LockStep == NoRetry /\ TypeOK /\ LockInv /\ [Next]_vars => LockInv'
<1> SUFFICES ASSUME NoRetry, TypeOK, LockInv, [Next]_vars PROVE LockInv'
  OBVIOUS
<1> USE DEF TypeOK, PCs, LockInv, ctxVars, histVars, Active, Holding
<1>1. ASSUME NEW w \in Workers, NEW t \in Txs, Prepare(w, t) PROVE LockInv'
  <2> USE <1>1 DEF Prepare
  <2>1. /\ attempts[t] = 0 /\ txLockQueue[t] = << >>
        /\ \A a \in Accounts : lockedAccount[a] # t
        /\ \A v \in Workers : Active(v) => thash[v] # t
    BY AttemptsAssumption DEF NoRetry, Runnable, UnusedHash
  <2>2. Queue(w)' = << >> /\ HeldLen(w)' = 0
    BY <2>1 DEF Queue, HeldLen
  <2>3. \A v \in Workers \ {w} : Queue(v)' = Queue(v) /\ HeldLen(v)' = HeldLen(v)
    BY DEF Queue, HeldLen
  <2>4. DistinctTxs' /\ UnusedHash'
    BY <2>1 DEF DistinctTxs, UnusedHash
  <2>5. QueueHeld'
    BY <2>2, <2>3 DEF QueueHeld
  <2>6. QueueDistinct'
    <3>1. ASSUME NEW v \in Workers, Holding(v)'
          PROVE  \A i, j \in 1..Len(Queue(v)') :
                    i # j => Queue(v)'[i] # Queue(v)'[j]
      <4>1. CASE v = w
        <5>1. 1..Len(Queue(w)') = {}
          BY <2>2
        <5>2. QED
          BY <4>1, <5>1
      <4>2. CASE v # w
        <5>1. Holding(v) /\ Queue(v)' = Queue(v)
          BY <3>1, <4>2, <2>3
        <5>2. QED
          BY <5>1 DEF QueueDistinct
      <4>3. QED
        BY <4>1, <4>2
    <3>2. QED
      BY <3>1, Zenon DEF QueueDistinct
  <2>7. WaitsForLast'
    BY <2>2, <2>3 DEF WaitsForLast
  <2>8. OwnerHolds'
    BY <2>1 DEF OwnerHolds
  <2>9. HolderQueued'
    BY <2>3, SentinelAssumption DEF HolderQueued
  <2>10. QueueOwner'
    BY <2>1 DEF QueueOwner
  <2>11. NeverLocked' /\ GrantedWhileHolding' /\ GrantedMeansLocked'
    BY DEF NeverLocked, GrantedWhileHolding, GrantedMeansLocked
  <2>12. UnlocksOwnMutexes' /\ UnlockingPhase'
    BY DEF UnlocksOwnMutexes, UnlockingPhase
  <2>13. QED
    BY <2>4, <2>5, <2>6, <2>7, <2>8, <2>9, <2>10, <2>11, <2>12
<1>2. ASSUME NEW w \in Workers, NEW a \in Accounts, RequestOwn(w, a)
      PROVE  LockInv'
  <2> USE <1>2 DEF RequestOwn, Grant
  <2>1. GrantedWhileHolding' /\ GrantedMeansLocked'
    BY DEF GrantedWhileHolding, GrantedMeansLocked, OwnerHolds
  <2>2. \A v \in Workers : Queue(v)' = Queue(v) /\ HeldLen(v)' = HeldLen(v)
    BY DEF Queue, HeldLen
  <2>3. DistinctTxs' /\ UnusedHash' /\ NeverLocked' /\ OwnerHolds' /\ QueueOwner'
    BY DEF DistinctTxs, UnusedHash, NeverLocked, OwnerHolds, QueueOwner
  <2>4. QueueHeld' /\ QueueDistinct' /\ WaitsForLast' /\ HolderQueued'
    BY <2>2 DEF QueueHeld, QueueDistinct, WaitsForLast, HolderQueued
  <2>5. UnlocksOwnMutexes' /\ UnlockingPhase'
    BY DEF UnlocksOwnMutexes, UnlockingPhase
  <2>6. QED
    BY <2>1, <2>3, <2>4, <2>5
<1>3. ASSUME NEW w \in Workers, NEW a \in Accounts, RequestFresh(w, a)
      PROVE  LockInv'
  <2> USE <1>3 DEF RequestFresh, Grant
  <2>1. /\ thash[w] \in Txs /\ attempts[thash[w]] > 0
        /\ \A v \in Workers \ {w} : Active(v) => thash[v] # thash[w]
    BY DEF DistinctTxs
  <2>2. accountLock[a] = Free
    BY DEF NeverLocked
  <2>3. /\ Queue(w) \in Seq(Accounts) /\ Queue(w)' = Append(Queue(w), a)
        /\ HeldLen(w) = Len(Queue(w)) /\ HeldLen(w)' = Len(Queue(w)) + 1
    BY <2>1 DEF Queue, HeldLen
  <2>4. \A v \in Workers \ {w} : Active(v) =>
            Queue(v)' = Queue(v) /\ HeldLen(v)' = HeldLen(v)
    BY <2>1 DEF Queue, HeldLen
  <2>5. \A v \in Workers : Holding(v) =>
            \A i \in 1..HeldLen(v) : Queue(v)[i] # a
    BY <2>2, SentinelAssumption DEF QueueHeld
  <2>6. DistinctTxs' /\ UnusedHash' /\ NeverLocked'
    BY <2>1, SentinelAssumption DEF DistinctTxs, UnusedHash, NeverLocked
  <2>7. QueueHeld'
    <3>1. ASSUME NEW i \in 1..HeldLen(w)'
          PROVE  accountLock'[Queue(w)'[i]] = w /\ lockedAccount'[Queue(w)'[i]] = thash[w]
      <4>1. CASE i = Len(Queue(w)) + 1
        BY <4>1, <2>3
      <4>2. CASE i \in 1..Len(Queue(w))
        <5>1. Queue(w)'[i] = Queue(w)[i] /\ Queue(w)[i] \in Accounts
          BY <4>2, <2>3
        <5>2. /\ accountLock[Queue(w)[i]] = w
              /\ lockedAccount[Queue(w)[i]] = thash[w]
          BY <4>2, <2>3 DEF QueueHeld
        <5>3. QED
          BY <5>1, <5>2
      <4>3. QED
        BY <4>1, <4>2, <2>3
    <3>2. ASSUME NEW v \in Workers \ {w}, Holding(v), NEW i \in 1..HeldLen(v)
          PROVE  /\ accountLock'[Queue(v)[i]] = v
                 /\ lockedAccount'[Queue(v)[i]] = thash[v]
      <4>1. accountLock[Queue(v)[i]] = v /\ lockedAccount[Queue(v)[i]] = thash[v]
        BY <3>2 DEF QueueHeld
      <4>2. Queue(v)[i] \in Accounts
        BY <3>2 DEF Queue, HeldLen
      <4>3. QED
        BY <4>1, <4>2, <3>2, <2>5
    <3>3. ASSUME NEW v \in Workers, Holding(v)', NEW i \in 1..HeldLen(v)'
          PROVE  (/\ accountLock[Queue(v)[i]] = v
                  /\ lockedAccount[Queue(v)[i]] = thash[v])'
      <4>1. CASE v = w
        BY <4>1, <3>1
      <4>2. CASE v # w
        BY <4>2, <3>2, <3>3, <2>4
      <4>3. QED
        BY <4>1, <4>2
    <3>4. QED
      BY <3>3 DEF QueueHeld
  <2>8. QueueDistinct'
    <3>1. \A i, j \in 1..Len(Queue(w)') : i # j => Queue(w)'[i] # Queue(w)'[j]
      <4>1. \A i, j \in 1..Len(Queue(w)) : i # j => Queue(w)[i] # Queue(w)[j]
        BY DEF QueueDistinct
      <4>2. \A i \in 1..Len(Queue(w)) : Queue(w)[i] # a
        BY <2>3, <2>5
      <4>3. Queue(w) \in Seq(Accounts) /\ Queue(w)' = Append(Queue(w), a)
        BY <2>3
      <4>4. QED
        BY <4>1, <4>2, <4>3, DistinctAppend
    <3>2. \A v \in Workers \ {w} : Holding(v) =>
             \A i, j \in 1..Len(Queue(v)') : i # j => Queue(v)'[i] # Queue(v)'[j]
      BY <2>4 DEF QueueDistinct
    <3>3. QED
      BY <3>1, <3>2 DEF QueueDistinct
  <2>9. WaitsForLast'
    <3>1. \A v \in Workers : pc[v] \in {"waiting", "acquired"} => want[v] # a
      BY DEF WaitsForLast
    <3>2. ASSUME NEW v \in Workers, pc'[v] \in {"waiting", "acquired"}
          PROVE  /\ Queue(v)' = Queue(v) /\ want'[v] = want[v]
                 /\ accountLock'[want[v]] = accountLock[want[v]]
                 /\ lockedAccount'[want[v]] = lockedAccount[want[v]]
      BY <3>1, <3>2, <2>4
    <3>3. QED
      BY <3>2 DEF WaitsForLast
  <2>10. OwnerHolds'
    BY <2>1, <2>2, SentinelAssumption DEF OwnerHolds
  <2>11. HolderQueued'
    <3>1. \A b \in Accounts : InQueue(b, Queue(w)') <=> (InQueue(b, Queue(w)) \/ b = a)
      BY <2>3, InAppend
    <3>2. \A b \in Accounts : accountLock'[b] = w => InQueue(b, Queue(w)')
      BY <3>1 DEF HolderQueued
    <3>3. QED
      BY <3>2, <2>4 DEF HolderQueued
  <2>12. QueueOwner'
    BY <2>1 DEF QueueOwner
  <2>13. GrantedWhileHolding' /\ GrantedMeansLocked'
    BY <2>2, SentinelAssumption DEF GrantedWhileHolding, GrantedMeansLocked
  <2>14. UnlocksOwnMutexes'
    <3>1. \A v \in Workers : \A i \in 1..Len(unlocking[v]) : unlocking[v][i] # a
      BY <2>2, SentinelAssumption DEF UnlocksOwnMutexes
    <3>2. QED
      BY <3>1 DEF UnlocksOwnMutexes
  <2>15. UnlockingPhase'
    BY DEF UnlockingPhase
  <2>16. QED
    BY <2>6, <2>7, <2>8, <2>9, <2>10, <2>11, <2>12, <2>13, <2>14, <2>15
<1>4. ASSUME NEW w \in Workers, NEW a \in Accounts, RequestContended(w, a)
      PROVE  LockInv'
  <2> USE <1>4 DEF RequestContended
  <2>1. /\ thash[w] \in Txs /\ attempts[thash[w]] > 0
        /\ \A v \in Workers \ {w} : Active(v) => thash[v] # thash[w]
    BY DEF DistinctTxs
  <2>2. /\ Queue(w) \in Seq(Accounts) /\ Queue(w)' = Append(Queue(w), a)
        /\ HeldLen(w) = Len(Queue(w)) /\ HeldLen(w)' = Len(Queue(w))
    BY <2>1 DEF Queue, HeldLen
  <2>3. \A v \in Workers \ {w} : Active(v) =>
            Queue(v)' = Queue(v) /\ HeldLen(v)' = HeldLen(v)
    BY <2>1 DEF Queue, HeldLen
  <2>4. \A i \in 1..Len(Queue(w)) : Queue(w)[i] # a
    <3>1. \A i \in 1..Len(Queue(w)) : lockedAccount[Queue(w)[i]] = thash[w]
      BY <2>2 DEF QueueHeld
    <3>2. QED
      BY <3>1
  <2>5. accountLock[a] # w
    BY <2>2, <2>4 DEF HolderQueued, InQueue
  <2>6. DistinctTxs' /\ UnusedHash' /\ NeverLocked' /\ OwnerHolds'
    BY <2>1 DEF DistinctTxs, UnusedHash, NeverLocked, OwnerHolds
  <2>7. QueueHeld'
    <3>1. \A i \in 1..Len(Queue(w)) : Queue(w)'[i] = Queue(w)[i]
      BY <2>2
    <3>2. ASSUME NEW v \in Workers, Holding(v)', NEW i \in 1..HeldLen(v)'
          PROVE  (/\ accountLock[Queue(v)[i]] = v
                  /\ lockedAccount[Queue(v)[i]] = thash[v])'
      <4>1. CASE v = w
        <5>1. i \in 1..Len(Queue(w)) /\ i \in 1..HeldLen(w)
          BY <4>1, <3>2, <2>2
        <5>2. /\ accountLock[Queue(w)[i]] = w
              /\ lockedAccount[Queue(w)[i]] = thash[w]
          BY <5>1 DEF QueueHeld
        <5>3. QED
          BY <4>1, <5>1, <5>2, <3>1
      <4>2. CASE v # w
        BY <4>2, <3>2, <2>3, SMTT(60) DEF QueueHeld
      <4>3. QED
        BY <4>1, <4>2
    <3>3. QED
      BY <3>2 DEF QueueHeld
  <2>8. QueueDistinct'
    <3>1. \A i, j \in 1..Len(Queue(w)') : i # j => Queue(w)'[i] # Queue(w)'[j]
      <4>1. \A i, j \in 1..Len(Queue(w)) : i # j => Queue(w)[i] # Queue(w)[j]
        BY DEF QueueDistinct
      <4>2. QED
        BY <4>1, <2>2, <2>4, DistinctAppend, SMTT(60)
    <3>2. ASSUME NEW v \in Workers \ {w}, Holding(v)
          PROVE  \A i, j \in 1..Len(Queue(v)') : i # j => Queue(v)'[i] # Queue(v)'[j]
      <4>1. Queue(v)' = Queue(v)
        BY <3>2, <2>3
      <4>2. QED
        BY <4>1, <3>2 DEF QueueDistinct
    <3>3. QED
      BY <3>1, <3>2 DEF QueueDistinct
  <2>9. WaitsForLast'
    <3>1. Len(Queue(w)') > 0 /\ Last(Queue(w)') = a
      BY <2>2 DEF Last
    <3>2. \A v \in Workers \ {w} : pc'[v] = pc[v] /\ want'[v] = want[v]
      OBVIOUS
    <3>3. ASSUME NEW v \in Workers \ {w}, pc[v] \in {"waiting", "acquired"}
          PROVE  /\ Len(Queue(v)') > 0
                 /\ want'[v] = Last(Queue(v)')
                 /\ lockedAccount[want'[v]] # NoTx
                 /\ accountLock[want'[v]] = v <=> pc'[v] = "acquired"
      <4>1. Queue(v)' = Queue(v)
        BY <3>3, <2>3
      <4>2. QED
        BY <4>1, <3>2, <3>3 DEF WaitsForLast
    <3>4. want'[w] = a /\ pc'[w] = "waiting"
      OBVIOUS
    <3>5. QED
      BY <3>1, <3>2, <3>3, <3>4, <2>5 DEF WaitsForLast
  <2>10. HolderQueued'
    <3>1. \A b \in Accounts : InQueue(b, Queue(w)) => InQueue(b, Queue(w)')
      BY <2>2, InAppend
    <3>2. QED
      BY <3>1, <2>3 DEF HolderQueued
  <2>11. QueueOwner'
    BY <2>1 DEF QueueOwner
  <2>12. GrantedWhileHolding' /\ GrantedMeansLocked'
    BY DEF GrantedWhileHolding, GrantedMeansLocked
  <2>13. UnlocksOwnMutexes' /\ UnlockingPhase'
    BY DEF UnlocksOwnMutexes, UnlockingPhase
  <2>14. QED
    BY <2>6, <2>7, <2>8, <2>9, <2>10, <2>11, <2>12, <2>13
<1>5. ASSUME NEW w \in Workers, NEW a \in Accounts, RequestPanics(w, a)
      PROVE  LockInv'
  <2> USE <1>5 DEF RequestPanics
  <2>1. \A v \in Workers : Queue(v)' = Queue(v) /\ HeldLen(v)' = HeldLen(v)
    BY DEF Queue, HeldLen
  <2>2. \A v \in Workers : Holding(v)' <=> Holding(v)
    OBVIOUS
  <2>3. DistinctTxs' /\ UnusedHash' /\ NeverLocked' /\ OwnerHolds'
    BY DEF DistinctTxs, UnusedHash, NeverLocked, OwnerHolds
  <2>4. QueueHeld' /\ QueueDistinct'
    <3>1. thash' = thash /\ accountLock' = accountLock
          /\ lockedAccount' = lockedAccount
      OBVIOUS
    <3>2. QueueHeld'
      BY <2>1, <2>2, <3>1 DEF QueueHeld
    <3>3. QueueDistinct'
      BY <2>1, <2>2 DEF QueueDistinct
    <3>4. QED
      BY <3>2, <3>3
  <2>5. WaitsForLast'
    BY <2>1 DEF WaitsForLast
  <2>6. HolderQueued' /\ QueueOwner'
    BY <2>1 DEF HolderQueued, QueueOwner
  <2>7. GrantedWhileHolding' /\ GrantedMeansLocked'
    BY DEF GrantedWhileHolding, GrantedMeansLocked
  <2>8. UnlocksOwnMutexes' /\ UnlockingPhase'
    BY DEF UnlocksOwnMutexes, UnlockingPhase
  <2>9. QED
    BY <2>3, <2>4, <2>5, <2>6, <2>7, <2>8
<1>6. ASSUME NEW w \in Workers, AcquireMutex(w) PROVE LockInv'
  <2> USE <1>6 DEF AcquireMutex
  <2>1. \A v \in Workers : Queue(v)' = Queue(v) /\ HeldLen(v)' = HeldLen(v)
    BY DEF Queue, HeldLen
  <2>2. \A v \in Workers : Holding(v)' <=> Holding(v)
    OBVIOUS
  <2>3. DistinctTxs' /\ UnusedHash' /\ QueueOwner'
    BY DEF DistinctTxs, UnusedHash, QueueOwner
  <2>4. NeverLocked' /\ OwnerHolds'
    BY SentinelAssumption DEF NeverLocked, OwnerHolds, WaitsForLast
  <2>5. QueueHeld'
    <3>1. \A v \in Workers : Holding(v) =>
             \A i \in 1..HeldLen(v) :
                accountLock'[Queue(v)[i]] = accountLock[Queue(v)[i]]
      <4>1. \A v \in Workers : Holding(v) =>
               \A i \in 1..HeldLen(v) : accountLock[Queue(v)[i]] = v
        BY DEF QueueHeld
      <4>2. QED
        BY <4>1, SentinelAssumption
    <3>2. QED
      BY <3>1, <2>1, <2>2 DEF QueueHeld
  <2>6. QueueDistinct'
    BY <2>1, <2>2 DEF QueueDistinct
  <2>7. WaitsForLast'
    BY <2>1, SentinelAssumption DEF WaitsForLast
  <2>8. HolderQueued'
    <3>1. InQueue(want[w], Queue(w))
      <4>1. Len(Queue(w)) > 0 /\ want[w] = Queue(w)[Len(Queue(w))]
        BY DEF WaitsForLast, Last
      <4>2. Len(Queue(w)) \in Nat
        BY DEF Queue
      <4>3. QED
        BY <4>1, <4>2 DEF InQueue
    <3>2. QED
      BY <3>1, <2>1, SentinelAssumption DEF HolderQueued
  <2>9. GrantedWhileHolding' /\ GrantedMeansLocked'
    BY SentinelAssumption DEF GrantedWhileHolding, GrantedMeansLocked
  <2>10. UnlocksOwnMutexes'
    <3>1. \A v \in Workers : \A i \in 1..Len(unlocking[v]) :
             accountLock'[unlocking[v][i]] = accountLock[unlocking[v][i]]
      BY SentinelAssumption DEF UnlocksOwnMutexes
    <3>2. QED
      BY <3>1 DEF UnlocksOwnMutexes
  <2>11. UnlockingPhase'
    BY DEF UnlockingPhase
  <2>12. QED
    BY <2>3, <2>4, <2>5, <2>6, <2>7, <2>8, <2>9, <2>10, <2>11
<1>7. ASSUME NEW w \in Workers, RecordOwner(w) PROVE LockInv'
  <2> USE <1>7 DEF RecordOwner, Grant
  <2>1. /\ thash[w] \in Txs /\ attempts[thash[w]] > 0
        /\ \A v \in Workers \ {w} : Active(v) => thash[v] # thash[w]
    BY DEF DistinctTxs
  <2>2. /\ want[w] \in Accounts /\ accountLock[want[w]] = w
        /\ Len(Queue(w)) > 0 /\ want[w] = Queue(w)[Len(Queue(w))]
    BY DEF WaitsForLast, Last
  <2>3. /\ Queue(w) \in Seq(Accounts) /\ Queue(w)' = Queue(w)
        /\ HeldLen(w) = Len(Queue(w)) - 1 /\ HeldLen(w)' = Len(Queue(w))
    BY <2>1 DEF Queue, HeldLen
  <2>4. \A v \in Workers \ {w} : Queue(v)' = Queue(v) /\ HeldLen(v)' = HeldLen(v)
    BY DEF Queue, HeldLen
  <2>5. \A v \in Workers : Holding(v)' <=> Holding(v)
    OBVIOUS
  <2>6. DistinctTxs' /\ UnusedHash' /\ NeverLocked'
    BY <2>1, SentinelAssumption DEF DistinctTxs, UnusedHash, NeverLocked
  <2>7. QueueHeld'
    <3>1. ASSUME NEW i \in 1..Len(Queue(w))
          PROVE  /\ accountLock[Queue(w)[i]] = w
                 /\ lockedAccount'[Queue(w)[i]] = thash[w]
      <4>1. CASE i = Len(Queue(w))
        BY <4>1, <2>2
      <4>2. CASE i \in 1..HeldLen(w)
        <5>1. /\ accountLock[Queue(w)[i]] = w
              /\ lockedAccount[Queue(w)[i]] = thash[w]
          BY <4>2 DEF QueueHeld
        <5>2. Queue(w)[i] \in Accounts
          BY <2>3
        <5>3. QED
          BY <5>1, <5>2
      <4>3. QED
        BY <4>1, <4>2, <2>3
    <3>2. ASSUME NEW v \in Workers \ {w}, Holding(v), NEW i \in 1..HeldLen(v)
          PROVE  /\ accountLock[Queue(v)[i]] = v
                 /\ lockedAccount'[Queue(v)[i]] = thash[v]
      <4>1. /\ accountLock[Queue(v)[i]] = v
            /\ lockedAccount[Queue(v)[i]] = thash[v]
        BY <3>2 DEF QueueHeld
      <4>2. Queue(v)[i] # want[w]
        BY <4>1, <2>2
      <4>3. QED
        BY <4>1, <4>2
    <3>3. QED
      BY <3>1, <3>2, <2>3, <2>4, <2>5 DEF QueueHeld
  <2>8. QueueDistinct'
    BY <2>3, <2>4, <2>5 DEF QueueDistinct
  <2>9. WaitsForLast'
    <3>1. ASSUME NEW v \in Workers, pc'[v] \in {"waiting", "acquired"}
          PROVE  /\ v # w /\ pc'[v] = pc[v] /\ want'[v] = want[v]
                 /\ Queue(v)' = Queue(v)
                 /\ lockedAccount[want[v]] # NoTx => lockedAccount'[want[v]] # NoTx
      BY <3>1, <2>1, <2>4, SentinelAssumption
    <3>2. QED
      BY <3>1 DEF WaitsForLast
  <2>10. OwnerHolds'
    BY <2>1, <2>2 DEF OwnerHolds
  <2>11. HolderQueued'
    <3>1. \A v \in Workers :
             /\ Queue(v)' = Queue(v)
             /\ unlocking'[v] = unlocking[v]
             /\ pc'[v] = "unlocking" <=> pc[v] = "unlocking"
      BY <2>3, <2>4
    <3>2. QED
      BY <3>1, <2>5 DEF HolderQueued
  <2>12. QueueOwner'
    BY <2>5 DEF QueueOwner
  <2>13. GrantedWhileHolding' /\ GrantedMeansLocked'
    BY <2>2 DEF GrantedWhileHolding, GrantedMeansLocked
  <2>14. UnlocksOwnMutexes' /\ UnlockingPhase'
    BY DEF UnlocksOwnMutexes, UnlockingPhase
  <2>15. QED
    BY <2>6, <2>7, <2>8, <2>9, <2>10, <2>11, <2>12, <2>13, <2>14
<1>8. ASSUME NEW w \in Workers, NEW addTx \in BOOLEAN, UnLockAccounts(w, addTx)
      PROVE  LockInv'
  <2> USE <1>8 DEF UnLockAccounts
  <2>1. /\ Holding(w) /\ pc'[w] = "unlocking" /\ thash[w] \in Txs
        /\ \A v \in Workers \ {w} : Active(v) => thash[v] # thash[w]
    BY DEF DistinctTxs
  <2>2. unlocking'[w] = Queue(w) /\ HeldLen(w) = Len(Queue(w))
    BY DEF Queue, HeldLen
  <2>3. \A v \in Workers \ {w} : Active(v) =>
            Queue(v)' = Queue(v) /\ HeldLen(v)' = HeldLen(v)
    BY <2>1 DEF Queue, HeldLen
  <2>4. \A v \in Workers : Holding(v)' <=> Holding(v) /\ v # w
    BY <2>1
  <2>5. DistinctTxs' /\ UnusedHash' /\ NeverLocked' /\ OwnerHolds'
    BY DEF DistinctTxs, UnusedHash, NeverLocked, OwnerHolds
  <2>6. QueueHeld' /\ QueueDistinct'
    <3>1. \A v \in Workers : Holding(v)' =>
             /\ Holding(v) /\ Queue(v)' = Queue(v) /\ HeldLen(v)' = HeldLen(v)
      BY <2>3, <2>4
    <3>2. QueueHeld'
      BY <3>1 DEF QueueHeld
    <3>3. QueueDistinct'
      BY <3>1 DEF QueueDistinct
    <3>4. QED
      BY <3>2, <3>3
  <2>7. WaitsForLast'
    <3>1. ASSUME NEW v \in Workers, pc'[v] \in {"waiting", "acquired"}
          PROVE  /\ pc'[v] = pc[v] /\ want'[v] = want[v]
                 /\ Queue(v)' = Queue(v)
      BY <3>1, <2>3
    <3>2. QED
      BY <3>1 DEF WaitsForLast
  <2>8. HolderQueued'
    <3>1. ASSUME NEW b \in Accounts, accountLock[b] = w
          PROVE  InQueue(b, unlocking'[w])
      BY <3>1, <2>1, <2>2 DEF HolderQueued
    <3>2. \A v \in Workers \ {w} :
             /\ pc'[v] = pc[v] /\ unlocking'[v] = unlocking[v]
             /\ Active(v) => Queue(v)' = Queue(v)
      BY <2>3
    <3>3. ASSUME NEW v \in Workers \ {w}, NEW b \in Accounts, accountLock[b] = v
          PROVE  \/ Holding(v) /\ InQueue(b, Queue(v)')
                 \/ pc[v] = "unlocking" /\ InQueue(b, unlocking[v])
      <4>1. \/ Holding(v) /\ InQueue(b, Queue(v))
            \/ pc[v] = "unlocking" /\ InQueue(b, unlocking[v])
        BY <3>3 DEF HolderQueued
      <4>2. Holding(v) => Queue(v)' = Queue(v)
        BY <3>2 DEF Active
      <4>3. QED
        BY <4>1, <4>2
    <3>4. QED
      BY <3>1, <3>2, <3>3, <2>1 DEF HolderQueued
  <2>9. QueueOwner'
    BY <2>1 DEF QueueOwner
  <2>10. GrantedWhileHolding' /\ GrantedMeansLocked'
    BY <2>1 DEF GrantedWhileHolding, GrantedMeansLocked
  <2>11. UnlocksOwnMutexes'
    <3>1. \A i, j \in 1..Len(Queue(w)) : i # j => Queue(w)[i] # Queue(w)[j]
      BY <2>1 DEF QueueDistinct
    <3>2. \A i \in 1..Len(Queue(w)) : accountLock[Queue(w)[i]] = w
      BY <2>1, <2>2 DEF QueueHeld
    <3>3. QED
      BY <3>1, <3>2, <2>2 DEF UnlocksOwnMutexes
  <2>12. UnlockingPhase'
    BY <2>1 DEF UnlockingPhase
  <2>13. QED
    BY <2>5, <2>6, <2>7, <2>8, <2>9, <2>10, <2>11, <2>12
<1>9. ASSUME NEW w \in Workers, UnlockNext(w) PROVE LockInv'
  <2> DEFINE h == Head(unlocking[w])
  <2> USE <1>9 DEF UnlockNext
  <2>1. /\ unlocking[w] \in Seq(Accounts) /\ h \in Accounts
        /\ Len(unlocking[w]) \in Nat \ {0} /\ h = unlocking[w][1]
    OBVIOUS
  <2>2. accountLock[h] = w /\ accountLock' = [accountLock EXCEPT ![h] = Free]
    BY <2>1 DEF UnlocksOwnMutexes
  <2> HIDE DEF h
  <2>3. \A v \in Workers : Queue(v)' = Queue(v) /\ HeldLen(v)' = HeldLen(v)
    BY DEF Queue, HeldLen
  <2>4. \A v \in Workers : (Holding(v)' <=> Holding(v)) /\ (Holding(v) => v # w)
    OBVIOUS
  <2>5. DistinctTxs' /\ UnusedHash' /\ QueueOwner'
    BY DEF DistinctTxs, UnusedHash, QueueOwner
  <2>6. NeverLocked' /\ OwnerHolds'
    BY <2>1, <2>2 DEF NeverLocked, OwnerHolds
  <2>7. QueueHeld'
    <3>1. ASSUME NEW v \in Workers, Holding(v), NEW i \in 1..HeldLen(v)
          PROVE  /\ accountLock'[Queue(v)[i]] = v
                 /\ lockedAccount[Queue(v)[i]] = thash[v]
      <4>1. /\ accountLock[Queue(v)[i]] = v
            /\ lockedAccount[Queue(v)[i]] = thash[v]
        BY <3>1 DEF QueueHeld
      <4>2. Queue(v)[i] # h
        BY <3>1, <4>1, <2>2, <2>4
      <4>3. QED
        BY <4>1, <4>2, <2>2
    <3>2. QED
      BY <3>1, <2>3, <2>4 DEF QueueHeld
  <2>8. QueueDistinct'
    BY <2>3, <2>4 DEF QueueDistinct
  <2>9. WaitsForLast'
    <3>1. ASSUME NEW v \in Workers, pc[v] \in {"waiting", "acquired"}
          PROVE  accountLock'[want[v]] = v <=> accountLock[want[v]] = v
      BY <3>1, <2>1, <2>2, SentinelAssumption
    <3>2. QED
      BY <3>1, <2>3 DEF WaitsForLast
  <2>10. HolderQueued'
    <3>1. \A b \in Accounts : (InQueue(b, unlocking[w]) /\ b # h)
             => InQueue(b, unlocking'[w])
      BY <2>1, InTail DEF h
    <3>2. \A b \in Accounts : accountLock'[b] = w => b # h
      BY <2>1, <2>2, SentinelAssumption
    <3>3. \A b \in Accounts, v \in Workers : accountLock'[b] = v => accountLock[b] = v
      BY <2>1, <2>2, SentinelAssumption
    <3>4. ASSUME NEW b \in Accounts, accountLock'[b] = w
          PROVE  pc'[w] = "unlocking" /\ InQueue(b, unlocking'[w])
      <4>1. InQueue(b, unlocking[w])
        BY <3>3, <3>4, <2>4 DEF HolderQueued
      <4>2. QED
        BY <4>1, <3>1, <3>2, <3>4
    <3>5. \A v \in Workers \ {w} : unlocking'[v] = unlocking[v]
      OBVIOUS
    <3>6. ASSUME NEW v \in Workers \ {w}, NEW b \in Accounts, accountLock'[b] = v
          PROVE  \/ Holding(v) /\ InQueue(b, Queue(v)')
                 \/ pc[v] = "unlocking" /\ InQueue(b, unlocking'[v])
      <4>1. \/ Holding(v) /\ InQueue(b, Queue(v))
            \/ pc[v] = "unlocking" /\ InQueue(b, unlocking[v])
        BY <3>3, <3>6 DEF HolderQueued
      <4>2. QED
        BY <4>1, <3>5, <2>3
    <3>7. QED
      BY <3>4, <3>6 DEF HolderQueued
  <2>11. GrantedWhileHolding' /\ GrantedMeansLocked'
    BY <2>1, <2>2, <2>4 DEF GrantedWhileHolding, GrantedMeansLocked
  <2>12. UnlocksOwnMutexes'
    <3>1. /\ unlocking'[w] = Tail(unlocking[w])
          /\ Len(unlocking'[w]) = Len(unlocking[w]) - 1
      BY <2>1
    <3>2. \A i \in 1..Len(unlocking'[w]) :
             /\ i + 1 \in 1..Len(unlocking[w])
             /\ unlocking'[w][i] = unlocking[w][i + 1]
             /\ unlocking'[w][i] \in Accounts
             /\ unlocking'[w][i] # h
             /\ accountLock[unlocking'[w][i]] = w
      <4>1. \A i \in 1..Len(unlocking'[w]) :
               /\ i + 1 \in 1..Len(unlocking[w]) /\ 1 \in 1..Len(unlocking[w])
               /\ i + 1 # 1
               /\ unlocking'[w][i] = unlocking[w][i + 1]
        BY <3>1, <2>1
      <4>2. QED
        BY <4>1, <2>1 DEF UnlocksOwnMutexes
    <3>3. \A i \in 1..Len(unlocking'[w]) :
             /\ accountLock'[unlocking'[w][i]] = w
             /\ \A j \in 1..Len(unlocking'[w]) :
                   i # j => unlocking'[w][i] # unlocking'[w][j]
      <4>1. \A i, j \in 1..Len(unlocking'[w]) : i # j => i + 1 # j + 1
        BY <3>1, <2>1
      <4>2. \A i, j \in 1..Len(unlocking[w]) :
               i # j => unlocking[w][i] # unlocking[w][j]
        BY DEF UnlocksOwnMutexes
      <4>3. QED
        BY <4>1, <4>2, <3>2, <2>2
    <3>4. ASSUME NEW v \in Workers \ {w}
          PROVE  \A i \in 1..Len(unlocking'[v]) :
                    /\ accountLock'[unlocking'[v][i]] = v
                    /\ \A j \in 1..Len(unlocking'[v]) :
                          i # j => unlocking'[v][i] # unlocking'[v][j]
      <4>1. unlocking'[v] = unlocking[v]
        OBVIOUS
      <4>2. \A i \in 1..Len(unlocking[v]) :
               /\ accountLock[unlocking[v][i]] = v
               /\ unlocking[v][i] \in Accounts
               /\ \A j \in 1..Len(unlocking[v]) :
                     i # j => unlocking[v][i] # unlocking[v][j]
        BY DEF UnlocksOwnMutexes
      <4>3. \A i \in 1..Len(unlocking[v]) : accountLock'[unlocking[v][i]] = v
        BY <4>2, <2>1, <2>2
      <4>4. QED
        BY <4>1, <4>2, <4>3
    <3>5. ASSUME NEW v \in Workers
          PROVE  \A i \in 1..Len(unlocking'[v]) :
                    /\ accountLock'[unlocking'[v][i]] = v
                    /\ \A j \in 1..Len(unlocking'[v]) :
                          i # j => unlocking'[v][i] # unlocking'[v][j]
      <4>1. CASE v = w
        BY <3>3, <4>1
      <4>2. CASE v # w
        <5>1. v \in Workers \ {w}
          BY <4>2, Zenon
        <5>2. QED
          BY <3>4, <5>1, Zenon
      <4>3. QED
        BY <4>1, <4>2, Zenon
    <3>6. QED
      BY <3>5, Zenon DEF UnlocksOwnMutexes
  <2>13. UnlockingPhase'
    BY DEF UnlockingPhase
  <2>14. QED
    BY <2>5, <2>6, <2>7, <2>8, <2>9, <2>10, <2>11, <2>12, <2>13
<1>10. ASSUME NEW w \in Workers, UnlockDone(w) PROVE LockInv'
  <2> USE <1>10 DEF UnlockDone
  <2>1. \A a \in Accounts : accountLock[a] # w
    <3>1. 1..Len(unlocking[w]) = {}
      OBVIOUS
    <3>2. QED
      BY <3>1 DEF HolderQueued, InQueue
  <2>2. \A v \in Workers : Queue(v)' = Queue(v) /\ HeldLen(v)' = HeldLen(v)
    BY DEF Queue, HeldLen
  <2>3. \A v \in Workers : Holding(v)' <=> Holding(v)
    OBVIOUS
  <2>4. DistinctTxs' /\ UnusedHash' /\ NeverLocked' /\ OwnerHolds'
    BY DEF DistinctTxs, UnusedHash, NeverLocked, OwnerHolds
  <2>5. QueueHeld' /\ QueueDistinct'
    BY <2>2, <2>3 DEF QueueHeld, QueueDistinct
  <2>6. WaitsForLast'
    BY <2>2 DEF WaitsForLast
  <2>7. HolderQueued'
    BY <2>1, <2>2 DEF HolderQueued
  <2>8. QueueOwner'
    BY <2>3 DEF QueueOwner
  <2>9. GrantedWhileHolding' /\ GrantedMeansLocked'
    BY DEF GrantedWhileHolding, GrantedMeansLocked
  <2>10. UnlocksOwnMutexes' /\ UnlockingPhase'
    BY DEF UnlocksOwnMutexes, UnlockingPhase
  <2>11. QED
    BY <2>4, <2>5, <2>6, <2>7, <2>8, <2>9, <2>10
<1>11. CASE UNCHANGED vars
  <2> USE <1>11 DEF vars
  <2>1. \A v \in Workers : Queue(v)' = Queue(v) /\ HeldLen(v)' = HeldLen(v)
    BY DEF Queue, HeldLen
  <2>2. DistinctTxs' /\ UnusedHash' /\ NeverLocked' /\ OwnerHolds' /\ QueueOwner'
    BY DEF DistinctTxs, UnusedHash, NeverLocked, OwnerHolds, QueueOwner
  <2>3. QueueHeld' /\ QueueDistinct' /\ WaitsForLast' /\ HolderQueued'
    BY <2>1 DEF QueueHeld, QueueDistinct, WaitsForLast, HolderQueued
  <2>4. GrantedWhileHolding' /\ GrantedMeansLocked'
    BY DEF GrantedWhileHolding, GrantedMeansLocked
  <2>5. UnlocksOwnMutexes' /\ UnlockingPhase'
    BY DEF UnlocksOwnMutexes, UnlockingPhase
  <2>6. QED
    BY <2>2, <2>3, <2>4, <2>5
<1>12. QED
  BY <1>1, <1>2, <1>3, <1>4, <1>5, <1>6, <1>7, <1>8, <1>9, <1>10, <1>11
  DEF Next, requestAndLock, Progress, BlockDone

\* The bookkeeping of MContext always describes the mutexes: LockInv holds in
\* every state in which no hash was prepared twice (multi_statedb.go:156-239).
THEOREM LockInvariant ==
    ASSUME NoRetry
    PROVE  Spec => []LockInv
<1>1. Init => LockInv
  <2>1. ASSUME Init
        PROVE  /\ \A w \in Workers :
                     pc[w] = "idle" /\ unlocking[w] = << >> /\ granted[w] = {}
               /\ \A a \in Accounts : lockedAccount[a] = NoTx /\ accountLock[a] = Free
               /\ \A t \in Txs : txLockQueue[t] = << >>
    BY <2>1 DEF Init
  <2>2. QED
    BY <2>1, SentinelAssumption
    DEF LockInv, DistinctTxs, UnusedHash, NeverLocked, QueueHeld, QueueDistinct,
        WaitsForLast, OwnerHolds, HolderQueued, QueueOwner, GrantedWhileHolding,
        GrantedMeansLocked, UnlocksOwnMutexes, UnlockingPhase, Holding, Active
<1>2. TypeOK /\ LockInv /\ [Next]_vars => LockInv'
  BY LockStep
<1>3. QED
  BY <1>1, <1>2, TypeCorrect, PTL DEF Spec

\* requestAndLock gives an account to one worker at a time, for any number of
\* workers, transactions and accounts.
THEOREM Exclusion ==
    ASSUME NoRetry
    PROVE  Spec => []MutualExclusion
<1>1. LockInv => MutualExclusion
  BY DEF LockInv, GrantedMeansLocked, MutualExclusion
<1>2. QED
  BY <1>1, LockInvariant, PTL

\* A granted account is one the worker has locked, and UnLockAccounts never
\* unlocks a mutex its own transaction has not locked (line 237).
THEOREM UnlockSafe ==
    ASSUME NoRetry
    PROVE  Spec => [](GrantedMeansLocked /\ UnlocksOwnMutexes)
<1>1. LockInv => GrantedMeansLocked /\ UnlocksOwnMutexes
  BY DEF LockInv
<1>2. QED
  BY <1>1, LockInvariant, PTL

\* A request that blocks does not block on a worker that waits for it: in
\* that case _checkDeadLock would have found the last entry of the holder's
\* queue in the requester's.
LEMMA ContendedHolder ==
    ASSUME TypeOK, LockInv, NEW w \in Workers, NEW a \in Accounts,
           RequestContended(w, a), NEW v \in Workers, accountLock[a] = v
    PROVE  ~Blocks(w, v)
<1> SUFFICES ASSUME pc[v] = "waiting", accountLock[want[v]] = w PROVE FALSE
  BY DEF Blocks
<1> USE DEF TypeOK, PCs, LockInv, Holding, Active
<1>1. /\ pc[w] = "running" /\ v # w /\ thash[v] # thash[w]
      /\ thash[v] \in Txs /\ thash[w] \in Txs /\ want[v] \in Accounts
  BY DEF RequestContended, DistinctTxs
<1>2. /\ Queue(v) = txLockQueue[thash[v]] /\ Queue(w) = txLockQueue[thash[w]]
      /\ Queue(v) \in Seq(Accounts) /\ Queue(w) \in Seq(Accounts)
      /\ HeldLen(w) = Len(Queue(w)) /\ HeldLen(v) = Len(Queue(v)) - 1
  BY <1>1 DEF Queue, HeldLen
<1>3. want[v] = Queue(v)[Len(Queue(v))]
  BY DEF WaitsForLast, Last
<1>4. InQueue(want[v], Queue(w)) /\ InQueue(a, Queue(v))
  BY <1>1 DEF HolderQueued
<1>5. Len(Queue(w)) > 0 /\ lockedAccount[want[v]] = thash[w]
  <2>1. PICK i \in 1..Len(Queue(w)) : Queue(w)[i] = want[v]
    BY <1>4 DEF InQueue
  <2>2. lockedAccount[Queue(w)[i]] = thash[w]
    <3>1. Holding(w) /\ i \in 1..HeldLen(w)
      BY <2>1, <1>1, <1>2
    <3>2. QED
      BY <3>1 DEF QueueHeld
  <2>3. QED
    BY <2>1, <2>2, <1>2
<1>6. Len(Queue(v)) > 1 /\ lockedAccount[a] = thash[v]
  <2>1. PICK i \in 1..Len(Queue(v)) : Queue(v)[i] = a
    BY <1>4 DEF InQueue
  <2>2. i # Len(Queue(v))
    BY <2>1, <1>1, <1>3
  <2>3. i \in 1..HeldLen(v)
    BY <2>1, <2>2, <1>2
  <2>4. lockedAccount[Queue(v)[i]] = thash[v]
    BY <2>3 DEF QueueHeld
  <2>5. QED
    BY <2>1, <2>2, <2>4, <1>2
<1>7. DeadLockFound(w, a)
  BY <1>1, <1>2, <1>3, <1>4, <1>5, <1>6 DEF DeadLockFound, checkDeadLock, Last
<1>8. QED
  BY <1>7 DEF RequestContended

\* Two transactions never wait for each other, however many run: the pairwise
\* check of _checkDeadLock (line 133) is complete for cycles of length two.
THEOREM PairsNeverWait ==
    ASSUME NoRetry
    PROVE  Spec => []NoMutualWait
<1>1. Init => NoMutualWait
  BY DEF Init, NoMutualWait, Blocks
<1>2. TypeOK /\ LockInv /\ NoMutualWait /\ [Next]_vars => NoMutualWait'
  <2> SUFFICES ASSUME TypeOK, LockInv, NoMutualWait, [Next]_vars,
                      NEW u \in Workers, NEW v \in Workers,
                      Blocks(u, v)', Blocks(v, u)'
               PROVE  FALSE
    BY DEF NoMutualWait
  <2> USE DEF TypeOK, PCs, ctxVars, histVars
  <2>1. ASSUME NEW w \in Workers, NEW a \in Accounts, RequestFresh(w, a)
        PROVE  FALSE
    <3>1. \A x \in Workers : pc[x] = "waiting" => want[x] # a
      BY <2>1 DEF RequestFresh, LockInv, WaitsForLast
    <3>2. QED
      BY <2>1, <3>1 DEF RequestFresh, NoMutualWait, Blocks
  <2>2. ASSUME NEW w \in Workers, NEW a \in Accounts, RequestContended(w, a)
        PROVE  FALSE
    <3>1. \A x \in Workers : accountLock[a] = x => ~Blocks(w, x)
      BY <2>2, ContendedHolder
    <3>2. accountLock[a] # w
      <4>1. CASE accountLock[a] = w
        <5>1. InQueue(a, Queue(w))
          BY <4>1, <2>2 DEF LockInv, HolderQueued, RequestContended
        <5>2. HeldLen(w) = Len(Queue(w))
          BY <2>2 DEF HeldLen, RequestContended
        <5>3. lockedAccount[a] = thash[w]
          <6>1. PICK i \in 1..Len(Queue(w)) : Queue(w)[i] = a
            BY <5>1 DEF InQueue
          <6>2. Holding(w) /\ i \in 1..HeldLen(w)
            BY <6>1, <5>2, <2>2 DEF RequestContended, Holding
          <6>3. QED
            BY <6>1, <6>2 DEF LockInv, QueueHeld
        <5>4. QED
          BY <5>3, <2>2 DEF RequestContended
      <4>2. QED
        BY <4>1
    <3>3. QED
      BY <2>2, <3>1, <3>2 DEF RequestContended, NoMutualWait, Blocks
  <2>3. ASSUME NEW w \in Workers, AcquireMutex(w) PROVE FALSE
    BY <2>3 DEF AcquireMutex, NoMutualWait, Blocks
  <2>4. ASSUME NEW w \in Workers, UnlockNext(w) PROVE FALSE
    BY <2>4, SentinelAssumption DEF UnlockNext, NoMutualWait, Blocks
  <2>5. ASSUME NEW w \in Workers,
               \/ \E t \in Txs : Prepare(w, t)
               \/ \E a \in Accounts : RequestOwn(w, a) \/ RequestPanics(w, a)
               \/ RecordOwner(w)
               \/ \E addTx \in BOOLEAN : UnLockAccounts(w, addTx)
               \/ UnlockDone(w)
        PROVE  FALSE
    <3>1. /\ accountLock' = accountLock
          /\ \A x \in Workers :
                pc'[x] = "waiting" => pc[x] = "waiting" /\ want'[x] = want[x]
      BY <2>5 DEF Prepare, RequestOwn, RequestPanics, RecordOwner,
                  UnLockAccounts, UnlockDone
    <3>2. Blocks(u, v) /\ Blocks(v, u)
      BY <3>1, Zenon DEF Blocks
    <3>3. QED
      BY <3>2, Zenon DEF NoMutualWait
  <2>6. CASE UNCHANGED vars
    BY <2>6 DEF vars, NoMutualWait, Blocks
  <2>7. QED
    BY <2>1, <2>2, <2>3, <2>4, <2>5, <2>6
    DEF Next, requestAndLock, Progress, BlockDone
<1>3. QED
  BY <1>1, <1>2, LockInvariant, TypeCorrect, PTL DEF Spec

\* When _checkDeadLock reports a deadlock, the recorded owner of the account
\* is a running transaction that waits for the requester.
LEMMA PanicHolder ==
    ASSUME TypeOK, LockInv, NEW w \in Workers, NEW a \in Accounts,
           RequestPanics(w, a)
    PROVE  \E v \in Workers : accountLock[a] = v /\ Blocks(w, v)
<1> USE DEF TypeOK, PCs, LockInv, Holding, Active
<1> DEFINE tx1 == lockedAccount[a]
           b   == Last(txLockQueue[tx1])
<1>1. /\ pc[w] = "running" /\ tx1 \in Txs /\ tx1 # thash[w] /\ thash[w] \in Txs
      /\ Len(txLockQueue[tx1]) > 1 /\ InQueue(b, txLockQueue[thash[w]])
  BY DEF RequestPanics, DeadLockFound, checkDeadLock
<1>2. PICK v \in Workers : Holding(v) /\ thash[v] = tx1
  <2>1. txLockQueue[tx1] # << >>
    BY <1>1
  <2>2. QED
    BY <2>1, <1>1 DEF QueueOwner
<1>3. accountLock[a] = v /\ v # w
  BY <1>1, <1>2 DEF OwnerHolds
<1>4. /\ Queue(v) = txLockQueue[tx1] /\ Queue(w) = txLockQueue[thash[w]]
      /\ Queue(v) \in Seq(Accounts) /\ Queue(w) \in Seq(Accounts)
      /\ HeldLen(w) = Len(Queue(w)) /\ Len(Queue(v)) \in Nat
  BY <1>1, <1>2 DEF Queue, HeldLen
<1>5. accountLock[b] = w
  <2>1. PICK i \in 1..Len(Queue(w)) : Queue(w)[i] = b
    BY <1>1, <1>4 DEF InQueue
  <2>2. Holding(w) /\ i \in 1..HeldLen(w)
    BY <2>1, <1>1, <1>4
  <2>3. QED
    BY <2>1, <2>2 DEF QueueHeld
<1>6. pc[v] \in {"waiting", "acquired"}
  <2>1. CASE pc[v] \notin {"waiting", "acquired"}
    <3>1. HeldLen(v) = Len(Queue(v)) /\ Len(Queue(v)) \in 1..Len(Queue(v))
      BY <2>1, <1>1, <1>4 DEF HeldLen
    <3>2. accountLock[Queue(v)[Len(Queue(v))]] = v
      BY <3>1, <1>2 DEF QueueHeld
    <3>3. QED
      BY <3>2, <1>3, <1>4, <1>5 DEF Last
  <2>2. QED
    BY <2>1
<1>7. want[v] = b /\ pc[v] = "waiting"
  BY <1>3, <1>4, <1>5, <1>6, SMTT(60) DEF WaitsForLast
<1>8. QED
  BY <1>3, <1>5, <1>7 DEF Blocks

\* requestAndLock never panics with ErrMStateDBDeadLock without a deadlock
\* (lines 185-189).
THEOREM PanicsJustified ==
    ASSUME NoRetry
    PROVE  Spec => PanicIsDeadlock
<1>1. TypeOK /\ LockInv /\ [Next]_vars =>
         [\A w \in Workers :
             (pc[w] = "running" /\ pc'[w] = "deadlocked") =>
                \E v \in Workers : /\ accountLock[want'[w]] = v
                                   /\ Blocks(w, v)]_vars
  <2> SUFFICES ASSUME TypeOK, LockInv, Next, NEW w \in Workers,
                      pc[w] = "running", pc'[w] = "deadlocked"
               PROVE  \E v \in Workers : accountLock[want'[w]] = v /\ Blocks(w, v)
    OBVIOUS
  <2>1. \E a \in Accounts : RequestPanics(w, a)
    <3> USE DEF TypeOK, ctxVars
    <3>1. ASSUME NEW x \in Workers,
                 \/ \E t \in Txs : Prepare(x, t)
                 \/ AcquireMutex(x)
                 \/ Progress(x)
                 \/ \E addTx \in BOOLEAN : UnLockAccounts(x, addTx)
          PROVE  FALSE
      BY <3>1 DEF Prepare, AcquireMutex, Progress, RecordOwner, UnlockNext,
                  UnlockDone, UnLockAccounts
    <3>2. ASSUME NEW x \in Workers, NEW a \in Accounts,
                 \/ RequestOwn(x, a)
                 \/ RequestFresh(x, a)
                 \/ RequestContended(x, a)
          PROVE  FALSE
      BY <3>2 DEF RequestOwn, RequestFresh, RequestContended
    <3>3. ASSUME NEW x \in Workers, NEW a \in Accounts, RequestPanics(x, a)
          PROVE  x = w
      BY <3>3 DEF RequestPanics
    <3>4. ~BlockDone
      BY DEF BlockDone, vars
    <3>5. QED
      BY <3>1, <3>2, <3>3, <3>4 DEF Next, requestAndLock
  <2>2. PICK a \in Accounts : RequestPanics(w, a)
    BY <2>1
  <2>3. want'[w] = a
    BY <2>2 DEF RequestPanics, TypeOK
  <2>4. QED
    BY <2>2, <2>3, PanicHolder
<1>2. QED
  BY <1>1, LockInvariant, TypeCorrect, PTL DEF Spec, PanicIsDeadlock

(***************************************************************************)
(* Why executedTxs can be replayed.  Of the transactions that got an       *)
(* account only the last one can still have it (HolderIsLast), and         *)
(* executedTxs does not name it yet (HolderNotExecuted), so that it is     *)
(* appended there after all the others (Ordered).                          *)
(***************************************************************************)
OrderUsed ==
    \A a \in Accounts : \A i \in 1..Len(grantOrder[a]) :
        attempts[grantOrder[a][i]] > 0

HolderIsLast ==
    \A a \in Accounts : \A i \in 1..Len(grantOrder[a]), w \in Workers :
        Holding(w) /\ grantOrder[a][i] = thash[w]
           => a \in granted[w] /\ i = Len(grantOrder[a])

HolderNotExecuted ==
    \A w \in Workers : Holding(w) => ~InQueue(thash[w], executedTxs)

Ordered ==
    \A a \in Accounts :
        \A i, j \in 1..Len(grantOrder[a]), p, q \in 1..Len(executedTxs) :
            /\ i < j
            /\ executedTxs[p] = grantOrder[a][i]
            /\ executedTxs[q] = grantOrder[a][j]
            => p < q

ReplayInv == OrderUsed /\ HolderIsLast /\ HolderNotExecuted /\ Ordered

\* A step that grants nothing and executes nothing keeps ReplayInv, if it
\* starts no transaction either.
LEMMA ReplayFrame ==
    ASSUME TypeOK, ReplayInv, UNCHANGED <<grantOrder, executedTxs, attempts>>,
           \A v \in Workers : Holding(v)' =>
              Holding(v) /\ thash'[v] = thash[v] /\ granted[v] \subseteq granted'[v]
    PROVE  ReplayInv'
<1>1. OrderUsed'
  BY DEF ReplayInv, OrderUsed
<1>2. HolderIsLast'
  BY DEF ReplayInv, HolderIsLast
<1>3. HolderNotExecuted'
  BY DEF ReplayInv, HolderNotExecuted
<1>4. Ordered'
  BY DEF ReplayInv, Ordered
<1>5. QED
  BY <1>1, <1>2, <1>3, <1>4 DEF ReplayInv

\* requestAndLock returns for an account that nobody else has (lines 162,
\* 171 and 212): the transaction becomes the last one that got it.
LEMMA ReplayGrant ==
    ASSUME TypeOK, LockInv, ReplayInv, NEW w \in Workers, NEW a \in Accounts,
           Holding(w), \A v \in Workers \ {w} : a \notin granted[v],
           Grant(w, a), UNCHANGED <<thash, executedTxs>>,
           \A v \in Workers : Holding(v)' => Holding(v)
    PROVE  ReplayInv'
<1> USE DEF TypeOK
<1> DEFINE t == thash[w]
           n == Len(grantOrder[a])
<1>1. t \in Txs /\ attempts[t] > 0 /\ n \in Nat
  BY DEF LockInv, DistinctTxs, Active, Holding
<1>2. \A v \in Workers : granted[v] \subseteq granted'[v]
  BY DEF Grant
<1>3. CASE a \in granted[w]
  <2>1. UNCHANGED <<grantOrder, executedTxs, attempts, thash>>
    BY <1>3 DEF Grant
  <2>2. \A v \in Workers : Holding(v)' =>
          Holding(v) /\ thash'[v] = thash[v] /\ granted[v] \subseteq granted'[v]
    BY <2>1, <1>2
  <2>3. QED
    BY <2>1, <2>2, ReplayFrame
<1>4. CASE a \notin granted[w]
  <2>1. /\ grantOrder' = [grantOrder EXCEPT ![a] = Append(@, t)]
        /\ UNCHANGED <<attempts, thash, executedTxs>>
    BY <1>4 DEF Grant
  <2>2. /\ Len(grantOrder'[a]) = n + 1 /\ grantOrder'[a][n + 1] = t
        /\ \A i \in 1..n : grantOrder'[a][i] = grantOrder[a][i]
    BY <2>1, <1>1
  <2>3. \A b \in Accounts \ {a} : grantOrder'[b] = grantOrder[b]
    BY <2>1
  <2>4. \A i \in 1..n, v \in Workers :
           Holding(v) => grantOrder[a][i] # thash[v]
    BY <1>4 DEF ReplayInv, HolderIsLast
  <2>5. \A i \in 1..Len(grantOrder'[a]) : i \in 1..n \/ i = n + 1
    BY <2>2, <1>1
  <2> HIDE DEF t, n
  <2>6. OrderUsed'
    <3>1. ASSUME NEW b \in Accounts, NEW i \in 1..Len(grantOrder'[b])
          PROVE  attempts[grantOrder'[b][i]] > 0
      <4>1. CASE b = a /\ i = n + 1
        BY <4>1, <2>2, <1>1
      <4>2. CASE b = a /\ i \in 1..n
        BY <4>2, <2>2 DEF ReplayInv, OrderUsed, n
      <4>3. CASE b # a
        BY <4>3, <2>3 DEF ReplayInv, OrderUsed
      <4>4. QED
        BY <4>1, <4>2, <4>3, <2>5
    <3>2. QED
      BY <3>1, <2>1 DEF OrderUsed
  <2>7. HolderIsLast'
    <3>1. ASSUME NEW b \in Accounts, NEW i \in 1..Len(grantOrder'[b]),
                 NEW v \in Workers, Holding(v), grantOrder'[b][i] = thash[v]
          PROVE  b \in granted'[v] /\ i = Len(grantOrder'[b])
      <4>1. CASE b = a /\ i = n + 1
        <5>1. thash[v] = thash[w]
          BY <4>1, <3>1, <2>2 DEF t
        <5>2. v = w
          BY <5>1, <3>1 DEF LockInv, DistinctTxs, Active, Holding
        <5>3. QED
          BY <4>1, <5>2, <2>2 DEF Grant
      <4>2. CASE b = a /\ i \in 1..n
        BY <4>2, <3>1, <2>2, <2>4
      <4>3. CASE b # a
        <5>1. grantOrder'[b] = grantOrder[b]
          BY <4>3, <2>3
        <5>2. b \in granted[v] /\ i = Len(grantOrder[b])
          BY <5>1, <3>1 DEF ReplayInv, HolderIsLast
        <5>3. QED
          BY <5>1, <5>2, <1>2
      <4>4. QED
        BY <4>1, <4>2, <4>3, <2>5
    <3>2. \A v \in Workers : Holding(v)' => Holding(v)
      OBVIOUS
    <3>3. QED
      BY <3>1, <3>2, <2>1 DEF HolderIsLast
  <2>8. HolderNotExecuted'
    BY DEF ReplayInv, HolderNotExecuted
  <2>9. Ordered'
    <3>1. ASSUME NEW b \in Accounts, NEW i \in 1..Len(grantOrder'[b]),
                 NEW j \in 1..Len(grantOrder'[b]),
                 NEW p \in 1..Len(executedTxs), NEW q \in 1..Len(executedTxs),
                 i < j, executedTxs[p] = grantOrder'[b][i],
                 executedTxs[q] = grantOrder'[b][j]
          PROVE  p < q
      <4>1. CASE b = a /\ j = n + 1
        <5>1. InQueue(thash[w], executedTxs)
          BY <4>1, <3>1, <2>2 DEF InQueue, t
        <5>2. QED
          BY <5>1 DEF ReplayInv, HolderNotExecuted
      <4>2. CASE b = a /\ j \in 1..n
        <5>1. i \in 1..n
          BY <4>2, <3>1, <1>1, <2>2
        <5>2. /\ executedTxs[p] = grantOrder[a][i]
              /\ executedTxs[q] = grantOrder[a][j]
          BY <4>2, <5>1, <3>1, <2>2
        <5>3. QED
          BY <4>2, <5>1, <5>2, <3>1 DEF ReplayInv, Ordered, n
      <4>3. CASE b # a
        BY <4>3, <3>1, <2>3, ZenonT(90) DEF ReplayInv, Ordered
      <4>4. QED
        BY <4>1, <4>2, <4>3, <2>5
    <3>2. executedTxs' = executedTxs
      OBVIOUS
    <3>3. QED
      BY <3>1, <3>2 DEF Ordered
  <2>10. QED
    BY <2>6, <2>7, <2>8, <2>9 DEF ReplayInv
<1>5. QED
  BY <1>3, <1>4

\* UnLockAccounts(true) appends the hash to executedTxs (line 223): of every
\* account the transaction has got it is the last to have got it.
LEMMA ReplayExecuted ==
    ASSUME TypeOK, LockInv, ReplayInv, NEW w \in Workers,
           UnLockAccounts(w, TRUE)
    PROVE  ReplayInv'
<1> USE DEF TypeOK
<1> DEFINE m == Len(executedTxs)
<1>1. /\ executedTxs' = Append(executedTxs, thash[w])
      /\ UNCHANGED <<grantOrder, attempts, thash>>
      /\ pc[w] = "running" /\ pc' = [pc EXCEPT ![w] = "unlocking"]
      /\ granted' = [granted EXCEPT ![w] = {}]
  BY DEF UnLockAccounts
<1>2. Holding(w) /\ thash[w] \in Txs /\ ~Holding(w)'
  BY <1>1 DEF Holding, LockInv, DistinctTxs, Active
<1>3. \A v \in Workers : Holding(v)' => v # w /\ Holding(v)
  BY <1>1, <1>2 DEF Holding
<1>4. /\ m \in Nat /\ Len(executedTxs') = m + 1
      /\ executedTxs'[m + 1] = thash[w]
      /\ \A i \in 1..m : executedTxs'[i] = executedTxs[i]
  BY <1>1, <1>2
<1>5. \A p \in 1..Len(executedTxs') : p \in 1..m \/ p = m + 1
  BY <1>4
<1> HIDE DEF m
<1>6. OrderUsed'
  BY <1>1 DEF ReplayInv, OrderUsed
<1>7. HolderIsLast'
  <2>1. \A v \in Workers : Holding(v)' => granted'[v] = granted[v]
    BY <1>1, <1>3
  <2>2. QED
    BY <2>1, <1>1, <1>3 DEF ReplayInv, HolderIsLast
<1>8. HolderNotExecuted'
  <2>1. ASSUME NEW v \in Workers, Holding(v)'
        PROVE  ~InQueue(thash[v], executedTxs')
    <3>1. v # w /\ Holding(v)
      BY <2>1, <1>3
    <3>2. thash[v] # thash[w]
      BY <3>1, <1>2 DEF LockInv, DistinctTxs, Active, Holding
    <3>3. ~InQueue(thash[v], executedTxs)
      BY <3>1 DEF ReplayInv, HolderNotExecuted
    <3>4. QED
      BY <3>2, <3>3, <1>1, <1>2, InAppend
  <2>2. QED
    BY <2>1, <1>1 DEF HolderNotExecuted
<1>9. Ordered'
  <2>1. ASSUME NEW a \in Accounts, NEW i \in 1..Len(grantOrder[a]),
               NEW j \in 1..Len(grantOrder[a]),
               NEW p \in 1..Len(executedTxs'), NEW q \in 1..Len(executedTxs'),
               i < j, executedTxs'[p] = grantOrder[a][i],
               executedTxs'[q] = grantOrder[a][j]
        PROVE  p < q
    <3>1. CASE p = m + 1
      <4>1. grantOrder[a][i] = thash[w]
        BY <3>1, <2>1, <1>4
      <4>2. i = Len(grantOrder[a])
        BY <4>1, <1>2 DEF ReplayInv, HolderIsLast
      <4>3. QED
        BY <4>2, <2>1
    <3>2. CASE p \in 1..m /\ q = m + 1
      BY <3>2, <1>4
    <3>3. CASE p \in 1..m /\ q \in 1..m
      <4>1. /\ executedTxs[p] = grantOrder[a][i]
            /\ executedTxs[q] = grantOrder[a][j]
        BY <3>3, <2>1, <1>4
      <4>2. QED
        BY <4>1, <3>3, <2>1 DEF ReplayInv, Ordered, m
    <3>4. QED
      BY <3>1, <3>2, <3>3, <1>5
  <2>2. grantOrder' = grantOrder
    BY <1>1
  <2>3. QED
    BY <2>1, <2>2 DEF Ordered
<1>10. QED
  BY <1>6, <1>7, <1>8, <1>9 DEF ReplayInv

\* Prepare starts a transaction that has no account and was not executed.
LEMMA ReplayPrepare ==
    ASSUME NoRetry, TypeOK, LockInv, ReplayInv, NEW w \in Workers,
           NEW t \in Txs, Prepare(w, t)
    PROVE  ReplayInv'
<1> USE DEF TypeOK
<1>1. /\ attempts[t] = 0 /\ ~InQueue(t, executedTxs)
      /\ thash' = [thash EXCEPT ![w] = t] /\ pc' = [pc EXCEPT ![w] = "running"]
      /\ attempts' = [attempts EXCEPT ![t] = @ + 1]
      /\ UNCHANGED <<granted, grantOrder, executedTxs>>
  BY AttemptsAssumption DEF NoRetry, Prepare, Runnable, ctxVars
<1>2. \A a \in Accounts : \A i \in 1..Len(grantOrder[a]) : grantOrder[a][i] # t
  BY <1>1 DEF ReplayInv, OrderUsed
<1>3. \A v \in Workers \ {w} :
         (Holding(v)' <=> Holding(v)) /\ thash'[v] = thash[v]
  BY <1>1 DEF Holding
<1>4. thash'[w] = t
  BY <1>1
<1>5. OrderUsed'
  <2>1. \A a \in Accounts : \A i \in 1..Len(grantOrder[a]) :
           attempts'[grantOrder[a][i]] = attempts[grantOrder[a][i]]
    BY <1>1, <1>2
  <2>2. QED
    BY <1>1, <2>1 DEF ReplayInv, OrderUsed
<1>6. HolderIsLast'
  <2>1. ASSUME NEW a \in Accounts, NEW i \in 1..Len(grantOrder[a]),
               NEW v \in Workers, Holding(v)', grantOrder[a][i] = thash'[v]
        PROVE  a \in granted[v] /\ i = Len(grantOrder[a])
    <3>1. v # w
      BY <2>1, <1>2, <1>4
    <3>2. Holding(v) /\ grantOrder[a][i] = thash[v]
      BY <3>1, <2>1, <1>3
    <3>3. QED
      BY <3>2 DEF ReplayInv, HolderIsLast
  <2>2. granted' = granted /\ grantOrder' = grantOrder
    BY <1>1
  <2>3. QED
    BY <2>1, <2>2 DEF HolderIsLast
<1>7. HolderNotExecuted'
  BY <1>1, <1>3, <1>4 DEF ReplayInv, HolderNotExecuted
<1>8. Ordered'
  BY <1>1 DEF ReplayInv, Ordered
<1>9. QED
  BY <1>5, <1>6, <1>7, <1>8 DEF ReplayInv

\* Every step of every worker keeps executedTxs in the order of the grants.
LEMMA ReplayStep ==
    NoRetry /\ TypeOK /\ LockInv /\ ReplayInv /\ [Next]_vars => ReplayInv'
<1> SUFFICES ASSUME NoRetry, TypeOK, LockInv, ReplayInv, [Next]_vars
             PROVE  ReplayInv'
  OBVIOUS
<1>1. ASSUME NEW w \in Workers, NEW a \in Accounts,
             RequestOwn(w, a) \/ RequestFresh(w, a)
      PROVE  ReplayInv'
  <2>1. /\ pc[w] = "running" /\ Grant(w, a)
        /\ UNCHANGED <<thash, executedTxs, pc>>
    BY <1>1 DEF RequestOwn, RequestFresh, ctxVars
  <2>2. accountLock[a] \in {w, Free}
    BY <1>1, <2>1 DEF RequestOwn, RequestFresh, LockInv, OwnerHolds,
                      NeverLocked, Holding
  <2>3. \A v \in Workers \ {w} : a \notin granted[v]
    BY <2>2, SentinelAssumption DEF LockInv, GrantedMeansLocked
  <2>4. QED
    BY <2>1, <2>3, ReplayGrant DEF Holding
<1>2. ASSUME NEW w \in Workers, RecordOwner(w) PROVE ReplayInv'
  <2>1. /\ pc[w] = "acquired" /\ Grant(w, want[w])
        /\ UNCHANGED <<thash, executedTxs>>
        /\ pc' = [pc EXCEPT ![w] = "running"]
    BY <1>2 DEF RecordOwner
  <2>2. want[w] \in Accounts
    BY <2>1 DEF TypeOK
  <2>3. accountLock[want[w]] = w
    BY <2>1 DEF LockInv, WaitsForLast
  <2>4. \A v \in Workers \ {w} : want[w] \notin granted[v]
    BY <2>3 DEF LockInv, GrantedMeansLocked
  <2>5. \A v \in Workers : Holding(v)' => Holding(v)
    BY <2>1 DEF Holding, TypeOK
  <2>6. Holding(w)
    BY <2>1 DEF Holding
  <2>7. QED
    BY <2>1, <2>2, <2>4, <2>5, <2>6, ReplayGrant
<1>3. ASSUME \/ \E w \in Workers : UnLockAccounts(w, FALSE)
             \/ \E w \in Workers, a \in Accounts :
                   RequestContended(w, a) \/ RequestPanics(w, a)
             \/ \E w \in Workers :
                   AcquireMutex(w) \/ UnlockNext(w) \/ UnlockDone(w)
             \/ UNCHANGED vars
      PROVE  ReplayInv'
  <2>1. UNCHANGED <<grantOrder, executedTxs, attempts, thash>>
    BY <1>3 DEF UnLockAccounts, RequestContended, RequestPanics, AcquireMutex,
                UnlockNext, UnlockDone, vars, ctxVars, histVars
  <2>2. \A v \in Workers : Holding(v)' => Holding(v) /\ granted'[v] = granted[v]
    BY <1>3 DEF UnLockAccounts, RequestContended, RequestPanics, AcquireMutex,
                UnlockNext, UnlockDone, vars, ctxVars, histVars, Holding, TypeOK
  <2>3. QED
    BY <2>1, <2>2, ReplayFrame
<1>4. ASSUME NEW w \in Workers, NEW addTx \in BOOLEAN, UnLockAccounts(w, addTx)
      PROVE  ReplayInv'
  <2>1. CASE addTx = TRUE
    BY <1>4, <2>1, ReplayExecuted
  <2>2. CASE addTx = FALSE
    BY <1>4, <2>2, <1>3
  <2>3. QED
    BY <2>1, <2>2
<1>5. QED
  BY <1>1, <1>2, <1>3, <1>4, ReplayPrepare
  DEF Next, requestAndLock, Progress, BlockDone

\* The position of an executed transaction is where executedTxs names it.
LEMMA PositionOf ==
    ASSUME NEW t, InQueue(t, executedTxs)
    PROVE  Position(t) \in 1..Len(executedTxs) /\ executedTxs[Position(t)] = t
BY DEF InQueue, Position

\* executedTxs lists the transactions that used one account in the order in
\* which they got it, so that the block can be replayed one transaction after
\* the other ("can be executed and verified in order",
\* multi_statedb.go:39): for any number of workers, transactions and accounts.
THEOREM ReplayIsOrdered ==
    ASSUME NoRetry
    PROVE  Spec => []ReplayOrder
<1>1. Init => ReplayInv
  BY DEF Init, ReplayInv, OrderUsed, HolderIsLast, HolderNotExecuted, Ordered,
         InQueue
<1>2. ReplayInv => ReplayOrder
  <2> SUFFICES ASSUME ReplayInv, NEW a \in Accounts,
                      NEW i \in 1..Len(grantOrder[a]),
                      NEW j \in 1..Len(grantOrder[a]), i < j,
                      InQueue(grantOrder[a][i], executedTxs),
                      InQueue(grantOrder[a][j], executedTxs)
               PROVE  Position(grantOrder[a][i]) < Position(grantOrder[a][j])
    BY DEF ReplayOrder
  <2>1. PICK p \in 1..Len(executedTxs) :
           p = Position(grantOrder[a][i]) /\ executedTxs[p] = grantOrder[a][i]
    BY PositionOf
  <2>2. PICK q \in 1..Len(executedTxs) :
           q = Position(grantOrder[a][j]) /\ executedTxs[q] = grantOrder[a][j]
    BY PositionOf
  <2>3. p < q
    BY <2>1, <2>2 DEF ReplayInv, Ordered
  <2>4. QED
    BY <2>1, <2>2, <2>3
<1>3. QED
  BY <1>1, <1>2, ReplayStep, LockInvariant, TypeCorrect, PTL DEF Spec

Exclusive(g) == \A v, w \in Workers : v # w => g[v] \cap g[w] = {}

\* When grants exclude each other, the holder of an account is the one worker
\* it was granted to, and Free if there is none.
LEMMA HolderUnique ==
    ASSUME NEW g \in [Workers -> SUBSET Accounts], Exclusive(g),
           NEW w \in Workers, NEW a \in Accounts
    PROVE  a \in g[w] <=> HolderIn(g, a) = w
<1>1. ASSUME a \in g[w] PROVE HolderIn(g, a) = w
  <2>1. \A v \in Workers : a \in g[v] => v = w
    BY <1>1 DEF Exclusive
  <2>2. (CHOOSE v \in Workers : a \in g[v]) = w
    BY <1>1, <2>1
  <2>3. QED
    BY <1>1, <2>2 DEF HolderIn
<1>2. ASSUME HolderIn(g, a) = w PROVE a \in g[w]
  <2>1. PICK v \in Workers : a \in g[v]
    BY <1>2, SentinelAssumption DEF HolderIn
  <2>2. a \in g[CHOOSE u \in Workers : a \in g[u]]
    BY <2>1
  <2>3. QED
    BY <1>2, <2>1, <2>2 DEF HolderIn
<1>3. QED
  BY <1>1, <1>2

\* A holder is a worker or nobody.
LEMMA HolderType ==
    ASSUME NEW g \in [Workers -> SUBSET Accounts], NEW a \in Accounts
    PROVE  HolderIn(g, a) \in Workers \cup {Free}
<1>1. CASE \E w \in Workers : a \in g[w]
  <2>1. (CHOOSE w \in Workers : a \in g[w]) \in Workers
    BY <1>1
  <2>2. QED
    BY <1>1, <2>1 DEF HolderIn
<1>2. CASE ~\E w \in Workers : a \in g[w]
  BY <1>2 DEF HolderIn
<1>3. QED
  BY <1>1, <1>2

\* The holders are determined by who was granted what.
LEMMA HolderSame ==
    ASSUME NEW g \in [Workers -> SUBSET Accounts], Exclusive(g),
           NEW h \in [Workers -> SUBSET Accounts], Exclusive(h),
           NEW a \in Accounts, \A w \in Workers : a \in g[w] <=> a \in h[w]
    PROVE  HolderIn(g, a) = HolderIn(h, a)
<1>1. \A w \in Workers : HolderIn(g, a) = w <=> HolderIn(h, a) = w
  BY HolderUnique
<1>2. QED
  BY <1>1, HolderType, SentinelAssumption

\* A grant that keeps the workers apart is a Grant of LockService.
LEMMA GrantStep ==
    ASSUME TypeOK, MutualExclusion, TypeOK', MutualExclusion',
           NEW w \in Workers, NEW a \in Accounts,
           granted' = [granted EXCEPT ![w] = @ \cup {a}]
    PROVE  LS!Grant(w, a)
<1>1. /\ granted \in [Workers -> SUBSET Accounts] /\ Exclusive(granted)
      /\ granted' \in [Workers -> SUBSET Accounts] /\ Exclusive(granted')
  BY DEF TypeOK, MutualExclusion, Exclusive
<1>2. HolderIn(granted, a) \in {w, Free}
  <2>1. \A v \in Workers : a \in granted[v] => v = w
    BY <1>1 DEF Exclusive
  <2>2. \A v \in Workers : HolderIn(granted, a) = v => v = w
    BY <1>1, <2>1, HolderUnique
  <2>3. QED
    BY <1>1, <2>2, HolderType
<1>3. HolderIn(granted', a) = w
  BY <1>1, HolderUnique
<1>4. ASSUME NEW b \in Accounts, b # a
      PROVE  HolderIn(granted', b) = HolderIn(granted, b)
  <2>1. \A v \in Workers : b \in granted'[v] <=> b \in granted[v]
    BY <1>1, <1>4
  <2>2. ASSUME NEW v \in Workers
        PROVE  HolderIn(granted', b) = v <=> HolderIn(granted, b) = v
    <3>1. b \in granted[v] <=> HolderIn(granted, b) = v
      BY <1>1, HolderUnique
    <3>2. b \in granted'[v] <=> HolderIn(granted', b) = v
      BY <1>1, HolderUnique
    <3>3. QED
      BY <2>1, <3>1, <3>2
  <2>3. /\ HolderIn(granted', b) \in Workers \cup {Free}
        /\ HolderIn(granted, b) \in Workers \cup {Free}
    BY <1>1, HolderType
  <2>4. QED
    BY <2>2, <2>3, SentinelAssumption
<1>5. QED
  BY <1>2, <1>3, <1>4 DEF LS!Grant

\* Dropping all the grants of a worker is a Release of LockService.
LEMMA ReleaseStep ==
    ASSUME TypeOK, MutualExclusion, TypeOK', MutualExclusion',
           NEW w \in Workers, granted' = [granted EXCEPT ![w] = {}]
    PROVE  LS!Release(w)
<1>1. /\ granted \in [Workers -> SUBSET Accounts] /\ Exclusive(granted)
      /\ granted' \in [Workers -> SUBSET Accounts] /\ Exclusive(granted')
  BY DEF TypeOK, MutualExclusion, Exclusive
<1>2. ASSUME NEW a \in Accounts
      PROVE  HolderIn(granted', a) = IF HolderIn(granted, a) = w THEN Free
                                     ELSE HolderIn(granted, a)
  <2>1. CASE a \in granted[w]
    <3>1. \A v \in Workers : a \notin granted'[v]
      BY <1>1, <2>1 DEF Exclusive
    <3>2. HolderIn(granted', a) = Free
      BY <3>1 DEF HolderIn
    <3>3. QED
      BY <1>1, <2>1, <3>2, HolderUnique
  <2>2. CASE a \notin granted[w]
    <3>1. \A v \in Workers : a \in granted'[v] <=> a \in granted[v]
      BY <1>1, <2>2
    <3>2. HolderIn(granted', a) = HolderIn(granted, a)
      BY <1>1, <3>1, HolderSame
    <3>3. HolderIn(granted, a) # w
      BY <1>1, <2>2, HolderUnique
    <3>4. QED
      BY <3>2, <3>3
  <2>3. QED
    BY <2>1, <2>2
<1>3. QED
  BY <1>2 DEF LS!Release

\* requestAndLock and UnLockAccounts implement LockService for any number of
\* workers and accounts: MStateDB, which is specified on top of LockService,
\* may rely on it (multi_statedb.go:156-239).
THEOREM LocksAreService ==
    ASSUME NoRetry
    PROVE  Spec => ImplementsLockService
<1>1. Init => LS!Init
  <2> SUFFICES ASSUME Init PROVE LS!Init
    OBVIOUS
  <2>1. \A a \in Accounts : HolderIn(granted, a) = Free
    BY DEF Init, HolderIn
  <2>2. QED
    BY <2>1 DEF LS!Init
<1>2. /\ TypeOK /\ MutualExclusion /\ TypeOK' /\ MutualExclusion' /\ [Next]_vars
      => [LS!Next]_([a \in Accounts |-> HolderIn(granted, a)])
  <2> SUFFICES ASSUME TypeOK, MutualExclusion, TypeOK', MutualExclusion',
                      [Next]_vars, granted' # granted
               PROVE  LS!Next
    OBVIOUS
  <2>1. ASSUME NEW w \in Workers, NEW a \in Accounts,
               RequestOwn(w, a) \/ RequestFresh(w, a)
        PROVE  LS!Next
    <3>1. granted' = [granted EXCEPT ![w] = @ \cup {a}]
      BY <2>1 DEF RequestOwn, RequestFresh, Grant
    <3>2. QED
      BY <3>1, GrantStep DEF LS!Next
  <2>2. ASSUME NEW w \in Workers, RecordOwner(w) PROVE LS!Next
    <3>1. granted' = [granted EXCEPT ![w] = @ \cup {want[w]}]
      BY <2>2 DEF RecordOwner, Grant
    <3>2. want[w] \in Accounts
      BY <2>2 DEF RecordOwner, TypeOK
    <3>3. QED
      BY <3>1, <3>2, GrantStep DEF LS!Next
  <2>3. ASSUME NEW w \in Workers, NEW addTx \in BOOLEAN, UnLockAccounts(w, addTx)
        PROVE  LS!Next
    <3>1. granted' = [granted EXCEPT ![w] = {}]
      BY <2>3 DEF UnLockAccounts
    <3>2. QED
      BY <3>1, ReleaseStep DEF LS!Next
  <2>4. ASSUME NEW w \in Workers,
               \/ \E t \in Txs : Prepare(w, t)
               \/ \E a \in Accounts : RequestContended(w, a) \/ RequestPanics(w, a)
               \/ AcquireMutex(w) \/ UnlockNext(w) \/ UnlockDone(w)
        PROVE  FALSE
    BY <2>4 DEF Prepare, RequestContended, RequestPanics, AcquireMutex,
                UnlockNext, UnlockDone, histVars
  <2>5. ~UNCHANGED vars
    BY DEF vars, histVars
  <2>6. QED
    BY <2>1, <2>2, <2>3, <2>4, <2>5
    DEF Next, requestAndLock, Progress, BlockDone
<1>3. QED
  BY <1>1, <1>2, TypeCorrect, Exclusion, PTL
  DEF Spec, ImplementsLockService, LS!Spec
=============================================================================
