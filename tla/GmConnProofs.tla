---------------------------- MODULE GmConnProofs ----------------------------
(***************************************************************************)
(* Proofs about GmConn: the safety of a Conn that goroutines share, for    *)
(* every renegotiation policy, any number of calls and of records of the   *)
(* peer, every window of the transport and every limit of conn.go.         *)
(***************************************************************************)
EXTENDS GmConn, FiniteSetTheorems, SequenceTheorems, TLAPS

(* The records of conn.go that are written, and those the peer sends *)
Records == {"hello", "finished", "alert", "noRenegotiation", "data", "closeNotify"}

PeerRecords == {"hello", "fatal", "data", "empty", "warning", "request", "closeNotify", "part", "oversized"}

(* What c.hand may hold *)
Messages == {"hello", "request", "part", "oversized"}

Handshaking == {"hsRead", "flush", "hsOk", "hsFail"}

(* The places in the calls, and their results *)
Names ==
    {"off", "idle", "failed", "dial", "dialWait", "dialed", "dialFailed", "report", "hsLock", "hsIn", "hsRead",
     "hsOk", "hsFail", "flush", "flushing", "out", "number", "transmit", "rdIn", "rdLoop", "rdPeek", "rdDone", "renegotiate", "reLock", "wrOut",
     "wrDone", "cnOut", "clRaw", "closed", None, "ok", "err", "eof", "errClosed"}

(* Where a goroutine may be *)
Points ==
    [t \in Threads |->
        CASE t = "dial"  -> {"off", "dial", "dialWait", "dialed", "dialFailed"}
          [] t = "hand"  -> {"off", "report", "hsLock", "hsIn", "out", "number", "transmit", "flushing"} \cup Handshaking
          [] t = "read"  -> {"off", "idle", "failed", "hsLock", "hsIn", "out", "number", "transmit", "flushing", "rdIn",
                             "rdLoop", "rdPeek", "rdDone", "renegotiate", "reLock"} \cup Handshaking
          [] t = "write" -> {"off", "idle", "failed", "hsLock", "hsIn", "out", "number", "transmit", "flushing", "wrOut",
                             "wrDone"} \cup Handshaking
          [] t = "close" -> {"off", "idle", "cnOut", "transmit", "clRaw", "closed"}]

(* Where it may go on after it has written *)
Nexts ==
    [t \in Threads |->
        CASE t = "dial"  -> {}
          [] t = "hand"  -> Handshaking
          [] t = "read"  -> {"rdDone"} \cup Handshaking
          [] t = "write" -> {"wrDone"} \cup Handshaking
          [] t = "close" -> {"idle", "clRaw"}]

(* Where Handshake may return to *)
Callers ==
    [t \in Threads |->
        CASE t = "hand"  -> {"report"}
          [] t = "read"  -> {"rdIn", "rdLoop"}
          [] t = "write" -> {"wrOut"}
          [] t \in {"dial", "close"} -> {}]

ConnType ==
    c \in [hsMutex : Threads \cup {None}, in : Threads \cup {None}, out : Threads \cup {None},
           active : 0..3, status : {0, 1}, hsErr : BOOLEAN, handshakes : Nat,
           inErr : {None, "eof", "err"}, outErr : BOOLEAN, closeSent : BOOLEAN,
           warn : 0..MaxWarn + 1, input : {None, "data", "empty"}, hand : Seq(Messages),
           seq : Nat, closed : BOOLEAN, policy : Policies,
           buffering : BOOLEAN, buf : Seq([type : Records, seq : Nat]), raced : BOOLEAN]

GoroutineType ==
    th \in [Threads ->
              [pc : Names, recs : Seq(Records), next : Names, caller : Names, calls : Nat,
               empty : Nat, res : Names, seq : Nat]]

TransportType ==
    /\ sent \in Seq([type : Records, seq : Nat])
    /\ acked \in 0..Len(sent) /\ Len(sent) - acked <= Window
    /\ inq \in Seq(PeerRecords)
    /\ peer \in [data : Seq(Nat), hellos : Nat, extra : Nat, closed : BOOLEAN, asked : BOOLEAN,
                 done : BOOLEAN, reset : BOOLEAN]
    /\ got \in Seq(Nat)
    /\ timer \in {"off", "on", "fired", "done"}
    /\ errs \in Seq({"timeout", "err", "ok"}) /\ Len(errs) <= 2

Writing(t) == th[t].pc \in {"out", "number", "transmit"}

(* Each goroutine runs the code of its own call, and goes on within it. *)
Control ==
    \A t \in Threads :
        /\ th[t].pc \in Points[t]
        /\ Writing(t) => th[t].next \in Nexts[t]
        /\ Writing(t) <=> th[t].recs # <<>>
        /\ th[t].pc = "cnOut" => th[t].next \in Nexts[t]

InHandshake(t) ==
    th[t].pc \in {"hsIn", "flushing"} \cup Handshaking \/ (Writing(t) /\ th[t].next \in Handshaking)

(* handshakeMutex is held by the one goroutine in clientHandshake, which   *)
(* runs only while no handshake has succeeded or failed for good.          *)
MutexInv ==
    /\ \A t \in Threads : InHandshake(t) <=> c.hsMutex = t
    /\ \A t \in Threads : InHandshake(t) => c.status = 0 /\ ~c.hsErr
    /\ \A t \in Threads : InHandshake(t) \/ th[t].pc = "hsLock" => th[t].caller \in Callers[t]
    /\ \A t \in Threads : \A i \in DOMAIN th[t].recs :
          th[t].recs[i] \in {"hello", "finished"} => th[t].next \in Handshaking
    /\ c.hsErr => c.status = 0

(* Read is past its call of Handshake: it succeeded. *)
ReadInv ==
    /\ th["read"].pc \in {"rdIn", "rdLoop", "rdPeek", "renegotiate", "reLock"} => c.status = 1
    /\ Writing("read") /\ th["read"].next = "rdDone" => c.status = 1
    /\ th["read"].pc = "rdDone" => c.status = 1 \/ c.hsErr

(* How many records have got a number and are written or buffered *)
Out == Len(sent) + Len(c.buf)

(* c.out is held by a goroutine that writes a record; who writes without   *)
(* it writes the alert for an oversized message. Unless such a goroutine,  *)
(* or one that flushes, met another, the record being written has the next *)
(* sequence number, as long as the transport works.                        *)
OutInv ==
    /\ \A t \in Threads : c.out = t => th[t].pc = "transmit"
    /\ \A t \in Threads : th[t].pc = "number" \/ (th[t].pc = "transmit" /\ c.out # t) =>
          th[t].recs = <<"alert">> /\ th[t].next \in {"rdDone", "hsFail"}
    /\ ~c.raced => \A t \in Threads : Unlocked(t) => c.out = None
    /\ ~c.raced /\ ~peer.reset =>
          /\ \A k \in DOMAIN c.buf : c.buf[k].seq = Len(sent) + k - 1
          /\ (\A t \in Threads : th[t].pc # "transmit") => c.seq = Out
          /\ \A t \in Threads : th[t].pc = "number" => th[t].seq = Out
          /\ \A t \in Threads : th[t].pc = "transmit" => th[t].seq = Out /\ c.seq = Out + 1
    /\ WireOrder

(* Records are buffered from the answer of the server until the flush.     *)
BufferInv ==
    /\ ~c.buffering => c.buf = <<>>
    /\ \A t \in Threads :
          /\ th[t].pc \in {"flush", "flushing"} => c.buffering /\ c.buf # <<>>
          /\ th[t].pc = "flushing" => th[t].next \in {"hsOk", "hsFail"}
          /\ Writing(t) /\ th[t].next = "flush" => c.buffering

(* activeCall counts the Write in flight by two and Close by one. *)
ActiveInv == c.active \in (IF th["write"].pc \in {"off", "idle"} THEN {0, 1} ELSE {2, 3})

Last == {"data", "closeNotify"}

(* Data and a close_notify are chosen and written under one hold of c.out, *)
(* and only before a close_notify was sent or buffered.                    *)
CloseInv ==
    /\ (\E i \in DOMAIN sent : sent[i].type = "closeNotify") => c.closeSent
    /\ (\E k \in DOMAIN c.buf : c.buf[k].type = "closeNotify") => c.closeSent
    /\ \A t \in Threads : \A i \in DOMAIN th[t].recs :
          /\ th[t].recs[i] \in Last => c.out = t /\ ~c.closeSent
          /\ th[t].recs[i] = "closeNotify" => Len(th[t].recs) = 1
    /\ \A i \in DOMAIN sent : sent[i].type = "closeNotify" =>
          /\ \A j \in i + 1..Len(sent) : sent[j].type \notin Last
          /\ \A k \in DOMAIN c.buf : c.buf[k].type \notin Last
    /\ \A k \in DOMAIN c.buf : c.buf[k].type = "closeNotify" =>
          \A l \in k + 1..Len(c.buf) : c.buf[l].type \notin Last

(* c.in.err is permanent: who reads records, or is about to, has not met   *)
(* an error.                                                               *)
ErrorInv ==
    /\ \A t \in Threads :
          \/ th[t].pc \in {"hsIn", "hsRead", "rdPeek", "renegotiate", "reLock"}
          \/ Writing(t) /\ th[t].next = "hsRead"
          => c.inErr = None
    /\ c.status = 0 /\ ~c.hsErr /\ c.hsMutex = None => c.inErr = None
    /\ c.inErr = None => c.warn <= MaxWarn
    /\ th["read"].pc = "rdPeek" => c.input = None

DataIn(q) == {i \in 1..Len(q) : q[i] = "data"}

Pending == IF c.input = "data" THEN 1 ELSE 0

Failing(t) == th[t].pc = "hsFail" \/ (th[t].pc = "flushing" /\ th[t].next = "hsFail")

(* Until a record is rejected no data is lost, and at the end of the       *)
(* stream none is left.                                                    *)
StreamInv ==
    /\ \A i \in 1..Len(inq) : inq[i] = "closeNotify" => i = Len(inq) /\ peer.done
    /\ c.inErr # "err" => Len(got) + Pending + Cardinality(DataIn(inq)) = Len(peer.data)
    /\ c.inErr = "eof" => inq = <<>> /\ (peer.done \/ peer.closed)
    /\ c.inErr = "eof" => c.input # "data" \/ c.hsErr \/ \E t \in Threads : Failing(t)
    /\ th["read"].res = "eof" /\ th["read"].pc = "idle" =>
          Len(got) = Len(peer.data) /\ (peer.done \/ peer.closed)

(* The inductive invariant *)
Inv ==
    /\ ConnType /\ GoroutineType /\ TransportType
    /\ Control /\ MutexInv /\ ReadInv /\ OutInv /\ BufferInv /\ ActiveInv /\ CloseInv
    /\ ErrorInv /\ StreamInv

(* The goroutine of the handshake starts with DialWithDialer. *)
HandStarts == th["dial"].pc = "dial" => th["hand"].pc = "off"

-----------------------------------------------------------------------------
(* What a step leaves alone: every field of the Conn but those in F; every *)
(* other goroutine, and every field of goroutine t but those in F.         *)
KeepConn(F) ==
    \A f \in {"hsMutex", "in", "out", "active", "status", "hsErr", "handshakes", "inErr", "outErr",
              "closeSent", "warn", "input", "hand", "seq", "closed", "policy", "buffering", "buf", "raced"} \ F : c'[f] = c[f]

KeepThread(t, F) ==
    /\ \A u \in Threads \ {t} : th'[u] = th[u]
    /\ \A f \in {"pc", "recs", "next", "caller", "calls", "empty", "res", "seq"} \ F : th'[t][f] = th[t][f]

(* The record a goroutine writes, and those it goes on with *)
First(t) == Head(th[t].recs)

Rest(t) == Tail(th[t].recs)

More(t, broken) == Rest(t) # <<>> /\ ~broken

(* The goroutine reads a record, or is about to. *)
AtRecord(t) == Reading(t) \/ th[t].pc \in {"hsRead", "renegotiate"}

\* What Append does to the records of the transport and to the messages of the
\* handshake.
LEMMA Appended ==
    ASSUME NEW S, NEW q \in Seq(S), NEW x \in S
    PROVE  /\ Append(q, x) \in Seq(S) /\ Len(q) \in Nat /\ Len(Append(q, x)) = Len(q) + 1
           /\ DOMAIN q = 1..Len(q) /\ DOMAIN Append(q, x) = 1..Len(q) + 1
           /\ \A i \in 1..Len(q) : Append(q, x)[i] = q[i]
           /\ Append(q, x)[Len(q) + 1] = x
           /\ Append(q, x) # <<>>
  OBVIOUS

\* The number of data records on their way grows by one with each that is sent
\* (PeerSends).
LEMMA DataAppended ==
    ASSUME NEW S, NEW q \in Seq(S), NEW x \in S
    PROVE  /\ IsFiniteSet(DataIn(q)) /\ Cardinality(DataIn(q)) \in Nat
           /\ Cardinality(DataIn(Append(q, x))) = Cardinality(DataIn(q)) + (IF x = "data" THEN 1 ELSE 0)
<1>1. Len(q) \in Nat /\ IsFiniteSet(1..Len(q))
  BY FS_Interval
<1>2. IsFiniteSet(DataIn(q)) /\ Cardinality(DataIn(q)) \in Nat
  BY <1>1, FS_Subset, FS_CardinalityType DEF DataIn
<1>3. DataIn(Append(q, x)) = IF x = "data" THEN DataIn(q) \cup {Len(q) + 1} ELSE DataIn(q)
  BY <1>1, Appended DEF DataIn
<1>4. Len(q) + 1 \notin DataIn(q)
  BY <1>1 DEF DataIn
<1>5. Cardinality(DataIn(q) \cup {Len(q) + 1}) = Cardinality(DataIn(q)) + 1
  BY <1>2, <1>4, FS_AddElement
<1>. QED
  BY <1>2, <1>3, <1>5

\* And is one less when readRecord takes one.
LEMMA DataTaken ==
    ASSUME NEW S, NEW q \in Seq(S), q # <<>>
    PROVE  /\ Cardinality(DataIn(Tail(q))) \in Nat
           /\ Cardinality(DataIn(q)) = Cardinality(DataIn(Tail(q))) + (IF Head(q) = "data" THEN 1 ELSE 0)
<1>1. /\ Len(q) \in Nat /\ Len(q) > 0 /\ Len(Tail(q)) = Len(q) - 1 /\ Head(q) = q[1]
      /\ \A i \in 1..Len(q) - 1 : Tail(q)[i] = q[i + 1]
      /\ Tail(q) \in Seq(S)
  OBVIOUS
<1>2. IsFiniteSet(DataIn(Tail(q))) /\ Cardinality(DataIn(Tail(q))) \in Nat
  <2>1. IsFiniteSet(1..Len(Tail(q))) /\ DataIn(Tail(q)) \in SUBSET (1..Len(Tail(q)))
    BY <1>1, FS_Interval DEF DataIn
  <2>. QED
    BY <2>1, FS_Subset, FS_CardinalityType
<1>3. IsFiniteSet(DataIn(q)) /\ Cardinality(DataIn(q)) \in Nat
  <2>1. IsFiniteSet(1..Len(q)) /\ DataIn(q) \in SUBSET (1..Len(q))
    BY <1>1, FS_Interval DEF DataIn
  <2>. QED
    BY <2>1, FS_Subset, FS_CardinalityType
<1> DEFINE f == [i \in DataIn(Tail(q)) |-> i + 1]
<1>4. f \in Bijection(DataIn(Tail(q)), DataIn(q) \ {1})
  <2>1. f \in [DataIn(Tail(q)) -> DataIn(q) \ {1}]
    BY <1>1 DEF DataIn
  <2>2. \A i, j \in DataIn(Tail(q)) : f[i] = f[j] => i = j
    BY <1>1 DEF DataIn
  <2>3. \A k \in DataIn(q) \ {1} : \E i \in DataIn(Tail(q)) : f[i] = k
    <3> SUFFICES ASSUME NEW k \in DataIn(q) \ {1} PROVE \E i \in DataIn(Tail(q)) : f[i] = k
      OBVIOUS
    <3>1. k - 1 \in DataIn(Tail(q)) /\ (k - 1) + 1 = k
      BY <1>1 DEF DataIn
    <3>. QED
      BY <3>1
  <2>. QED
    BY <2>1, <2>2, <2>3 DEF Bijection, Injection, Surjection, IsInjective
<1>5. Cardinality(DataIn(q) \ {1}) = Cardinality(DataIn(Tail(q)))
  BY <1>2, <1>4, FS_Bijection DEF ExistsBijection
<1>6. 1 \in DataIn(q) <=> Head(q) = "data"
  BY <1>1 DEF DataIn
<1>7. Cardinality(DataIn(q) \ {1}) = IF 1 \in DataIn(q) THEN Cardinality(DataIn(q)) - 1 ELSE Cardinality(DataIn(q))
  BY <1>3, FS_RemoveElement
<1>. QED
  BY <1>2, <1>3, <1>5, <1>6, <1>7
-----------------------------------------------------------------------------
\* Who uses c.out without its lock runs clientHandshake, or is Read outside of
\* it.
LEMMA UnlockedWhere ==
    ASSUME Inv, NEW t \in Threads, Unlocked(t)
    PROVE  InHandshake(t) \/ (t = "read" /\ c.status = 1)
<1>1. CASE th[t].pc = "flushing"
  BY <1>1 DEF InHandshake
<1>2. CASE th[t].pc # "flushing"
  <2>1. /\ th[t].pc \in {"number", "transmit"} /\ Writing(t) /\ th[t].next \in {"rdDone", "hsFail"}
        /\ th[t].next \in Nexts[t]
    BY <1>2 DEF Inv, OutInv, Unlocked, At, Writing, Control
  <2>2. CASE th[t].next = "hsFail"
    BY <2>1, <2>2 DEF InHandshake, Handshaking
  <2>3. CASE th[t].next = "rdDone"
    <3>1. t = "read"
      BY <2>1, <2>3 DEF Nexts, Handshaking, Threads
    <3>. QED
      BY <2>1, <2>3, <3>1 DEF Inv, ReadInv
  <2>. QED
    BY <2>1, <2>2, <2>3
<1>. QED
  BY <1>1, <1>2

\* So there is only one.
LEMMA OneUnlocked ==
    ASSUME Inv, NEW t \in Threads, NEW u \in Threads, Unlocked(t), Unlocked(u)
    PROVE  t = u
<1>1. \A v \in Threads : InHandshake(v) => c.hsMutex = v /\ c.status = 0
  BY DEF Inv, MutexInv
<1>. QED
  BY <1>1, UnlockedWhere

\* As long as nobody met another there, one goroutine at a time is between taking
\* a sequence number and the end of its write or flush.
LEMMA Alone ==
    ASSUME Inv, ~c.raced, NEW t \in Threads, NEW u \in Threads,
           th[t].pc \in {"number", "transmit", "flushing"}, th[u].pc \in {"number", "transmit", "flushing"}
    PROVE  t = u
<1>1. \A v \in Threads : Unlocked(v) => c.out = None
  BY DEF Inv, OutInv
<1>2. (Unlocked(t) \/ c.out = t) /\ (Unlocked(u) \/ c.out = u) /\ None \notin Threads
  BY DEF Unlocked, At, Threads, None
<1>. QED
  BY <1>1, <1>2, OneUnlocked

\* A step that leaves the writers alone: who is between taking a number and the
\* end of its write stays there, and nobody gets there.
LEMMA WritersKept ==
    ASSUME Inv, UNCHANGED sent, peer'.reset = peer.reset,
           KeepConn({"hsMutex", "in", "active", "status", "hsErr", "handshakes", "inErr", "outErr", "warn",
                     "input", "hand", "closed", "buffering"}),
           c.buffering => c'.buffering,
           \A u \in Threads :
              \/ th'[u].pc = th[u].pc /\ th'[u].recs = th[u].recs /\ th'[u].next = th[u].next /\ th'[u].seq = th[u].seq
              \/ /\ th[u].pc \notin {"number", "transmit", "flushing"}
                 /\ th'[u].pc \notin {"number", "transmit", "flushing", "flush"}
                 /\ \A i \in DOMAIN th'[u].recs : th'[u].recs[i] \notin Last
                 /\ th'[u].pc = "out" /\ th'[u].next = "flush" => c'.buffering
    PROVE  OutInv' /\ BufferInv' /\ CloseInv'
<1>1. /\ c'.out = c.out /\ c'.seq = c.seq /\ c'.buf = c.buf /\ c'.raced = c.raced /\ c'.closeSent = c.closeSent
  BY DEF KeepConn
<1>2. \A u \in Threads :
         /\ th[u].pc \in {"number", "transmit", "flushing"} \/ th'[u].pc \in {"number", "transmit", "flushing"} =>
               th'[u].pc = th[u].pc /\ th'[u].recs = th[u].recs /\ th'[u].next = th[u].next /\ th'[u].seq = th[u].seq
         /\ th'[u].pc = "flush" => th[u].pc = "flush"
         /\ Unlocked(u)' <=> Unlocked(u)
  BY <1>1 DEF Unlocked, At
<1>3. OutInv'
  <2>1. OutInv
    BY DEF Inv
  <2>2. WireOrder' /\ Out' = Out
    BY <1>1, <2>1 DEF OutInv, WireOrder, Out
  <2>3. /\ \A u \in Threads : c'.out = u => th'[u].pc = "transmit"
        /\ \A u \in Threads : th'[u].pc = "number" \/ (th'[u].pc = "transmit" /\ c'.out # u) =>
              th'[u].recs = <<"alert">> /\ th'[u].next \in {"rdDone", "hsFail"}
        /\ ~c'.raced => \A u \in Threads : Unlocked(u)' => c'.out = None
    BY <1>1, <1>2, <2>1 DEF OutInv
  <2>4. ~c'.raced /\ ~peer'.reset =>
          /\ \A k \in DOMAIN c'.buf : c'.buf[k].seq = Len(sent') + k - 1
          /\ (\A u \in Threads : th'[u].pc # "transmit") => c'.seq = Out'
          /\ \A u \in Threads : th'[u].pc = "number" => th'[u].seq = Out'
          /\ \A u \in Threads : th'[u].pc = "transmit" => th'[u].seq = Out' /\ c'.seq = Out' + 1
    BY <1>1, <1>2, <2>1, <2>2 DEF OutInv
  <2>. QED
    BY <2>2, <2>3, <2>4 DEF OutInv
<1>4. BufferInv'
  <2>1. BufferInv
    BY DEF Inv
  <2>2. \A u \in Threads : Writing(u)' /\ th'[u].next = "flush" => c'.buffering
    BY <2>1 DEF BufferInv, Writing
  <2>. QED
    BY <1>1, <1>2, <2>1, <2>2 DEF BufferInv
<1>5. CloseInv'
  <2>1. CloseInv
    BY DEF Inv
  <2>2. \A u \in Threads : \A i \in DOMAIN th'[u].recs :
          /\ th'[u].recs[i] \in Last => c'.out = u /\ ~c'.closeSent
          /\ th'[u].recs[i] = "closeNotify" => Len(th'[u].recs) = 1
    <3> SUFFICES ASSUME NEW u \in Threads, NEW i \in DOMAIN th'[u].recs, th'[u].recs[i] \in Last
                 PROVE  c'.out = u /\ ~c'.closeSent /\ (th'[u].recs[i] = "closeNotify" => Len(th'[u].recs) = 1)
      BY DEF Last
    <3>1. th'[u].recs = th[u].recs
      OBVIOUS
    <3>. QED
      BY <1>1, <2>1, <3>1 DEF CloseInv
  <2>. QED
    BY <1>1, <2>1, <2>2 DEF CloseInv
<1>. QED
  BY <1>3, <1>4, <1>5

\* The same for the step of one goroutine.
LEMMA Beside ==
    ASSUME Inv, NEW t \in Threads, UNCHANGED sent, peer'.reset = peer.reset,
           KeepConn({"hsMutex", "in", "active", "status", "hsErr", "handshakes", "inErr", "outErr", "warn",
                     "input", "hand", "closed", "buffering"}),
           c.buffering => c'.buffering,
           \A u \in Threads \ {t} : th'[u] = th[u],
           th[t].pc \notin {"number", "transmit", "flushing"},
           th'[t].pc \notin {"number", "transmit", "flushing", "flush"},
           th'[t].recs = th[t].recs \/ \A i \in DOMAIN th'[t].recs : th'[t].recs[i] \notin Last,
           th'[t].pc = "out" /\ th'[t].next = "flush" => c'.buffering
    PROVE  OutInv' /\ BufferInv' /\ CloseInv'
<1>1. \A i \in DOMAIN th[t].recs : th[t].recs[i] \notin Last
  BY DEF Inv, CloseInv, OutInv
<1>2. \A i \in DOMAIN th'[t].recs : th'[t].recs[i] \notin Last
  BY <1>1
<1>. QED
  BY <1>2, WritersKept

\* A goroutine takes c.out and the next sequence number: it is alone, or the race
\* is noted.
LEMMA NumberTaken ==
    ASSUME Inv, NEW t \in Threads, c.out = None, th[t].pc \notin {"number", "transmit", "flushing"},
           UNCHANGED sent, peer'.reset = peer.reset,
           KeepConn({"out", "seq", "raced"}), c'.out = t, c'.seq = c.seq + 1,
           c'.raced = (c.raced \/ \E u \in Threads : Unlocked(u)),
           \A u \in Threads \ {t} : th'[u] = th[u],
           th'[t].pc = "transmit", th'[t].seq = c.seq
    PROVE  OutInv'
<1> USE DEF Threads, None
<1>1. c'.buf = c.buf /\ OutInv
  BY DEF Inv, KeepConn
<1>2. WireOrder' /\ Out' = Out
  BY <1>1 DEF OutInv, WireOrder, Out
<1>3. \A u \in Threads \ {t} : c'.out # u /\ c.out # u /\ (Unlocked(u)' <=> Unlocked(u))
  BY DEF Unlocked, At
<1>4. /\ \A u \in Threads : c'.out = u => th'[u].pc = "transmit"
      /\ \A u \in Threads : th'[u].pc = "number" \/ (th'[u].pc = "transmit" /\ c'.out # u) =>
            th'[u].recs = <<"alert">> /\ th'[u].next \in {"rdDone", "hsFail"}
  BY <1>1, <1>3 DEF OutInv
<1>5. ASSUME ~c'.raced PROVE \A u \in Threads : ~Unlocked(u)' /\ (u # t => th'[u].pc \notin {"number", "transmit"})
  BY <1>3, <1>5 DEF Unlocked, At
<1>6. ASSUME ~c'.raced, ~peer'.reset
      PROVE  /\ \A k \in DOMAIN c'.buf : c'.buf[k].seq = Len(sent') + k - 1
             /\ c'.seq = Out' + 1 /\ th'[t].seq = Out'
  <2>1. \A u \in Threads : th[u].pc # "transmit"
    BY <1>5, <1>6
  <2>. QED
    BY <1>1, <1>2, <1>6, <2>1 DEF OutInv
<1>7. ~c'.raced /\ ~peer'.reset =>
          /\ \A k \in DOMAIN c'.buf : c'.buf[k].seq = Len(sent') + k - 1
          /\ (\A u \in Threads : th'[u].pc # "transmit") => c'.seq = Out'
          /\ \A u \in Threads : th'[u].pc = "number" => th'[u].seq = Out'
          /\ \A u \in Threads : th'[u].pc = "transmit" => th'[u].seq = Out' /\ c'.seq = Out' + 1
  BY <1>5, <1>6
<1>. QED
  BY <1>2, <1>4, <1>5, <1>7 DEF OutInv

\* A goroutine takes c.out: nobody else writes, and its record gets the next
\* sequence number.
LEMMA LockOutStep == ASSUME Inv, NEW t \in Threads, LockOut(t) PROVE Inv'
<1>0. ConnType' /\ GoroutineType'
  <2>0. ConnType /\ GoroutineType
    BY DEF Inv
  <2> DEFINE x == c.raced \/ \E u \in Threads : Unlocked(u)
  <2>1. c.seq \in Nat /\ c.seq + 1 \in Nat /\ c' = [c EXCEPT !.out = t, !.seq = c.seq + 1, !.raced = x] /\ x \in BOOLEAN
    BY <2>0 DEF LockOut, TakeOut, ConnType
  <2>2. "transmit" \in Names /\ th' = [th EXCEPT ![t].pc = "transmit", ![t].seq = c.seq]
    BY DEF LockOut, Names
  <2> HIDE DEF x
  <2>3. ConnType'
    BY <2>0, <2>1 DEF ConnType
  <2>4. GoroutineType'
    BY <2>0, <2>1, <2>2 DEF GoroutineType
  <2>. QED
    BY <2>3, <2>4
<1> USE ConnAssumption DEF Inv, Threads, None
<1>1. /\ KeepConn({"out", "seq", "raced"}) /\ c'.out = t /\ c'.seq = c.seq + 1
      /\ c'.raced = (c.raced \/ \E u \in Threads : Unlocked(u))
  <2> DEFINE x == c.raced \/ \E u \in Threads : Unlocked(u)
  <2>1. c' = [c EXCEPT !.out = t, !.seq = c.seq + 1, !.raced = x]
    BY DEF LockOut, TakeOut, ConnType
  <2> HIDE DEF x
  <2>2. KeepConn({"out", "seq", "raced"}) /\ c'.out = t /\ c'.seq = c.seq + 1 /\ c'.raced = x
    BY <2>1 DEF ConnType, KeepConn
  <2>. QED
    BY <2>2 DEF x
<1>2. KeepThread(t, {"pc", "seq"}) /\ th'[t].pc = "transmit" /\ th'[t].seq = c.seq
  BY DEF LockOut, GoroutineType, KeepThread
<1>3. th[t].pc = "out" /\ c.out = None /\ sent' = sent /\ inq' = inq /\ peer' = peer /\ got' = got
  BY DEF LockOut, At, NoIO
<1>7. OutInv'
  BY <1>1, <1>2, <1>3, NumberTaken DEF KeepThread
<1> USE DEF KeepConn, KeepThread
<1>4. TransportType'
  BY DEF LockOut, NoIO, TransportType
<1>5. Control' /\ ReadInv' /\ ActiveInv'
  BY <1>1, <1>2, <1>3 DEF Control, ReadInv, ActiveInv, Writing, Nexts, Points
<1>6. MutexInv'
  BY <1>1, <1>2, <1>3 DEF MutexInv, InHandshake, Writing, Handshaking
<1>8. CloseInv'
  <2>1. \A u \in Threads : th'[u].recs = th[u].recs
    BY <1>2
  <2>2. \A u \in Threads : \A i \in DOMAIN th[u].recs : th[u].recs[i] \notin Last
    BY <1>3 DEF CloseInv
  <2>3. \A u \in Threads : \A i \in DOMAIN th'[u].recs : th'[u].recs[i] \notin Last
    BY <2>1, <2>2
  <2>. QED
    BY <1>1, <1>3, <2>3 DEF CloseInv, Last
<1>12. BufferInv'
  BY <1>1, <1>2, <1>3 DEF BufferInv, Writing
<1>9. ErrorInv'
  BY <1>1, <1>2, <1>3 DEF ErrorInv, Writing
<1>10. StreamInv'
  <2>1. \A u \in Threads : Failing(u) => Failing(u)'
    BY <1>2, <1>3 DEF Failing
  <2>. QED
    BY <1>1, <1>2, <1>3, <2>1 DEF StreamInv, Pending, DataIn
<1>11. QED
  BY <1>0, <1>4, <1>5, <1>6, <1>7, <1>8, <1>9, <1>10, <1>12

\* The number of the alert is counted, over what another may have counted since.
LEMMA NumberUnlockedStep == ASSUME Inv, NEW t \in Threads, NumberUnlocked(t) PROVE Inv'
<1>1. PICK n \in {c.seq + 1, th[t].seq + 1} : c' = [c EXCEPT !.seq = n]
  BY DEF NumberUnlocked
<1>2. /\ ConnType /\ GoroutineType /\ TransportType /\ th[t].pc = "number" /\ th' = [th EXCEPT ![t].pc = "transmit"]
      /\ "transmit" \in Names /\ NoIO /\ UNCHANGED <<sent, peer, got, inq>>
  BY DEF Inv, NumberUnlocked, At, Goto, NoIO, Names
<1>3. n \in Nat
  <2>1. c.seq \in Nat /\ th[t].seq \in Nat
    BY <1>2 DEF ConnType, GoroutineType
  <2>. QED
    BY <1>1, <2>1
<1>4. ConnType' /\ KeepConn({"seq"}) /\ c'.seq = n
  BY <1>1, <1>2, <1>3 DEF ConnType, KeepConn
<1>5. GoroutineType' /\ KeepThread(t, {"pc"}) /\ th'[t].pc = "transmit"
  BY <1>2 DEF GoroutineType, KeepThread
<1>6. TransportType'
  BY <1>2 DEF NoIO, TransportType
<1>7. OutInv'
  <2>1. OutInv /\ None \notin Threads
    BY DEF Inv, Threads, None
  <2>2. /\ c'.out = c.out /\ c'.buf = c.buf /\ c'.raced = c.raced /\ th'[t].seq = th[t].seq /\ th'[t].recs = th[t].recs
        /\ th'[t].next = th[t].next /\ \A u \in Threads \ {t} : th'[u] = th[u]
    BY <1>4, <1>5 DEF KeepConn, KeepThread
  <2>3. WireOrder' /\ Out' = Out /\ c.out # t
    BY <1>2, <2>1, <2>2 DEF OutInv, WireOrder, Out
  <2>4. \A u \in Threads : Unlocked(u)' <=> Unlocked(u)
    BY <1>2, <1>5, <2>2, <2>3 DEF Unlocked, At
  <2>5. /\ \A u \in Threads : c'.out = u => th'[u].pc = "transmit"
        /\ \A u \in Threads : th'[u].pc = "number" \/ (th'[u].pc = "transmit" /\ c'.out # u) =>
              th'[u].recs = <<"alert">> /\ th'[u].next \in {"rdDone", "hsFail"}
        /\ ~c'.raced => \A u \in Threads : Unlocked(u)' => c'.out = None
    BY <1>2, <1>5, <2>1, <2>2, <2>4 DEF OutInv
  <2>6. ASSUME ~c.raced, ~peer.reset
        PROVE  /\ \A u \in Threads \ {t} : th[u].pc \notin {"number", "transmit"}
               /\ th[t].seq = Out /\ n = Out + 1
    <3>1. \A u \in Threads \ {t} : th[u].pc \notin {"number", "transmit"}
      BY <1>2, <2>6, Alone
    <3>2. \A u \in Threads : th[u].pc # "transmit"
      BY <1>2, <3>1
    <3>3. c.seq = Out /\ th[t].seq = Out
      BY <1>2, <2>1, <2>6, <3>2 DEF OutInv
    <3>. QED
      BY <3>1, <3>3
  <2>7. ~c'.raced /\ ~peer'.reset =>
          /\ \A k \in DOMAIN c'.buf : c'.buf[k].seq = Len(sent') + k - 1
          /\ (\A u \in Threads : th'[u].pc # "transmit") => c'.seq = Out'
          /\ \A u \in Threads : th'[u].pc = "number" => th'[u].seq = Out'
          /\ \A u \in Threads : th'[u].pc = "transmit" => th'[u].seq = Out' /\ c'.seq = Out' + 1
    BY <1>2, <1>4, <1>5, <2>1, <2>2, <2>3, <2>6 DEF OutInv
  <2>. QED
    BY <2>3, <2>5, <2>7 DEF OutInv
<1> USE DEF KeepConn, KeepThread, Threads, None
<1>8. Control' /\ ReadInv' /\ ActiveInv'
  BY <1>2, <1>4, <1>5 DEF Inv, Control, ReadInv, ActiveInv, Writing, Nexts, Points
<1>9. MutexInv'
  BY <1>2, <1>4, <1>5 DEF Inv, MutexInv, InHandshake, Writing, Handshaking
<1>10. BufferInv'
  BY <1>2, <1>4, <1>5 DEF Inv, BufferInv, Writing
<1>11. CloseInv'
  <2>1. \A u \in Threads : th'[u].recs = th[u].recs
    BY <1>5
  <2>. QED
    BY <1>2, <1>4, <2>1 DEF Inv, CloseInv
<1>12. ErrorInv'
  BY <1>2, <1>4, <1>5 DEF Inv, ErrorInv, Writing
<1>13. StreamInv'
  <2>1. \A u \in Threads : Failing(u) => Failing(u)'
    BY <1>2, <1>5 DEF Failing
  <2>. QED
    BY <1>2, <1>4, <1>5, <2>1 DEF Inv, StreamInv, Pending, DataIn
<1>. QED
  BY <1>4, <1>5, <1>6, <1>7, <1>8, <1>9, <1>10, <1>11, <1>12, <1>13 DEF Inv

(* The Conn and the goroutine after Conn.write: the goroutine goes on with *)
(* its next record under the same hold of c.out, or releases it.           *)
WrittenResult(t, broken, buf) ==
    /\ First(t) \in Records /\ Rest(t) \in Seq(Records) /\ th[t].recs # <<>> /\ First(t) = th[t].recs[1]
    /\ 1 \in DOMAIN th[t].recs
    /\ \A i \in DOMAIN Rest(t) : i + 1 \in DOMAIN th[t].recs /\ Rest(t)[i] = th[t].recs[i + 1]
    /\ Len(Rest(t)) = Len(th[t].recs) - 1 /\ Len(th[t].recs) \in Nat
    /\ More(t, broken) => c.out = t
    /\ ConnType' /\ KeepConn({"out", "seq", "outErr", "closeSent", "buf"})
    /\ c'.out = (IF More(t, broken) \/ c.out # t THEN c.out ELSE None)
    /\ c'.seq = (IF More(t, broken) THEN c.seq + 1 ELSE c.seq)
    /\ c'.closeSent = (c.closeSent \/ First(t) = "closeNotify")
    /\ c'.buf = buf
    /\ GoroutineType' /\ KeepThread(t, {"recs", "seq", "next", "pc"})
    /\ th'[t].recs = (IF More(t, broken) THEN Rest(t) ELSE <<>>)
    /\ More(t, broken) => th'[t].seq = c.seq /\ th'[t].next = th[t].next /\ th'[t].pc = "transmit"
    /\ ~More(t, broken) => th'[t].pc = IF broken /\ First(t) = "hello" THEN "hsFail" ELSE th[t].next

\* writeRecordLocked goes on so after Conn.write.
LEMMA WrittenFacts ==
    ASSUME Inv, NEW t \in Threads, th[t].pc = "transmit", NEW broken \in BOOLEAN,
           NEW buf \in Seq([type : Records, seq : Nat]), Written(t, broken, buf)
    PROVE  WrittenResult(t, broken, buf)
<1> DEFINE r == First(t)
           rest == Rest(t)
           more == More(t, broken)
<1>1. ConnType /\ GoroutineType /\ c.seq \in Nat /\ th[t].next \in Names
  BY DEF Inv, ConnType, GoroutineType
<1>2. /\ th[t].recs \in Seq(Records) /\ th[t].recs # <<>> /\ r \in Records /\ rest \in Seq(Records)
      /\ r = th[t].recs[1] /\ Len(rest) = Len(th[t].recs) - 1 /\ Len(th[t].recs) \in Nat
      /\ \A i \in DOMAIN rest : i + 1 \in DOMAIN th[t].recs /\ rest[i] = th[t].recs[i + 1]
      /\ 1 \in DOMAIN th[t].recs
  <2>1. th[t].recs \in Seq(Records) /\ th[t].recs # <<>>
    BY <1>1 DEF Inv, GoroutineType, Control, Writing
  <2>. QED
    BY <2>1 DEF First, Rest
<1>3. more => c.out = t
  <2>1. c.out # t => th[t].recs = <<"alert">>
    BY DEF Inv, OutInv
  <2>2. Len(<<"alert">>) = 1
    OBVIOUS
  <2>3. c.out # t => Len(rest) = 0
    <3>1. c.out # t => Len(th[t].recs) = 1
      BY <2>1, <2>2
    <3>2. Len(rest) = Len(th[t].recs) - 1 /\ Len(th[t].recs) \in Nat
      BY <1>2
    <3> HIDE DEF rest
    <3>. QED
      BY <3>1, <3>2
  <2>. QED
    BY <1>2, <2>3 DEF More
<1> DEFINE o == IF more \/ c.out # t THEN c.out ELSE None
           s == IF more THEN c.seq + 1 ELSE c.seq
           e == c.outErr \/ r \in {"alert", "noRenegotiation"} \/ (broken /\ r = "data")
           n == c.closeSent \/ r = "closeNotify"
<1>4. o \in Threads \cup {None} /\ s \in Nat /\ e \in BOOLEAN /\ n \in BOOLEAN
  BY <1>1 DEF ConnType
<1>5. c' = [c EXCEPT !.out = o, !.seq = s, !.outErr = e, !.closeSent = n, !.buf = buf]
  BY <1>1 DEF Written, Released, ConnType, First, Rest, More
<1> DEFINE q == IF more THEN rest ELSE <<>>
           k == IF more THEN c.seq ELSE 0
           m == IF more THEN th[t].next ELSE None
           p == IF more THEN "transmit" ELSE IF broken /\ r = "hello" THEN "hsFail" ELSE th[t].next
<1>6. q \in Seq(Records) /\ k \in Nat /\ m \in Names /\ p \in Names
  BY <1>1, <1>2 DEF Names
<1>7. th' = [th EXCEPT ![t] = [th[t] EXCEPT !.recs = q, !.seq = k, !.next = m, !.pc = p]]
  BY <1>1 DEF Written, GoroutineType, First, Rest, More
<1> HIDE DEF o, s, e, n, q, k, m, p
<1>8. /\ ConnType' /\ KeepConn({"out", "seq", "outErr", "closeSent", "buf"})
      /\ c'.out = o /\ c'.seq = s /\ c'.closeSent = n /\ c'.buf = buf
  BY <1>1, <1>4, <1>5 DEF ConnType, KeepConn
<1>9. /\ GoroutineType' /\ KeepThread(t, {"recs", "seq", "next", "pc"})
      /\ th'[t].recs = q /\ th'[t].seq = k /\ th'[t].next = m /\ th'[t].pc = p
  BY <1>1, <1>6, <1>7 DEF GoroutineType, KeepThread
<1>. QED
  BY <1>2, <1>3, <1>8, <1>9 DEF o, s, n, q, k, m, p, WrittenResult

\* What does not depend on where the record went.
LEMMA WrittenStep ==
    ASSUME Inv, NEW t \in Threads, th[t].pc = "transmit", NEW broken \in BOOLEAN,
           NEW buf \in Seq([type : Records, seq : Nat]), Written(t, broken, buf),
           UNCHANGED <<inq, got>>, peer'.data = peer.data, peer'.done = peer.done, peer'.closed = peer.closed
    PROVE  Control' /\ ReadInv' /\ ActiveInv' /\ MutexInv' /\ ErrorInv' /\ StreamInv'
<1>0. WrittenResult(t, broken, buf)
  BY WrittenFacts
<1> USE DEF KeepConn, KeepThread, Threads, None
<1>1. /\ First(t) \in {"hello", "finished"} => th[t].next \in Handshaking
      /\ th[t].next \in Nexts[t]
  BY <1>0 DEF Inv, MutexInv, Control, Writing, WrittenResult
<1>2. /\ \A u \in Threads \ {t} : th'[u] = th[u]
      /\ th'[t].caller = th[t].caller /\ th'[t].res = th[t].res
      /\ \/ th'[t].pc = "transmit" /\ th'[t].recs = Rest(t) /\ Rest(t) # <<>> /\ th'[t].next = th[t].next
         \/ th'[t].pc = "hsFail" /\ th'[t].recs = <<>> /\ th[t].next \in Handshaking
         \/ th'[t].pc = th[t].next /\ th'[t].recs = <<>>
      /\ c'.hsMutex = c.hsMutex /\ c'.status = c.status /\ c'.hsErr = c.hsErr /\ c'.active = c.active
      /\ c'.inErr = c.inErr /\ c'.warn = c.warn /\ c'.input = c.input /\ c'.hand = c.hand
  <2>1. KeepConn({"out", "seq", "outErr", "closeSent", "buf"}) /\ KeepThread(t, {"recs", "seq", "next", "pc"})
    BY <1>0 DEF WrittenResult
  <2>2. /\ th'[t].recs = (IF More(t, broken) THEN Rest(t) ELSE <<>>)
        /\ More(t, broken) => th'[t].next = th[t].next /\ th'[t].pc = "transmit"
        /\ ~More(t, broken) => th'[t].pc = IF broken /\ First(t) = "hello" THEN "hsFail" ELSE th[t].next
    BY <1>0 DEF WrittenResult
  <2>. QED
    BY <1>1, <2>1, <2>2 DEF More
<1>3. Control'
  BY <1>1, <1>2 DEF Inv, Control, Writing, Nexts, Points, Handshaking
<1>4. ReadInv'
  BY <1>1, <1>2 DEF Inv, Control, ReadInv, Writing, Nexts, Handshaking
<1>5. ActiveInv'
  BY <1>1, <1>2 DEF Inv, Control, ActiveInv, Nexts, Handshaking
<1>6. MutexInv'
  <2>1. \A u \in Threads : InHandshake(u)' <=> InHandshake(u)
    BY <1>1, <1>2 DEF InHandshake, Writing, Handshaking, Nexts
  <2>2. \A u \in Threads : th'[u].pc = "hsLock" => th[u].pc = "hsLock"
    BY <1>1, <1>2 DEF Nexts, Handshaking
  <2>3. \A u \in Threads : \A i \in DOMAIN th'[u].recs :
            th'[u].recs[i] \in {"hello", "finished"} => th'[u].next \in Handshaking
    <3>1. \A u \in Threads : \A i \in DOMAIN th[u].recs :
            th[u].recs[i] \in {"hello", "finished"} => th[u].next \in Handshaking
      BY DEF Inv, MutexInv
    <3>2. SUFFICES ASSUME NEW u \in Threads, NEW i \in DOMAIN th'[u].recs,
                          th'[u].recs[i] \in {"hello", "finished"}
                   PROVE  th'[u].next \in Handshaking
      OBVIOUS
    <3>3. CASE u = t
      <4>1. th'[t].recs = Rest(t) /\ th'[t].next = th[t].next
        BY <1>2, <3>2, <3>3
      <4>2. i \in DOMAIN Rest(t) /\ th[t].recs[i + 1] \in {"hello", "finished"} /\ i + 1 \in DOMAIN th[t].recs
        BY <3>2, <3>3, <4>1, <1>0 DEF WrittenResult
      <4>. QED
        BY <3>1, <3>3, <4>1, <4>2
    <3>4. CASE u # t
      <4>1. th'[u] = th[u]
        BY <1>2, <3>4
      <4>. QED
        BY <3>1, <3>2, <4>1
    <3>. QED
      BY <3>3, <3>4
  <2>. QED
    BY <1>2, <2>1, <2>2, <2>3 DEF Inv, MutexInv
<1>7. ErrorInv'
  BY <1>1, <1>2 DEF Inv, ErrorInv, Writing, Nexts, Handshaking
<1>8. StreamInv'
  <2>1. (\E u \in Threads : Failing(u)) => \E u \in Threads : Failing(u)'
    BY <1>2 DEF Failing
  <2>2. /\ th'["read"].res = th["read"].res
        /\ th'["read"].pc = "idle" => th["read"].pc = "idle"
    BY <1>1, <1>2 DEF Nexts, Handshaking
  <2>. QED
    BY <1>2, <2>1, <2>2 DEF Inv, StreamInv, Pending, DataIn
<1>. QED
  BY <1>3, <1>4, <1>5, <1>6, <1>7, <1>8

\* The number of the record is the next one, unless the transport is broken or
\* somebody wrote without c.out.
LEMMA WrittenOut ==
    ASSUME Inv, NEW t \in Threads, th[t].pc = "transmit", NEW broken \in BOOLEAN,
           NEW buf \in Seq([type : Records, seq : Nat]), Written(t, broken, buf), WireOrder',
           ~c.raced /\ ~peer'.reset =>
              /\ ~peer.reset /\ Out' = Out + 1
              /\ \A k \in DOMAIN c'.buf : c'.buf[k].seq = Len(sent') + k - 1
    PROVE  OutInv'
<1>0. WrittenResult(t, broken, buf)
  BY WrittenFacts
<1> USE DEF KeepConn, KeepThread, Threads, None
<1>1. /\ \A u \in Threads \ {t} : th'[u] = th[u] /\ (c'.out = u <=> c.out = u)
      /\ c'.raced = c.raced
      /\ More(t, broken) => /\ c.out = t /\ c'.out = t /\ th'[t].seq = c.seq /\ th'[t].pc = "transmit"
                            /\ c'.seq = c.seq + 1
      /\ ~More(t, broken) => c'.out # t /\ c'.seq = c.seq
  BY <1>0 DEF WrittenResult
<1>2. ~More(t, broken) => th'[t].pc \notin {"number", "transmit", "flushing"}
  <2>1. th[t].next \in Nexts[t]
    BY DEF Inv, Control, Writing
  <2>2. ~More(t, broken) => th'[t].pc \in {"hsFail", th[t].next}
    BY <1>0 DEF WrittenResult
  <2>. QED
    BY <2>1, <2>2 DEF Nexts, Handshaking
<1>3. OutInv /\ Out \in Nat /\ c.seq \in Nat
  <2>1. Len(sent) \in Nat /\ Len(c.buf) \in Nat /\ c.seq \in Nat
    BY DEF Inv, TransportType, ConnType
  <2>. QED
    BY <2>1 DEF Inv, Out
<1>4. /\ \A u \in Threads : c'.out = u => th'[u].pc = "transmit"
      /\ \A u \in Threads : th'[u].pc = "number" \/ (th'[u].pc = "transmit" /\ c'.out # u) =>
            th'[u].recs = <<"alert">> /\ th'[u].next \in {"rdDone", "hsFail"}
  BY <1>1, <1>2, <1>3 DEF OutInv
<1>5. ~c.raced => \A u \in Threads \ {t} : th'[u].pc \notin {"number", "transmit", "flushing"}
  BY <1>1, Alone
<1>6. ~c'.raced => \A u \in Threads : ~Unlocked(u)'
  BY <1>1, <1>2, <1>5 DEF Unlocked, At
<1>7. ASSUME ~c'.raced, ~peer'.reset
      PROVE  /\ (\A u \in Threads : th'[u].pc # "transmit") => c'.seq = Out'
             /\ \A u \in Threads : th'[u].pc # "number"
             /\ \A u \in Threads : th'[u].pc = "transmit" => th'[u].seq = Out' /\ c'.seq = Out' + 1
  <2>1. c.seq = Out + 1 /\ Out' = Out + 1
    BY <1>1, <1>3, <1>7 DEF OutInv
  <2>. QED
    BY <1>1, <1>2, <1>3, <1>5, <1>7, <2>1
<1>8. ~c'.raced /\ ~peer'.reset =>
          /\ \A k \in DOMAIN c'.buf : c'.buf[k].seq = Len(sent') + k - 1
          /\ (\A u \in Threads : th'[u].pc # "transmit") => c'.seq = Out'
          /\ \A u \in Threads : th'[u].pc = "number" => th'[u].seq = Out'
          /\ \A u \in Threads : th'[u].pc = "transmit" => th'[u].seq = Out' /\ c'.seq = Out' + 1
  BY <1>1, <1>7
<1>. QED
  BY <1>4, <1>6, <1>8 DEF OutInv

\* The records that the goroutine still has to write follow the same rule for a
\* close_notify.
LEMMA WrittenRecs ==
    ASSUME Inv, NEW t \in Threads, th[t].pc = "transmit", NEW broken \in BOOLEAN,
           NEW buf \in Seq([type : Records, seq : Nat]), Written(t, broken, buf)
    PROVE  /\ \A u \in Threads : \A i \in DOMAIN th'[u].recs :
                 /\ th'[u].recs[i] \in Last => c'.out = u /\ ~c'.closeSent
                 /\ th'[u].recs[i] = "closeNotify" => Len(th'[u].recs) = 1
           /\ First(t) \in Last => ~c.closeSent
<1>0. WrittenResult(t, broken, buf)
  BY WrittenFacts
<1> USE DEF KeepConn, KeepThread, Threads, None
<1>1. /\ \A u \in Threads : \A i \in DOMAIN th[u].recs :
           /\ th[u].recs[i] \in Last => c.out = u /\ ~c.closeSent
           /\ th[u].recs[i] = "closeNotify" => Len(th[u].recs) = 1
  BY DEF Inv, CloseInv
<1>2. /\ 1 \in DOMAIN th[t].recs /\ First(t) = th[t].recs[1]
      /\ \A i \in DOMAIN Rest(t) : i + 1 \in DOMAIN th[t].recs /\ Rest(t)[i] = th[t].recs[i + 1]
      /\ Len(Rest(t)) = Len(th[t].recs) - 1 /\ Len(th[t].recs) \in Nat /\ Rest(t) \in Seq(Records)
  BY <1>0 DEF WrittenResult
<1>3. /\ \A u \in Threads \ {t} : th'[u] = th[u] /\ (c.out = u => c'.out = u)
      /\ c'.closeSent = (c.closeSent \/ First(t) = "closeNotify")
      /\ th'[t].recs = (IF More(t, broken) THEN Rest(t) ELSE <<>>)
      /\ More(t, broken) => c'.out = t
  BY <1>0 DEF WrittenResult
<1>4. First(t) \in Last => c.out = t /\ ~c.closeSent
  BY <1>1, <1>2
<1>5. First(t) = "closeNotify" => Rest(t) = <<>>
  <2>1. First(t) = "closeNotify" => Len(th[t].recs) = 1
    BY <1>1, <1>2
  <2>2. First(t) = "closeNotify" => Len(Rest(t)) = 0
    BY <1>2, <2>1
  <2>. QED
    BY <1>2, <2>2
<1>6. \A i \in DOMAIN Rest(t) : Rest(t)[i] # "closeNotify" /\ (Rest(t)[i] \in Last => ~c.closeSent)
  <2>1. SUFFICES ASSUME NEW i \in DOMAIN Rest(t)
                 PROVE  Rest(t)[i] # "closeNotify" /\ (Rest(t)[i] \in Last => ~c.closeSent)
    OBVIOUS
  <2>2. Len(th[t].recs) # 1
    BY <1>2, <2>1
  <2>. QED
    BY <1>1, <1>2, <2>1, <2>2
<1>7. ASSUME NEW u \in Threads, NEW i \in DOMAIN th'[u].recs
      PROVE  /\ th'[u].recs[i] \in Last => c'.out = u /\ ~c'.closeSent
             /\ th'[u].recs[i] = "closeNotify" => Len(th'[u].recs) = 1
  <2>1. CASE u = t
    <3>1. th'[t].recs = Rest(t) /\ More(t, broken) /\ i \in DOMAIN Rest(t)
      BY <1>3, <1>7, <2>1
    <3>2. First(t) # "closeNotify"
      BY <1>5, <3>1 DEF More
    <3>. QED
      BY <1>3, <1>6, <2>1, <3>1, <3>2
  <2>2. CASE u # t
    <3>1. th'[u] = th[u]
      BY <1>3, <2>2
    <3>2. th[u].recs[i] \in Last => c.out = u /\ ~c.closeSent /\ First(t) # "closeNotify"
      BY <1>1, <1>4, <1>7, <2>2, <3>1 DEF Last
    <3>. QED
      BY <1>1, <1>3, <1>7, <2>2, <3>1, <3>2
  <2>. QED
    BY <2>1, <2>2
<1>. QED
  BY <1>4, <1>7

\* A record reaches the transport or is lost with it.
LEMMA TransmitStep == ASSUME Inv, NEW t \in Threads, Transmit(t) PROVE Inv'
<1> DEFINE S == [type : Records, seq : Nat]
<1>1. /\ th[t].pc = "transmit" /\ ConnType /\ GoroutineType /\ TransportType /\ c.buf \in Seq(S)
      /\ UNCHANGED <<inq, got, timer, errs>> /\ OutInv /\ BufferInv /\ CloseInv
  BY DEF Inv, Transmit, At, ConnType
<1>2. PICK broken \in BOOLEAN : Works(broken) /\ Carries(Record(t), broken) /\ Written(t, broken, c.buf)
  BY DEF Transmit
<1>0. WrittenResult(t, broken, c.buf)
  BY <1>1, <1>2, WrittenFacts DEF S
<1>3. c.buf = <<>>
  BY DEF Transmit, Inv, BufferInv
<1>4. /\ First(t) \in Records /\ c'.buf = c.buf /\ ConnType' /\ GoroutineType'
      /\ c'.closeSent = (c.closeSent \/ First(t) = "closeNotify") /\ c'.raced = c.raced /\ c'.buffering = c.buffering
  BY <1>0 DEF KeepConn, WrittenResult
<1>5. Record(t) \in S /\ Record(t).type = First(t) /\ Record(t).seq = th[t].seq
  BY <1>1, <1>4 DEF Record, First, GoroutineType
<1> DEFINE e == Record(t)
<1> HIDE DEF e, S
<1>6. /\ sent' = IF broken THEN sent ELSE Append(sent, e)
      /\ peer' = [peer EXCEPT !.reset = broken] /\ acked' = (IF peer.closed THEN Len(sent') ELSE acked)
      /\ broken \/ Len(sent) - acked < Window
      /\ peer.reset => broken
  BY <1>2 DEF Carries, Works, Room, e
<1>7. /\ Len(sent) \in Nat /\ DOMAIN sent = 1..Len(sent) /\ sent \in Seq(S)
      /\ broken => sent' = sent
      /\ ~broken => /\ sent' \in Seq(S) /\ Len(sent') = Len(sent) + 1 /\ DOMAIN sent' = 1..Len(sent) + 1
                    /\ \A i \in 1..Len(sent) : sent'[i] = sent[i]
                    /\ sent'[Len(sent) + 1].type = First(t) /\ sent'[Len(sent) + 1].seq = th[t].seq
  <2>1. sent \in Seq(S) /\ e \in S
    BY <1>1, <1>5 DEF TransportType, e, S
  <2>2. /\ Append(sent, e) \in Seq(S) /\ Len(sent) \in Nat /\ Len(Append(sent, e)) = Len(sent) + 1
        /\ DOMAIN sent = 1..Len(sent) /\ DOMAIN Append(sent, e) = 1..Len(sent) + 1
        /\ \A i \in 1..Len(sent) : Append(sent, e)[i] = sent[i]
        /\ Append(sent, e)[Len(sent) + 1] = e
    BY <2>1, Appended
  <2>. QED
    BY <1>5, <1>6, <2>1, <2>2 DEF e
<1>8. /\ peer' \in [data : Seq(Nat), hellos : Nat, extra : Nat, closed : BOOLEAN, asked : BOOLEAN,
                    done : BOOLEAN, reset : BOOLEAN]
      /\ peer'.data = peer.data /\ peer'.done = peer.done /\ peer'.closed = peer.closed /\ peer'.reset = broken
  BY <1>1, <1>6 DEF TransportType
<1>9. TransportType'
  <2>1. acked' \in 0..Len(sent') /\ Len(sent') - acked' <= Window
    <3>1. acked \in 0..Len(sent) /\ Len(sent) - acked <= Window /\ Window \in Nat
      BY <1>1, ConnAssumption DEF TransportType
    <3>2. ((broken /\ Len(sent') = Len(sent)) \/ (~broken /\ Len(sent') = Len(sent) + 1)) /\ Len(sent) \in Nat
      BY <1>7
    <3>3. acked' = (IF peer.closed THEN Len(sent') ELSE acked) /\ (broken \/ Len(sent) - acked < Window)
      BY <1>6
    <3>. QED
      BY <3>1, <3>2, <3>3
  <2>. QED
    BY <1>1, <1>7, <1>8, <2>1 DEF TransportType, S
<1>10. Control' /\ ReadInv' /\ ActiveInv' /\ MutexInv' /\ ErrorInv' /\ StreamInv'
  BY <1>1, <1>2, <1>8, WrittenStep DEF S
<1>11. OutInv'
  <2>0. Len(c.buf) = 0 /\ Len(c'.buf) = 0 /\ DOMAIN c'.buf = {} /\ Len(sent) \in Nat
    BY <1>3, <1>4, <1>7
  <2>1. ~c.raced /\ ~broken => th[t].seq = Len(sent)
    <3>1. ~c.raced /\ ~peer.reset => th[t].seq = Out
      BY <1>1 DEF OutInv
    <3>2. Out = Len(sent)
      BY <2>0 DEF Out
    <3>. QED
      BY <1>6, <3>1, <3>2
  <2>2. WireOrder'
    BY <1>1, <1>4, <1>7, <2>1 DEF OutInv, WireOrder
  <2>3. ~c.raced /\ ~peer'.reset =>
              /\ ~peer.reset /\ Out' = Out + 1
              /\ \A k \in DOMAIN c'.buf : c'.buf[k].seq = Len(sent') + k - 1
    <3>1. ~broken => Len(sent') = Len(sent) + 1
      BY <1>7
    <3>2. (~broken => Out' = Out + 1) /\ peer'.reset = broken /\ (peer.reset => broken)
      BY <1>6, <1>8, <2>0, <3>1 DEF Out
    <3>. QED
      BY <2>0, <3>2
  <2>. QED
    BY <1>1, <1>2, <2>2, <2>3, WrittenOut DEF S
<1>12. BufferInv'
  <2>1. th[t].next \in Nexts[t] /\ (th[t].next = "flush" => c.buffering)
    BY <1>1 DEF Inv, Control, BufferInv, Writing
  <2>2. th[t].next # "flush"
    BY <1>1, <2>1 DEF Transmit, Nexts, Handshaking
  <2>3. /\ th'[t].pc \notin {"flush", "flushing"} /\ (Writing(t)' => th'[t].next # "flush")
        /\ \A u \in Threads \ {t} : th'[u] = th[u]
    <3>1. /\ KeepThread(t, {"recs", "seq", "next", "pc"})
          /\ More(t, broken) => th'[t].next = th[t].next /\ th'[t].pc = "transmit"
          /\ ~More(t, broken) => th'[t].pc = IF broken /\ First(t) = "hello" THEN "hsFail" ELSE th[t].next
      BY <1>0 DEF WrittenResult
    <3>2. th[t].next \notin {"flush", "flushing", "out", "number", "transmit"}
      BY <2>1, <2>2 DEF Nexts, Handshaking, Threads
    <3>. QED
      BY <2>2, <3>1, <3>2 DEF KeepThread, Writing
  <2>. QED
    BY <1>1, <1>4, <2>3 DEF BufferInv, Writing
<1>13. CloseInv'
  <2>1. /\ \A u \in Threads : \A i \in DOMAIN th'[u].recs :
                 /\ th'[u].recs[i] \in Last => c'.out = u /\ ~c'.closeSent
                 /\ th'[u].recs[i] = "closeNotify" => Len(th'[u].recs) = 1
        /\ First(t) \in Last => ~c.closeSent
    BY <1>1, <1>2, WrittenRecs DEF S
  <2>2. (\E i \in DOMAIN sent' : sent'[i].type = "closeNotify") => c'.closeSent
    <3>1. (\E i \in DOMAIN sent : sent[i].type = "closeNotify") => c.closeSent
      BY <1>1 DEF CloseInv
    <3>2. CASE broken
      BY <1>4, <1>7, <3>1, <3>2
    <3>3. CASE ~broken
      <4>1. SUFFICES ASSUME NEW i \in 1..Len(sent) + 1, sent'[i].type = "closeNotify" PROVE c'.closeSent
        BY <1>7, <3>3
      <4>2. CASE i = Len(sent) + 1
        BY <1>4, <1>7, <3>3, <4>1, <4>2
      <4>3. CASE i # Len(sent) + 1
        <5>1. i \in 1..Len(sent)
          BY <1>7, <4>3
        <5>. QED
          BY <1>4, <1>7, <3>1, <3>3, <4>1, <5>1
      <4>. QED
        BY <4>2, <4>3
    <3>. QED
      BY <3>2, <3>3
  <2>3. \A i \in DOMAIN sent' : sent'[i].type = "closeNotify" => \A j \in i + 1..Len(sent') : sent'[j].type \notin Last
    <3>1. CASE broken
      BY <1>1, <1>7, <3>1 DEF CloseInv
    <3>2. CASE ~broken
      <4>1. SUFFICES ASSUME NEW i \in 1..Len(sent) + 1, sent'[i].type = "closeNotify", NEW j \in i + 1..Len(sent) + 1
                     PROVE  sent'[j].type \notin Last
        BY <1>7, <3>2
      <4>2. i \in 1..Len(sent) /\ i \in DOMAIN sent /\ sent[i].type = "closeNotify"
        BY <1>7, <3>2, <4>1
      <4>3. CASE j = Len(sent) + 1
        BY <1>1, <1>7, <2>1, <3>2, <4>2, <4>3 DEF CloseInv
      <4>4. CASE j # Len(sent) + 1
        <5>1. j \in i + 1..Len(sent) /\ j \in 1..Len(sent)
          BY <1>7, <4>1, <4>4
        <5>. QED
          BY <1>1, <1>7, <3>2, <4>2, <5>1 DEF CloseInv
      <4>. QED
        BY <4>3, <4>4
    <3>. QED
      BY <3>1, <3>2
  <2>4. DOMAIN c'.buf = {}
    BY <1>3, <1>4
  <2>. QED
    BY <2>1, <2>2, <2>3, <2>4 DEF CloseInv
<1>. QED
  BY <1>4, <1>9, <1>10, <1>11, <1>12, <1>13 DEF Inv

\* A record is buffered, or lost when another goroutine flushes meanwhile.
LEMMA BufferStep == ASSUME Inv, NEW t \in Threads, Buffer(t) PROVE Inv'
<1> DEFINE S == [type : Records, seq : Nat]
           e == Record(t)
           lost == \E u \in Threads : th[u].pc = "flushing"
           buf == IF lost THEN c.buf ELSE Append(c.buf, e)
<1>1. /\ th[t].pc = "transmit" /\ ConnType /\ GoroutineType /\ TransportType /\ c.buf \in Seq(S) /\ sent \in Seq(S)
      /\ UNCHANGED <<sent, acked, peer, inq, got, timer, errs>> /\ OutInv /\ BufferInv /\ CloseInv /\ c.buffering
  BY DEF Inv, Buffer, At, ConnType, NoIO, TransportType
<1>2. Written(t, FALSE, buf)
  BY DEF Buffer, At
<1>3. th[t].recs # <<>> /\ th[t].recs \in Seq(Records)
  BY <1>1 DEF Inv, Control, Writing, GoroutineType
<1>4. e \in S /\ e.type = First(t) /\ e.seq = th[t].seq /\ First(t) \in Records
  <2>1. First(t) \in Records
    BY <1>3 DEF First
  <2>. QED
    BY <1>1, <2>1 DEF Record, First, GoroutineType
<1> HIDE DEF e, S
<1>5. /\ Len(c.buf) \in Nat /\ Len(sent) \in Nat /\ DOMAIN c.buf = 1..Len(c.buf) /\ DOMAIN sent = 1..Len(sent)
      /\ Append(c.buf, e) \in Seq(S) /\ Len(Append(c.buf, e)) = Len(c.buf) + 1
      /\ DOMAIN Append(c.buf, e) = 1..Len(c.buf) + 1 /\ Append(c.buf, e) # <<>>
      /\ \A i \in 1..Len(c.buf) : Append(c.buf, e)[i] = c.buf[i]
      /\ Append(c.buf, e)[Len(c.buf) + 1] = e
  BY <1>1, <1>4, Appended
<1>6. buf \in Seq(S)
  BY <1>1, <1>5
<1>7. WrittenResult(t, FALSE, buf)
  BY <1>1, <1>2, <1>6, WrittenFacts DEF S
<1>8. /\ ConnType' /\ GoroutineType' /\ c'.buf = buf /\ c'.raced = c.raced /\ c'.buffering = c.buffering
      /\ c'.closeSent = (c.closeSent \/ First(t) = "closeNotify")
  BY <1>7 DEF WrittenResult, KeepConn
<1>9. TransportType'
  BY <1>1 DEF TransportType
<1>10. Control' /\ ReadInv' /\ ActiveInv' /\ MutexInv' /\ ErrorInv' /\ StreamInv'
  BY <1>1, <1>2, <1>6, WrittenStep DEF S
<1>11. OutInv'
  <2>1. WireOrder'
    BY <1>1, <1>8 DEF OutInv, WireOrder
  <2>2. ASSUME ~c.raced, ~peer'.reset
        PROVE  /\ ~peer.reset /\ Out' = Out + 1
               /\ \A k \in DOMAIN c'.buf : c'.buf[k].seq = Len(sent') + k - 1
    <3>1. ~lost
      <4>1. SUFFICES ASSUME NEW u \in Threads, th[u].pc = "flushing" PROVE FALSE
        OBVIOUS
      <4>2. t = u
        BY <1>1, <2>2, <4>1, Alone
      <4>. QED
        BY <1>1, <4>1, <4>2
    <3>2. c'.buf = Append(c.buf, e) /\ ~peer.reset /\ sent' = sent
      BY <1>1, <1>8, <2>2, <3>1
    <3>3. Out' = Out + 1
      BY <1>5, <3>2 DEF Out
    <3>4. th[t].seq = Len(sent) + Len(c.buf) /\ \A k \in DOMAIN c.buf : c.buf[k].seq = Len(sent) + k - 1
      BY <1>1, <2>2, <3>2 DEF OutInv, Out
    <3>5. ASSUME NEW k \in 1..Len(c.buf) + 1 PROVE Append(c.buf, e)[k].seq = Len(sent) + k - 1
      <4>1. CASE k = Len(c.buf) + 1
        BY <1>4, <1>5, <3>4, <4>1
      <4>2. CASE k # Len(c.buf) + 1
        <5>1. k \in 1..Len(c.buf)
          BY <1>5, <4>2
        <5>. QED
          BY <1>5, <3>4, <5>1
      <4>. QED
        BY <4>1, <4>2
    <3>. QED
      BY <1>5, <3>2, <3>3, <3>5
  <2>. QED
    BY <1>1, <1>2, <1>6, <2>1, <2>2, WrittenOut DEF S
<1>12. /\ \A u \in Threads \ {t} : th'[u] = th[u]
       /\ \/ th'[t].pc = "transmit" /\ th'[t].next = th[t].next
          \/ th'[t].pc = th[t].next /\ th'[t].recs = <<>>
       /\ th[t].next \in Nexts[t] /\ (th[t].next = "flush" => InHandshake(t) /\ ~lost)
  <2>1. /\ \A u \in Threads \ {t} : th'[u] = th[u]
        /\ \/ th'[t].pc = "transmit" /\ th'[t].next = th[t].next
           \/ th'[t].pc = th[t].next /\ th'[t].recs = <<>>
    BY <1>7 DEF WrittenResult, KeepThread, More
  <2>2. th[t].next \in Nexts[t]
    BY <1>1 DEF Inv, Control, Writing
  <2>3. ASSUME th[t].next = "flush" PROVE InHandshake(t) /\ ~lost
    <3>1. InHandshake(t)
      BY <1>1, <2>3 DEF InHandshake, Writing, Handshaking
    <3>2. ASSUME NEW u \in Threads, th[u].pc = "flushing" PROVE FALSE
      <4>1. InHandshake(u)
        BY <3>2 DEF InHandshake
      <4>2. u = t
        BY <3>1, <4>1 DEF Inv, MutexInv
      <4>. QED
        BY <1>1, <3>2, <4>2
    <3>. QED
      BY <3>1, <3>2
  <2>. QED
    BY <2>1, <2>2, <2>3
<1>13. BufferInv'
  <2>1. c'.buffering
    BY <1>1, <1>8
  <2>2. c.buf # <<>> => c'.buf # <<>>
    BY <1>5, <1>8
  <2>3. th[t].next = "flush" => c'.buf # <<>>
    BY <1>5, <1>8, <1>12
  <2>4. th[t].next # "flushing"
    BY <1>12 DEF Nexts, Handshaking, Threads
  <2>. QED
    BY <1>1, <1>12, <2>1, <2>2, <2>3, <2>4 DEF BufferInv
<1>14. CloseInv'
  <2>1. /\ \A u \in Threads : \A i \in DOMAIN th'[u].recs :
                 /\ th'[u].recs[i] \in Last => c'.out = u /\ ~c'.closeSent
                 /\ th'[u].recs[i] = "closeNotify" => Len(th'[u].recs) = 1
        /\ First(t) \in Last => ~c.closeSent
    BY <1>1, <1>2, <1>6, WrittenRecs DEF S
  <2>2. c.closeSent => c'.closeSent
    BY <1>8
  <2>3. CASE lost
    BY <1>1, <1>8, <2>1, <2>2, <2>3 DEF CloseInv
  <2>4. CASE ~lost
    <3>1. c'.buf = Append(c.buf, e) /\ DOMAIN c'.buf = 1..Len(c.buf) + 1 /\ Len(c'.buf) = Len(c.buf) + 1
      BY <1>5, <1>8, <2>4
    <3>2. \A k \in 1..Len(c.buf) + 1 : (k \in 1..Len(c.buf) /\ c'.buf[k] = c.buf[k]) \/ (k = Len(c.buf) + 1 /\ c'.buf[k].type = First(t))
      <4>1. SUFFICES ASSUME NEW k \in 1..Len(c.buf) + 1
                     PROVE  (k \in 1..Len(c.buf) /\ c'.buf[k] = c.buf[k]) \/ (k = Len(c.buf) + 1 /\ c'.buf[k].type = First(t))
        OBVIOUS
      <4>2. k \in 1..Len(c.buf) \/ k = Len(c.buf) + 1
        BY <1>5
      <4>. QED
        BY <1>4, <1>5, <3>1, <4>2
    <3>3. (\E k \in DOMAIN c'.buf : c'.buf[k].type = "closeNotify") => c'.closeSent
      <4>1. (\E k \in DOMAIN c.buf : c.buf[k].type = "closeNotify") => c.closeSent
        BY <1>1 DEF CloseInv
      <4>. QED
        BY <1>5, <1>8, <3>1, <3>2, <4>1
    <3>4. \A i \in DOMAIN sent : sent[i].type = "closeNotify" => \A k \in DOMAIN c'.buf : c'.buf[k].type \notin Last
      <4>1. \A i \in DOMAIN sent : sent[i].type = "closeNotify" =>
               c.closeSent /\ \A k \in DOMAIN c.buf : c.buf[k].type \notin Last
        BY <1>1 DEF CloseInv
      <4>. QED
        BY <1>5, <2>1, <3>1, <3>2, <4>1
    <3>5. \A k \in DOMAIN c'.buf : c'.buf[k].type = "closeNotify" => \A l \in k + 1..Len(c'.buf) : c'.buf[l].type \notin Last
      <4>1. SUFFICES ASSUME NEW k \in 1..Len(c.buf) + 1, c'.buf[k].type = "closeNotify", NEW l \in k + 1..Len(c.buf) + 1
                     PROVE  c'.buf[l].type \notin Last
        BY <3>1
      <4>2. k \in 1..Len(c.buf) /\ c'.buf[k] = c.buf[k] /\ l \in 1..Len(c.buf) + 1
        BY <1>5, <3>2, <4>1
      <4>3. c.closeSent /\ \A j \in k + 1..Len(c.buf) : c.buf[j].type \notin Last
        BY <1>1, <1>5, <4>1, <4>2 DEF CloseInv
      <4>4. CASE l = Len(c.buf) + 1
        <5>1. c'.buf[l].type = First(t)
          BY <1>4, <1>5, <3>1, <4>4
        <5>. QED
          BY <2>1, <4>3, <5>1
      <4>5. CASE l # Len(c.buf) + 1
        <5>1. l \in k + 1..Len(c.buf) /\ l \in 1..Len(c.buf)
          BY <1>5, <4>1, <4>2, <4>5
        <5>2. c'.buf[l] = c.buf[l]
          BY <1>5, <3>1, <5>1
        <5>. QED
          BY <4>3, <5>1, <5>2
      <4>. QED
        BY <4>4, <4>5
    <3>6. \A i \in DOMAIN sent : sent[i].type = "closeNotify" =>
             c.closeSent /\ \A j \in i + 1..Len(sent) : sent[j].type \notin Last
      BY <1>1 DEF CloseInv
    <3>. QED
      BY <1>1, <2>1, <2>2, <3>3, <3>4, <3>5, <3>6 DEF CloseInv
  <2>. QED
    BY <2>3, <2>4
<1>. QED
  BY <1>8, <1>9, <1>10, <1>11, <1>13, <1>14 DEF Inv

\* flush begins: it uses c.sendBuf without c.out.
LEMMA FlushBeginsStep == ASSUME Inv, NEW t \in Threads, FlushBegins(t) PROVE Inv'
<1> DEFINE n == IF th[t].pc = "flush" THEN "hsOk" ELSE "hsFail"
           x == c.raced \/ c.out # None
<1>1. /\ ConnType /\ GoroutineType /\ TransportType /\ OutInv /\ BufferInv /\ CloseInv
      /\ th[t].pc \in {"flush", "hsFail"} /\ (th[t].pc = "hsFail" => c.buf # <<>>) /\ NoIO
      /\ UNCHANGED <<sent, peer, got, inq>>
      /\ c' = [c EXCEPT !.raced = x] /\ th' = [th EXCEPT ![t] = [th[t] EXCEPT !.pc = "flushing", !.next = n]]
  BY DEF Inv, FlushBegins, At, NoIO, GoroutineType, ConnType
<1>2. x \in BOOLEAN /\ n \in {"hsOk", "hsFail"} /\ (n = "hsFail" <=> th[t].pc = "hsFail")
  BY <1>1 DEF ConnType
<1> HIDE DEF n
<1>3. ConnType' /\ KeepConn({"raced"}) /\ c'.raced = (c.raced \/ c.out # None)
  <2>1. c'.raced = x
    BY <1>1 DEF ConnType
  <2> HIDE DEF x
  <2>2. ConnType' /\ KeepConn({"raced"})
    BY <1>1, <1>2 DEF ConnType, KeepConn
  <2>. QED
    BY <2>1, <2>2 DEF x
<1> HIDE DEF x
<1>4. GoroutineType' /\ KeepThread(t, {"pc", "next"}) /\ th'[t].pc = "flushing" /\ th'[t].next = n
  <2>1. "flushing" \in Names /\ n \in Names
    BY <1>2 DEF Names
  <2>. QED
    BY <1>1, <2>1 DEF GoroutineType, KeepThread
<1>5. TransportType'
  BY <1>1 DEF NoIO, TransportType
<1> USE DEF KeepConn, KeepThread, Threads, None
<1>6. t \notin {"dial", "close"}
  BY <1>1 DEF Inv, Control, Points
<1>7. Control'
  BY <1>1, <1>4, <1>6 DEF Inv, Control, Writing, Points
<1>8. ReadInv' /\ ActiveInv'
  BY <1>1, <1>3, <1>4 DEF Inv, ReadInv, ActiveInv, Writing
<1>9. MutexInv'
  <2>1. \A u \in Threads : InHandshake(u)' <=> InHandshake(u)
    BY <1>1, <1>4 DEF InHandshake, Writing, Handshaking
  <2>2. th[t].recs = <<>>
    BY <1>1 DEF Inv, Control, Writing
  <2>. QED
    BY <1>1, <1>3, <1>4, <2>1, <2>2 DEF Inv, MutexInv
<1>10. OutInv'
  <2>1. \A u \in Threads \ {t} : th'[u] = th[u] /\ (Unlocked(u)' <=> Unlocked(u))
    BY <1>3, <1>4 DEF Unlocked, At
  <2>2. WireOrder' /\ Out' = Out
    BY <1>1, <1>3 DEF OutInv, WireOrder, Out
  <2>3. ~c'.raced => \A u \in Threads : Unlocked(u)' => c'.out = None
    BY <1>1, <1>3, <2>1 DEF OutInv
  <2>4. /\ \A u \in Threads : c'.out = u => th'[u].pc = "transmit"
        /\ \A u \in Threads : th'[u].pc = "number" \/ (th'[u].pc = "transmit" /\ c'.out # u) =>
              th'[u].recs = <<"alert">> /\ th'[u].next \in {"rdDone", "hsFail"}
    BY <1>1, <1>3, <1>4, <2>1 DEF OutInv
  <2>5. ~c'.raced /\ ~peer'.reset =>
          /\ \A k \in DOMAIN c'.buf : c'.buf[k].seq = Len(sent') + k - 1
          /\ (\A u \in Threads : th'[u].pc # "transmit") => c'.seq = Out'
          /\ \A u \in Threads : th'[u].pc = "number" => th'[u].seq = Out'
          /\ \A u \in Threads : th'[u].pc = "transmit" => th'[u].seq = Out' /\ c'.seq = Out' + 1
    <3>1. /\ c'.buf = c.buf /\ c'.seq = c.seq /\ sent' = sent /\ peer' = peer /\ (c.raced => c'.raced)
          /\ \A u \in Threads : /\ th'[u].seq = th[u].seq
                                /\ th'[u].pc = "transmit" <=> th[u].pc = "transmit"
                                /\ th'[u].pc = "number" <=> th[u].pc = "number"
      BY <1>1, <1>3, <1>4
    <3>2. ~c.raced /\ ~peer.reset =>
          /\ \A k \in DOMAIN c.buf : c.buf[k].seq = Len(sent) + k - 1
          /\ (\A u \in Threads : th[u].pc # "transmit") => c.seq = Out
          /\ \A u \in Threads : th[u].pc = "number" => th[u].seq = Out
          /\ \A u \in Threads : th[u].pc = "transmit" => th[u].seq = Out /\ c.seq = Out + 1
      BY <1>1 DEF OutInv
    <3>. QED
      BY <2>2, <3>1, <3>2
  <2>. QED
    BY <2>2, <2>3, <2>4, <2>5 DEF OutInv
<1>11. BufferInv'
  <2>1. c.buffering /\ c.buf # <<>>
    BY <1>1 DEF BufferInv
  <2>2. c'.buffering /\ c'.buf # <<>>
    BY <1>3, <2>1
  <2>. QED
    BY <1>1, <1>2, <1>4, <2>2 DEF BufferInv, Writing
<1>12. CloseInv'
  <2>1. \A u \in Threads : th'[u].recs = th[u].recs
    BY <1>4
  <2>. QED
    BY <1>1, <1>3, <2>1 DEF CloseInv
<1>13. ErrorInv'
  BY <1>1, <1>3, <1>4 DEF Inv, ErrorInv, Writing
<1>14. StreamInv'
  <2>1. \A u \in Threads : Failing(u) => Failing(u)'
    BY <1>1, <1>2, <1>4 DEF Failing
  <2>. QED
    BY <1>1, <1>3, <1>4, <2>1 DEF Inv, StreamInv, Pending, DataIn
<1>. QED
  BY <1>3, <1>4, <1>5, <1>7, <1>8, <1>9, <1>10, <1>11, <1>12, <1>13, <1>14 DEF Inv

\* What Tail does to the records that are buffered.
LEMMA Removed ==
    ASSUME NEW S, NEW q \in Seq(S), q # <<>>
    PROVE  /\ Head(q) \in S /\ Head(q) = q[1] /\ Tail(q) \in Seq(S)
           /\ Len(q) \in Nat /\ Len(q) >= 1 /\ Len(Tail(q)) = Len(q) - 1
           /\ DOMAIN q = 1..Len(q) /\ DOMAIN Tail(q) = 1..Len(q) - 1
           /\ \A i \in 1..Len(q) - 1 : Tail(q)[i] = q[i + 1]
  OBVIOUS

\* A record that moves from the buffer to the transport.
LEMMA Moved == ASSUME NEW a \in Nat, NEW b \in Nat PROVE (a + 1) + (b - 1) = a + b
  OBVIOUS

\* flush writes a buffered record.
LEMMA FlushStep == ASSUME Inv, NEW t \in Threads, Flush(t) PROVE Inv'
<1> DEFINE S == [type : Records, seq : Nat]
           e == Head(c.buf)
           rest == Tail(c.buf)
<1>1. /\ th[t].pc = "flushing" /\ ConnType /\ GoroutineType /\ TransportType /\ c.buf \in Seq(S) /\ sent \in Seq(S)
      /\ UNCHANGED <<inq, got, timer, errs>> /\ OutInv /\ BufferInv /\ CloseInv
  BY DEF Inv, Flush, At, ConnType, TransportType
<1>2. c.buf # <<>> /\ c.buffering /\ th[t].next \in {"hsOk", "hsFail"}
  BY <1>1 DEF BufferInv
<1>3. PICK broken \in BOOLEAN :
         /\ Works(broken) /\ Carries(e, broken)
         /\ c' = [c EXCEPT !.buf = IF broken THEN <<>> ELSE rest, !.buffering = ~(broken \/ rest = <<>>)]
         /\ th' = [th EXCEPT ![t].pc = IF broken THEN "hsFail" ELSE IF broken \/ rest = <<>> THEN th[t].next ELSE @,
                             ![t].next = IF broken \/ rest = <<>> THEN None ELSE @]
  BY <1>1 DEF Flush, ConnType
<1>4. /\ e \in S /\ e = c.buf[1] /\ rest \in Seq(S) /\ Len(c.buf) \in Nat /\ Len(c.buf) >= 1
      /\ Len(rest) = Len(c.buf) - 1 /\ DOMAIN c.buf = 1..Len(c.buf) /\ DOMAIN rest = 1..Len(c.buf) - 1
      /\ \A i \in 1..Len(c.buf) - 1 : rest[i] = c.buf[i + 1]
  <2> HIDE DEF S
  <2>. QED
    BY <1>1, <1>2, Removed
<1> HIDE DEF e, S, rest
<1> DEFINE b == IF broken THEN <<>> ELSE rest
           f == ~(broken \/ rest = <<>>)
           p == IF broken THEN "hsFail" ELSE IF f THEN "flushing" ELSE th[t].next
           n == IF f THEN th[t].next ELSE None
<1>5. /\ c' = [c EXCEPT !.buf = b, !.buffering = f] /\ b \in Seq(S) /\ f \in BOOLEAN
      /\ th' = [th EXCEPT ![t] = [th[t] EXCEPT !.pc = p, !.next = n]] /\ p \in Names /\ n \in Names
  <2>1. b \in Seq(S)
    BY <1>4
  <2>2. p \in Names /\ n \in Names
    BY <1>2 DEF Names
  <2>3. th' = [th EXCEPT ![t] = [th[t] EXCEPT !.pc = p, !.next = n]]
    BY <1>1, <1>3 DEF GoroutineType
  <2>. QED
    BY <1>3, <2>1, <2>2, <2>3
<1>6. /\ p \in {"hsFail", "flushing", "hsOk"} /\ (f => p = "flushing") /\ (~f => p \in {"hsOk", "hsFail"} /\ b = <<>>)
      /\ (th[t].next = "hsFail" /\ ~f => p = "hsFail") /\ (f => b = rest /\ b # <<>> /\ ~broken)
      /\ (~broken => b = rest) /\ n \in {None, th[t].next} /\ (f => n = th[t].next)
  BY <1>2
<1> HIDE DEF b, f, p, n
<1>7. ConnType' /\ KeepConn({"buf", "buffering"}) /\ c'.buf = b /\ c'.buffering = f
  BY <1>1, <1>5 DEF ConnType, KeepConn, S
<1>8. GoroutineType' /\ KeepThread(t, {"pc", "next"}) /\ th'[t].pc = p /\ th'[t].next = n
  BY <1>1, <1>5 DEF GoroutineType, KeepThread
<1>9. /\ sent' = IF broken THEN sent ELSE Append(sent, e)
      /\ peer' = [peer EXCEPT !.reset = broken] /\ acked' = (IF peer.closed THEN Len(sent') ELSE acked)
      /\ broken \/ Len(sent) - acked < Window
      /\ peer.reset => broken
  BY <1>3 DEF Carries, Works, Room
<1>10. /\ Len(sent) \in Nat /\ DOMAIN sent = 1..Len(sent)
       /\ broken => sent' = sent
       /\ ~broken => /\ sent' \in Seq(S) /\ Len(sent') = Len(sent) + 1 /\ DOMAIN sent' = 1..Len(sent) + 1
                     /\ \A i \in 1..Len(sent) : sent'[i] = sent[i]
                     /\ sent'[Len(sent) + 1] = e
  <2>1. /\ Append(sent, e) \in Seq(S) /\ Len(sent) \in Nat /\ Len(Append(sent, e)) = Len(sent) + 1
        /\ DOMAIN sent = 1..Len(sent) /\ DOMAIN Append(sent, e) = 1..Len(sent) + 1
        /\ \A i \in 1..Len(sent) : Append(sent, e)[i] = sent[i]
        /\ Append(sent, e)[Len(sent) + 1] = e
    BY <1>1, <1>4, Appended
  <2>. QED
    BY <1>9, <2>1
<1>11. /\ peer' \in [data : Seq(Nat), hellos : Nat, extra : Nat, closed : BOOLEAN, asked : BOOLEAN,
                     done : BOOLEAN, reset : BOOLEAN]
       /\ peer'.data = peer.data /\ peer'.done = peer.done /\ peer'.closed = peer.closed /\ peer'.reset = broken
  BY <1>1, <1>9 DEF TransportType
<1>12. TransportType'
  <2>1. acked' \in 0..Len(sent') /\ Len(sent') - acked' <= Window
    <3>1. acked \in 0..Len(sent) /\ Len(sent) - acked <= Window /\ Window \in Nat
      BY <1>1, ConnAssumption DEF TransportType
    <3>2. ((broken /\ Len(sent') = Len(sent)) \/ (~broken /\ Len(sent') = Len(sent) + 1)) /\ Len(sent) \in Nat
      BY <1>10
    <3>3. acked' = (IF peer.closed THEN Len(sent') ELSE acked) /\ (broken \/ Len(sent) - acked < Window)
      BY <1>9
    <3>. QED
      BY <3>1, <3>2, <3>3
  <2>2. sent' \in Seq(S)
    BY <1>1, <1>10
  <2>. QED
    BY <1>1, <1>11, <2>1, <2>2 DEF TransportType, S
<1> USE DEF KeepConn, KeepThread, Threads, None
<1>13. t \notin {"dial", "close"} /\ InHandshake(t) /\ th[t].recs = <<>>
  BY <1>1 DEF Inv, Control, Points, InHandshake, Writing
<1>14. \A u \in Threads \ {t} : ~InHandshake(u)
  BY <1>13 DEF Inv, MutexInv
<1>15. Control'
  BY <1>1, <1>6, <1>8, <1>13 DEF Inv, Control, Writing, Points, Handshaking
<1>16. ReadInv' /\ ActiveInv'
  BY <1>1, <1>6, <1>7, <1>8 DEF Inv, ReadInv, ActiveInv, Writing
<1>17. MutexInv'
  <2>1. \A u \in Threads : InHandshake(u)' <=> InHandshake(u)
    BY <1>1, <1>6, <1>8 DEF InHandshake, Writing, Handshaking
  <2>. QED
    BY <1>1, <1>6, <1>7, <1>8, <1>13, <2>1 DEF Inv, MutexInv
<1>18. OutInv'
  <2>1. /\ \A u \in Threads \ {t} : th'[u] = th[u] /\ (Unlocked(u)' <=> Unlocked(u))
        /\ Unlocked(t) /\ c'.out = c.out /\ c'.seq = c.seq /\ c'.raced = c.raced
    BY <1>1, <1>7, <1>8 DEF Unlocked, At
  <2>2. ~c'.raced => \A u \in Threads : Unlocked(u)' => c'.out = None
    BY <1>1, <2>1 DEF OutInv
  <2>3. /\ \A u \in Threads : c'.out = u => th'[u].pc = "transmit"
        /\ \A u \in Threads : th'[u].pc = "number" \/ (th'[u].pc = "transmit" /\ c'.out # u) =>
              th'[u].recs = <<"alert">> /\ th'[u].next \in {"rdDone", "hsFail"}
    BY <1>1, <1>6, <1>8, <2>1 DEF OutInv
  <2>4. ASSUME ~c'.raced, ~peer'.reset
        PROVE  /\ ~broken /\ Out' = Out /\ c.seq = Out
               /\ \A u \in Threads : th'[u].pc \notin {"number", "transmit"}
               /\ \A k \in DOMAIN c.buf : c.buf[k].seq = Len(sent) + k - 1
    <3>1. ~broken /\ ~peer.reset /\ ~c.raced
      BY <1>9, <1>11, <2>1, <2>4
    <3>2. \A u \in Threads \ {t} : th[u].pc \notin {"number", "transmit"}
      BY <1>1, <3>1, Alone
    <3>3. c.seq = Out /\ \A k \in DOMAIN c.buf : c.buf[k].seq = Len(sent) + k - 1
      BY <1>1, <3>1, <3>2 DEF OutInv
    <3>4. Out' = Out
      <4>1. Len(sent') = Len(sent) + 1 /\ Len(sent) \in Nat
        BY <1>10, <3>1
      <4>2. Len(c'.buf) = Len(c.buf) - 1 /\ Len(c.buf) \in Nat
        BY <1>4, <1>6, <1>7, <3>1
      <4>3. Out' = Len(sent') + Len(c'.buf)
        BY DEF Out
      <4>4. Len(sent') + Len(c'.buf) = (Len(sent) + 1) + (Len(c.buf) - 1)
        <5> HIDE DEF Out
        <5>. QED
          BY <4>1, <4>2
      <4>. QED
        BY <4>1, <4>2, <4>3, <4>4, Moved DEF Out
    <3>. QED
      BY <1>6, <1>8, <3>1, <3>2, <3>3, <3>4
  <2>5. WireOrder'
    <3>1. SUFFICES ASSUME ~c'.raced, NEW i \in DOMAIN sent' PROVE sent'[i].seq = i - 1
      BY DEF WireOrder
    <3>2. \A j \in DOMAIN sent : sent[j].seq = j - 1
      BY <1>1, <2>1, <3>1 DEF OutInv, WireOrder
    <3>3. CASE broken
      BY <1>10, <3>1, <3>2, <3>3
    <3>4. CASE ~broken
      <4>1. c.buf[1].seq = Len(sent)
        <5>1. ~peer'.reset
          BY <1>11, <3>4
        <5>2. c.buf[1].seq = Len(sent) + 1 - 1
          <6>1. \A k \in DOMAIN c.buf : c.buf[k].seq = Len(sent) + k - 1
            BY <2>4, <3>1, <5>1
          <6>2. 1 \in DOMAIN c.buf
            BY <1>4
          <6>. QED
            BY <6>1, <6>2
        <5>. QED
          BY <1>10, <5>2
      <4>2. i \in 1..Len(sent) + 1
        BY <1>10, <3>1, <3>4
      <4>3. CASE i = Len(sent) + 1
        BY <1>4, <1>10, <3>4, <4>1, <4>3
      <4>4. CASE i # Len(sent) + 1
        <5>1. i \in 1..Len(sent)
          BY <1>10, <4>2, <4>4
        <5>. QED
          BY <1>10, <3>2, <3>4, <5>1
      <4>. QED
        BY <4>3, <4>4
    <3>. QED
      BY <3>3, <3>4
  <2>6. ASSUME ~c'.raced, ~peer'.reset, NEW k \in DOMAIN c'.buf PROVE c'.buf[k].seq = Len(sent') + k - 1
    <3>1. /\ ~broken /\ c'.buf = rest
          /\ \A j \in DOMAIN c.buf : c.buf[j].seq = Len(sent) + j - 1
      BY <1>6, <1>7, <2>4, <2>6
    <3>2. k \in 1..Len(c.buf) - 1 /\ rest[k] = c.buf[k + 1] /\ k + 1 \in DOMAIN c.buf
      BY <1>4, <2>6, <3>1
    <3>3. c'.buf[k].seq = Len(sent) + (k + 1) - 1
      BY <3>1, <3>2
    <3>4. Len(sent') = Len(sent) + 1 /\ Len(sent) \in Nat
      BY <1>10, <3>1
    <3>. QED
      BY <1>4, <3>2, <3>3, <3>4
  <2>. QED
    BY <2>1, <2>2, <2>3, <2>4, <2>5, <2>6 DEF OutInv
<1>19. BufferInv'
  <2>1. \A u \in Threads \ {t} : th'[u].pc \notin {"flush", "flushing"} /\ ~(Writing(u)' /\ th'[u].next = "flush")
    BY <1>8, <1>14 DEF InHandshake, Writing, Handshaking
  <2>2. ~Writing(t)' /\ th'[t].pc # "flush" /\ (th'[t].pc = "flushing" => f /\ th'[t].next \in {"hsOk", "hsFail"})
    BY <1>2, <1>6, <1>8 DEF Writing
  <2>. QED
    BY <1>6, <1>7, <2>1, <2>2 DEF BufferInv
<1>20. CloseInv'
  <2>1. /\ \A u \in Threads : th'[u].recs = th[u].recs
        /\ c'.out = c.out /\ c'.closeSent = c.closeSent
    BY <1>7, <1>8
  <2>2. CASE broken
    <3>1. DOMAIN c'.buf = {} /\ sent' = sent
      BY <1>6, <1>7, <1>10, <2>2
    <3>. QED
      BY <1>1, <2>1, <3>1 DEF CloseInv
  <2>3. CASE ~broken
    <3>1. c'.buf = rest /\ DOMAIN c'.buf = 1..Len(c.buf) - 1 /\ Len(c'.buf) = Len(c.buf) - 1
      BY <1>4, <1>6, <1>7, <2>3
    <3>2. /\ \A i \in DOMAIN sent' : (i \in DOMAIN sent /\ sent'[i] = sent[i]) \/ (i = Len(sent) + 1 /\ sent'[i] = c.buf[1])
          /\ 1 \in DOMAIN c.buf
      <4>1. SUFFICES ASSUME NEW i \in 1..Len(sent) + 1
                     PROVE  (i \in 1..Len(sent) /\ sent'[i] = sent[i]) \/ (i = Len(sent) + 1 /\ sent'[i] = c.buf[1])
        BY <1>4, <1>10, <2>3
      <4>2. i \in 1..Len(sent) \/ i = Len(sent) + 1
        BY <1>10
      <4>. QED
        BY <1>4, <1>10, <2>3, <4>2
    <3>3. \A k \in DOMAIN c'.buf : k + 1 \in DOMAIN c.buf /\ c'.buf[k] = c.buf[k + 1] /\ k + 1 \in 1 + 1..Len(c.buf)
      BY <1>4, <3>1
    <3>4. /\ (\E i \in DOMAIN sent' : sent'[i].type = "closeNotify") => c'.closeSent
          /\ (\E k \in DOMAIN c'.buf : c'.buf[k].type = "closeNotify") => c'.closeSent
      <4>1. /\ (\E i \in DOMAIN sent : sent[i].type = "closeNotify") => c.closeSent
            /\ (\E k \in DOMAIN c.buf : c.buf[k].type = "closeNotify") => c.closeSent
        BY <1>1 DEF CloseInv
      <4>2. c'.closeSent = c.closeSent
        BY <2>1
      <4>. QED
        BY <3>2, <3>3, <4>1, <4>2
    <3>5. \A i \in DOMAIN sent' : sent'[i].type = "closeNotify" => \A k \in DOMAIN c'.buf : c'.buf[k].type \notin Last
      <4>1. SUFFICES ASSUME NEW i \in DOMAIN sent', sent'[i].type = "closeNotify", NEW k \in DOMAIN c'.buf
                     PROVE  c.buf[k + 1].type \notin Last
        BY <3>3
      <4>2. k + 1 \in DOMAIN c.buf /\ k + 1 \in 1 + 1..Len(c.buf)
        BY <3>3, <4>1
      <4>3. CASE i \in DOMAIN sent /\ sent'[i] = sent[i]
        BY <1>1, <4>1, <4>2, <4>3 DEF CloseInv
      <4>4. CASE sent'[i] = c.buf[1]
        BY <1>1, <3>2, <4>1, <4>2, <4>4 DEF CloseInv
      <4>. QED
        BY <3>2, <4>1, <4>3, <4>4
    <3>6. \A i \in DOMAIN sent' : sent'[i].type = "closeNotify" => \A j \in i + 1..Len(sent') : sent'[j].type \notin Last
      <4>1. SUFFICES ASSUME NEW i \in 1..Len(sent) + 1, sent'[i].type = "closeNotify", NEW j \in i + 1..Len(sent) + 1
                     PROVE  sent'[j].type \notin Last
        BY <1>10, <2>3
      <4>2. i \in 1..Len(sent) /\ i \in DOMAIN sent /\ sent[i].type = "closeNotify"
        BY <1>10, <2>3, <4>1
      <4>3. CASE j = Len(sent) + 1
        BY <1>1, <1>4, <1>10, <2>3, <3>2, <4>2, <4>3 DEF CloseInv
      <4>4. CASE j # Len(sent) + 1
        <5>1. j \in i + 1..Len(sent) /\ j \in 1..Len(sent)
          BY <1>10, <4>1, <4>4
        <5>. QED
          BY <1>1, <1>10, <2>3, <4>2, <5>1 DEF CloseInv
      <4>. QED
        BY <4>3, <4>4
    <3>7. \A k \in DOMAIN c'.buf : c'.buf[k].type = "closeNotify" => \A l \in k + 1..Len(c'.buf) : c'.buf[l].type \notin Last
      <4>1. SUFFICES ASSUME NEW k \in 1..Len(c.buf) - 1, c'.buf[k].type = "closeNotify", NEW l \in k + 1..Len(c.buf) - 1
                     PROVE  c'.buf[l].type \notin Last
        BY <3>1
      <4>2. /\ c.buf[k + 1].type = "closeNotify" /\ k + 1 \in DOMAIN c.buf
            /\ c'.buf[l] = c.buf[l + 1] /\ l + 1 \in (k + 1) + 1..Len(c.buf)
        BY <1>4, <3>1, <4>1
      <4>. QED
        BY <1>1, <4>2 DEF CloseInv
    <3>. QED
      BY <1>1, <2>1, <3>4, <3>5, <3>6, <3>7 DEF CloseInv
  <2>. QED
    BY <2>2, <2>3
<1>21. ErrorInv'
  BY <1>1, <1>6, <1>7, <1>8 DEF Inv, ErrorInv, Writing
<1>22. StreamInv'
  <2>1. \A u \in Threads : Failing(u) => Failing(u)'
    BY <1>1, <1>6, <1>8 DEF Failing
  <2>2. th'["read"].pc = "idle" => th["read"].pc = "idle"
    BY <1>6, <1>8
  <2>. QED
    BY <1>1, <1>7, <1>8, <1>11, <2>1, <2>2 DEF Inv, StreamInv, Pending, DataIn
<1>. QED
  BY <1>7, <1>8, <1>12, <1>15, <1>16, <1>17, <1>18, <1>19, <1>20, <1>21, <1>22 DEF Inv

\* Who reads a record, or is about to, has met no error, and is either the one
\* goroutine in clientHandshake or Read after its handshake; no other is.
LEMMA Reader ==
    ASSUME Inv, NEW t \in Threads, AtRecord(t)
    PROVE  /\ c.inErr = None /\ ~c.hsErr
           /\ \/ /\ th[t].pc = "hsRead" /\ Failed(t) = "hsFail" /\ c.status = 0 /\ c.hsMutex = t
                 /\ t # "dial" /\ t # "close" /\ (Reading(t) => ~HasMessage)
              \/ /\ t = "read" /\ th[t].pc \in {"rdPeek", "rdLoop", "renegotiate"} /\ Failed(t) = "rdDone"
                 /\ c.status = 1 /\ (Reading(t) => th[t].pc # "renegotiate" /\ c.input = None)
           /\ \A u \in Threads \ {t} :
                 /\ th[u].pc \notin {"hsIn", "hsRead", "rdPeek", "rdLoop", "renegotiate", "reLock"}
                 /\ ~(Writing(u) /\ th[u].next \in Handshaking)
<1> USE DEF Inv, Threads, None
<1>1. CASE th[t].pc = "hsRead"
  <2>1. InHandshake(t) /\ (Reading(t) => ~HasMessage)
    BY <1>1 DEF Reading, At, InHandshake, Handshaking
  <2>2. c.hsMutex = t /\ c.status = 0 /\ ~c.hsErr /\ c.inErr = None
    BY <1>1, <2>1 DEF MutexInv, ErrorInv
  <2>3. t # "dial" /\ t # "close"
    BY <1>1 DEF Control, Points
  <2>4. \A u \in Threads \ {t} : ~InHandshake(u)
    BY <2>2 DEF MutexInv
  <2>5. \A u \in Threads : th[u].pc \in {"rdPeek", "rdLoop", "renegotiate", "reLock"} => u = "read"
    BY DEF Control, Points, Handshaking
  <2>6. th["read"].pc \notin {"rdPeek", "rdLoop", "renegotiate", "reLock"}
    BY <2>2 DEF ReadInv
  <2>7. \A u \in Threads \ {t} :
           /\ th[u].pc \notin {"hsIn", "hsRead", "rdPeek", "rdLoop", "renegotiate", "reLock"}
           /\ ~(Writing(u) /\ th[u].next \in Handshaking)
    BY <2>4, <2>5, <2>6 DEF InHandshake, Handshaking
  <2>. QED
    BY <1>1, <2>1, <2>2, <2>3, <2>7 DEF Failed
<1>2. CASE th[t].pc # "hsRead"
  <2>1. th[t].pc \in {"rdPeek", "rdLoop", "renegotiate"} /\ t = "read"
    BY <1>2 DEF AtRecord, Reading, At, Control, Points, Handshaking
  <2>2. c.status = 1 /\ c.inErr = None /\ ~c.hsErr /\ (Reading(t) => th[t].pc # "renegotiate" /\ c.input = None)
    BY <1>2, <2>1 DEF AtRecord, Reading, At, ReadInv, ErrorInv, MutexInv
  <2>3. \A u \in Threads : ~InHandshake(u)
    BY <2>2 DEF MutexInv
  <2>4. \A u \in Threads \ {"read"} : th[u].pc \notin {"rdPeek", "rdLoop", "renegotiate", "reLock"}
    BY DEF Control, Points, Handshaking
  <2>5. \A u \in Threads \ {t} :
           /\ th[u].pc \notin {"hsIn", "hsRead", "rdPeek", "rdLoop", "renegotiate", "reLock"}
           /\ ~(Writing(u) /\ th[u].next \in Handshaking)
    BY <2>1, <2>3, <2>4 DEF InHandshake, Handshaking
  <2>. QED
    BY <2>1, <2>2, <2>5 DEF Failed
<1>. QED
  BY <1>1, <1>2

\* A reader that meets the end of the stream or an error goes on as Failed says,
\* directly or after it has written an alert.
LEMMA Stops ==
    ASSUME Inv, NEW t \in Threads, AtRecord(t), ConnType',
           KeepConn({"inErr", "warn", "raced"}), c'.inErr # None,
           KeepThread(t, {"pc", "recs", "next", "seq"}),
           \/ th'[t].pc = Failed(t) /\ th'[t].recs = th[t].recs /\ th'[t].next = th[t].next
           \/ \E a \in {"alert", "noRenegotiation"} :
                 th'[t].pc \in {"out", "number"} /\ th'[t].recs = <<a>> /\ th'[t].next = Failed(t),
           UNCHANGED <<sent, peer, got>>,
           \A i \in 1..Len(inq') : inq'[i] = "closeNotify" => i = Len(inq') /\ peer.done,
           c'.inErr = "eof" => /\ Reading(t) /\ inq' = <<>> /\ (peer.done \/ peer.closed) /\ th'[t].pc = Failed(t)
                               /\ Cardinality(DataIn(inq')) = Cardinality(DataIn(inq))
    PROVE  Control' /\ ReadInv' /\ ActiveInv' /\ MutexInv' /\ ErrorInv' /\ StreamInv'
<1> USE DEF Threads, None, KeepConn, KeepThread
<1>1. /\ c.inErr = None /\ ~c.hsErr /\ Failed(t) \in {"hsFail", "rdDone"} /\ (t # "read" => Failed(t) = "hsFail")
      /\ \/ /\ th[t].pc = "hsRead" /\ c.status = 0 /\ c.hsMutex = t /\ Failed(t) = "hsFail" /\ t # "dial" /\ t # "close"
         \/ /\ t = "read" /\ th[t].pc \in {"rdPeek", "rdLoop", "renegotiate"} /\ c.status = 1 /\ Failed(t) = "rdDone"
            /\ (Reading(t) => c.input = None)
      /\ \A u \in Threads \ {t} :
            /\ th[u].pc \notin {"hsIn", "hsRead", "rdPeek", "renegotiate", "reLock"}
            /\ ~(Writing(u) /\ th[u].next \in Handshaking)
  BY Reader
<1>2. Control' /\ ReadInv' /\ ActiveInv'
  <2>1. Control'
    <3>1. Failed(t) \in Nexts[t] /\ Failed(t) \in Points[t] /\ "out" \in Points[t] /\ "number" \in Points[t]
      BY <1>1 DEF Nexts, Points, Handshaking
    <3>2. Failed(t) \notin {"out", "number", "transmit", "cnOut"} /\ th[t].pc \notin {"out", "number", "transmit", "cnOut"}
      BY <1>1
    <3>3. th[t].recs = <<>>
      BY <3>2 DEF Inv, Control, Writing
    <3>5. \A u \in Threads \ {t} : th'[u] = th[u]
      OBVIOUS
    <3>4. CASE th'[t].pc = Failed(t) /\ th'[t].recs = th[t].recs
      BY <3>1, <3>2, <3>3, <3>4, <3>5 DEF Inv, Control, Writing
    <3>6. CASE \E a \in {"alert", "noRenegotiation"} :
                  th'[t].pc \in {"out", "number"} /\ th'[t].recs = <<a>> /\ th'[t].next = Failed(t)
      <4>1. PICK a : th'[t].pc \in {"out", "number"} /\ th'[t].recs = <<a>> /\ th'[t].next = Failed(t)
        BY <3>6
      <4>2. th'[t].recs # <<>>
        BY <4>1
      <4>. QED
        BY <3>1, <3>5, <4>1, <4>2 DEF Inv, Control, Writing
    <3>. QED
      BY <3>4, <3>6
  <2>2. ReadInv'
    BY <1>1 DEF Inv, ReadInv, Writing
  <2>3. ActiveInv'
    BY <1>1 DEF Inv, ActiveInv
  <2>. QED
    BY <2>1, <2>2, <2>3
<1>3. MutexInv'
  <2>1. \A u \in Threads : InHandshake(u)' <=> InHandshake(u)
    BY <1>1 DEF InHandshake, Writing, Handshaking
  <2>2. \A i \in DOMAIN th'[t].recs : th'[t].recs[i] \in {"hello", "finished"} => th'[t].next \in Handshaking
    BY <1>1 DEF Inv, MutexInv
  <2>. QED
    BY <1>1, <2>1, <2>2 DEF Inv, MutexInv
<1>6. ErrorInv'
  BY <1>1 DEF Inv, ErrorInv, Writing, Handshaking
<1>7. StreamInv'
  <2>1. c'.inErr = "eof" =>
           /\ Len(got') + Pending' + Cardinality(DataIn(inq')) = Len(peer'.data)
           /\ c'.input # "data" \/ th'[t].pc = "hsFail"
    BY <1>1 DEF Inv, StreamInv, Pending
  <2>2. th'["read"].res = "eof" /\ th'["read"].pc = "idle" => th["read"].res = "eof" /\ th["read"].pc = "idle"
    BY <1>1
  <2>. QED
    BY <2>1, <2>2 DEF Inv, StreamInv, ConnType, Failing
<1>. QED
  BY <1>2, <1>3, <1>6, <1>7 DEF Inv

\* readRecord fails, with an alert that takes c.out or without.
LEMMA ReadStops ==
    ASSUME Inv, NEW t \in Threads, AtRecord(t), ConnType', GoroutineType', TransportType',
           KeepConn({"inErr", "warn"}), c'.inErr # None,
           KeepThread(t, {"pc", "recs", "next"}),
           \/ th'[t].pc = Failed(t) /\ th'[t].recs = th[t].recs /\ th'[t].next = th[t].next
           \/ \E a \in {"alert", "noRenegotiation"} :
                 th'[t].pc = "out" /\ th'[t].recs = <<a>> /\ th'[t].next = Failed(t),
           UNCHANGED <<sent, peer, got>>,
           \A i \in 1..Len(inq') : inq'[i] = "closeNotify" => i = Len(inq') /\ peer.done,
           c'.inErr = "eof" => /\ Reading(t) /\ inq' = <<>> /\ (peer.done \/ peer.closed) /\ th'[t].pc = Failed(t)
                               /\ Cardinality(DataIn(inq')) = Cardinality(DataIn(inq))
    PROVE  Inv'
<1>1. KeepConn({"inErr", "warn", "raced"}) /\ KeepThread(t, {"pc", "recs", "next", "seq"})
  BY DEF KeepConn, KeepThread
<1>2. Control' /\ ReadInv' /\ ActiveInv' /\ MutexInv' /\ ErrorInv' /\ StreamInv'
  BY <1>1, Stops
<1>3. /\ th[t].pc \in {"hsRead", "rdPeek", "rdLoop", "renegotiate"}
      /\ Failed(t) \in {"hsFail", "rdDone"}
  BY Reader
<1>4. /\ \A i \in DOMAIN th'[t].recs : th'[t].recs[i] \notin Last
      /\ th'[t].pc \in {"out", "hsFail", "rdDone"} /\ (th'[t].pc = "out" => th'[t].next \in {"hsFail", "rdDone"})
  <2>1. th[t].recs = <<>>
    BY <1>3 DEF Inv, Control, Writing
  <2>. QED
    BY <1>3, <2>1 DEF Last
<1>5. OutInv' /\ BufferInv' /\ CloseInv'
  <2>1. \A u \in Threads :
           \/ th'[u].pc = th[u].pc /\ th'[u].recs = th[u].recs /\ th'[u].next = th[u].next /\ th'[u].seq = th[u].seq
           \/ /\ th[u].pc \notin {"number", "transmit", "flushing"}
              /\ th'[u].pc \notin {"number", "transmit", "flushing", "flush"}
              /\ \A i \in DOMAIN th'[u].recs : th'[u].recs[i] \notin Last
              /\ th'[u].pc = "out" /\ th'[u].next = "flush" => c'.buffering
    BY <1>3, <1>4 DEF KeepThread
  <2>2. /\ KeepConn({"hsMutex", "in", "active", "status", "hsErr", "handshakes", "inErr", "outErr", "warn",
                     "input", "hand", "closed", "buffering"})
        /\ c.buffering => c'.buffering
    BY DEF KeepConn
  <2>. QED
    BY <2>1, <2>2, WritersKept
<1>. QED
  BY <1>2, <1>5 DEF Inv

\* readHandshake writes the alert for an oversized message: nobody else uses c.out
\* without its lock, and if it is free the number read is the next one.
LEMMA AlertedStep ==
    ASSUME Inv, NEW t \in Threads, th[t].pc \in {"hsRead", "renegotiate"}, SendAlertLocked(t, Failed(t)), NoIO
    PROVE  Inv'
<1> DEFINE x == c.raced \/ c.out # None
<1>1. /\ ConnType /\ GoroutineType /\ TransportType /\ OutInv /\ BufferInv /\ CloseInv /\ None \notin Threads
      /\ AtRecord(t) /\ UNCHANGED <<sent, peer, got, inq>>
  BY DEF Inv, AtRecord, NoIO, Threads, None
<1>2. /\ c.seq \in Nat /\ x \in BOOLEAN /\ Failed(t) \in Names /\ "number" \in Names /\ <<"alert">> \in Seq(Records)
      /\ Failed(t) \in {"hsFail", "rdDone"}
  BY <1>1 DEF ConnType, Failed, Names, Records
<1>3. /\ c' = [c EXCEPT !.inErr = "err", !.raced = x]
      /\ th' = [th EXCEPT ![t] = [th[t] EXCEPT !.pc = "number", !.recs = <<"alert">>, !.next = Failed(t), !.seq = c.seq]]
  BY <1>1 DEF SendAlertLocked, ConnType, GoroutineType
<1> HIDE DEF x
<1>4. ConnType' /\ KeepConn({"inErr", "raced"}) /\ c'.inErr = "err" /\ c'.raced = x
  BY <1>1, <1>2, <1>3 DEF ConnType, KeepConn
<1>5. /\ GoroutineType' /\ KeepThread(t, {"pc", "recs", "next", "seq"}) /\ th'[t].pc = "number"
      /\ th'[t].recs = <<"alert">> /\ th'[t].next = Failed(t) /\ th'[t].seq = c.seq
  BY <1>1, <1>2, <1>3 DEF GoroutineType, KeepThread
<1>6. TransportType'
  BY <1>1 DEF NoIO, TransportType
<1>7. Control' /\ ReadInv' /\ ActiveInv' /\ MutexInv' /\ ErrorInv' /\ StreamInv'
  <2>1. \A i \in 1..Len(inq) : inq[i] = "closeNotify" => i = Len(inq) /\ peer.done
    BY DEF Inv, StreamInv
  <2>2. KeepConn({"inErr", "warn", "raced"}) /\ c'.inErr # None /\ c'.inErr # "eof"
    BY <1>4 DEF KeepConn, None
  <2>. QED
    BY <1>1, <1>4, <1>5, <2>1, <2>2, Stops
<1>8. \A u \in Threads : ~Unlocked(u)
  <2>1. SUFFICES ASSUME NEW u \in Threads, Unlocked(u) PROVE FALSE
    OBVIOUS
  <2>2. InHandshake(u) \/ (u = "read" /\ c.status = 1)
    BY <2>1, UnlockedWhere
  <2>3. u # t
    BY <2>1, <1>1 DEF Unlocked, At
  <2>4. (InHandshake(u) => c.hsMutex = u /\ c.status = 0) /\ (InHandshake(t) => c.hsMutex = t /\ c.status = 0)
    BY DEF Inv, MutexInv
  <2>5. CASE th[t].pc = "hsRead"
    <3>1. InHandshake(t)
      BY <2>5 DEF InHandshake, Handshaking
    <3>. QED
      BY <2>2, <2>3, <2>4, <3>1
  <2>6. CASE th[t].pc = "renegotiate"
    <3>1. t = "read" /\ c.status = 1
      BY <1>1, <2>6, Reader
    <3>. QED
      BY <2>2, <2>3, <2>4, <3>1
  <2>. QED
    BY <2>5, <2>6
<1>9. /\ c'.out = c.out /\ c'.seq = c.seq /\ c'.buf = c.buf /\ c'.buffering = c.buffering /\ c'.closeSent = c.closeSent
      /\ \A u \in Threads \ {t} : th'[u] = th[u]
  BY <1>4, <1>5 DEF KeepConn, KeepThread
<1>10. OutInv'
  <2>1. \A u \in Threads \ {t} : ~Unlocked(u)'
    BY <1>8, <1>9 DEF Unlocked, At
  <2>2. c.out # t
    BY <1>1 DEF OutInv
  <2>3. /\ \A u \in Threads : c'.out = u => th'[u].pc = "transmit"
        /\ \A u \in Threads : th'[u].pc = "number" \/ (th'[u].pc = "transmit" /\ c'.out # u) =>
              th'[u].recs = <<"alert">> /\ th'[u].next \in {"rdDone", "hsFail"}
        /\ ~c'.raced => \A u \in Threads : Unlocked(u)' => c'.out = None
    <3>1. \A u \in Threads : c'.out = u => th'[u].pc = "transmit"
      BY <1>1, <1>9, <2>2 DEF OutInv
    <3>2. \A u \in Threads : th'[u].pc = "number" \/ (th'[u].pc = "transmit" /\ c'.out # u) =>
              th'[u].recs = <<"alert">> /\ th'[u].next \in {"rdDone", "hsFail"}
      BY <1>2, <1>5, <2>1 DEF Unlocked, At
    <3>3. ~c'.raced => c'.out = None
      BY <1>4, <1>9 DEF x
    <3>. QED
      BY <3>1, <3>2, <3>3
  <2>4. WireOrder' /\ Out' = Out
    BY <1>1, <1>4, <1>9 DEF OutInv, WireOrder, Out, x
  <2>5. ASSUME ~c'.raced, ~peer'.reset
        PROVE  /\ \A u \in Threads : th[u].pc # "transmit" /\ th'[u].pc # "transmit" /\ (u # t => th'[u].pc # "number")
               /\ c.seq = Out /\ \A k \in DOMAIN c.buf : c.buf[k].seq = Len(sent) + k - 1
    <3>1. ~c.raced /\ c.out = None /\ ~peer.reset
      BY <1>1, <1>4, <2>5 DEF x
    <3>2. \A u \in Threads : th[u].pc \notin {"number", "transmit"}
      BY <1>1, <1>8, <3>1 DEF Unlocked, At
    <3>3. \A u \in Threads : th'[u].pc # "transmit" /\ (u # t => th'[u].pc # "number")
      BY <1>5, <1>9, <3>2
    <3>. QED
      BY <1>1, <3>1, <3>2, <3>3 DEF OutInv
  <2>6. ~c'.raced /\ ~peer'.reset =>
          /\ \A k \in DOMAIN c'.buf : c'.buf[k].seq = Len(sent') + k - 1
          /\ (\A u \in Threads : th'[u].pc # "transmit") => c'.seq = Out'
          /\ \A u \in Threads : th'[u].pc = "number" => th'[u].seq = Out'
          /\ \A u \in Threads : th'[u].pc = "transmit" => th'[u].seq = Out' /\ c'.seq = Out' + 1
    BY <1>1, <1>5, <1>9, <2>4, <2>5
  <2>. QED
    BY <2>3, <2>4, <2>6 DEF OutInv
<1>11. BufferInv'
  BY <1>1, <1>2, <1>5, <1>9 DEF BufferInv, Writing
<1>12. CloseInv'
  <2>1. \A u \in Threads : \A i \in DOMAIN th'[u].recs : th'[u].recs[i] \in Last => u # t /\ th'[u].recs = th[u].recs
    BY <1>5, <1>9 DEF Last
  <2>2. \A u \in Threads : \A i \in DOMAIN th'[u].recs :
          /\ th'[u].recs[i] \in Last => c'.out = u /\ ~c'.closeSent
          /\ th'[u].recs[i] = "closeNotify" => Len(th'[u].recs) = 1
    BY <1>1, <1>9, <2>1 DEF CloseInv, Last
  <2>. QED
    BY <1>1, <1>9, <2>2 DEF CloseInv
<1>. QED
  BY <1>4, <1>5, <1>6, <1>7, <1>10, <1>11, <1>12 DEF Inv

\* readRecord meets the end of the transport: no data is left in it, unless the
\* Conn was closed here, which is an error and not the end of the stream.
LEMMA ReadRecordClosedStep == ASSUME Inv, NEW t \in Threads, ReadRecordClosed(t) PROVE Inv'
<1> DEFINE e == IF c.closed THEN "err" ELSE "eof"
<1>1. /\ ConnType /\ GoroutineType /\ TransportType /\ Reading(t) /\ AtRecord(t) /\ Closed /\ c' = [c EXCEPT !.inErr = e]
      /\ th' = [th EXCEPT ![t].pc = Failed(t)] /\ NoIO /\ Failed(t) \in Names
      /\ e \in {"err", "eof"}
  BY DEF Inv, ReadRecordClosed, Goto, Failed, Names, AtRecord
<1>2. e = "eof" => inq = <<>> /\ peer.closed
  BY <1>1 DEF Closed
<1> HIDE DEF e
<1>3. ConnType' /\ KeepConn({"inErr", "warn"}) /\ c'.inErr = e
  BY <1>1 DEF ConnType, KeepConn
<1>4. GoroutineType' /\ KeepThread(t, {"pc", "recs", "next"}) /\ th'[t].pc = Failed(t)
      /\ th'[t].recs = th[t].recs /\ th'[t].next = th[t].next
  BY <1>1 DEF GoroutineType, KeepThread
<1>5. TransportType' /\ UNCHANGED <<sent, peer, got>> /\ inq' = inq
  BY <1>1 DEF NoIO, TransportType
<1>6. \A i \in 1..Len(inq) : inq[i] = "closeNotify" => i = Len(inq) /\ peer.done
  BY DEF Inv, StreamInv
<1>7. c'.inErr # None
  BY <1>1, <1>3 DEF None
<1>. QED
  BY <1>1, <1>2, <1>3, <1>4, <1>5, <1>6, <1>7, ReadStops

\* What a record taken off the transport leaves behind.
LEMMA RecordTaken ==
    ASSUME Inv, inq # <<>>, inq' = Tail(inq), UNCHANGED <<sent, acked, peer, got, timer, errs>>
    PROVE  /\ TransportType' /\ Head(inq) \in PeerRecords /\ Len(inq) \in Nat
           /\ \A i \in 1..Len(inq') : inq'[i] = "closeNotify" => i = Len(inq') /\ peer.done
           /\ Head(inq) = "closeNotify" => inq' = <<>> /\ peer.done
           /\ Cardinality(DataIn(inq')) \in Nat
           /\ Cardinality(DataIn(inq)) = Cardinality(DataIn(inq')) + (IF Head(inq) = "data" THEN 1 ELSE 0)
<1>1. inq \in Seq(PeerRecords) /\ TransportType
  BY DEF Inv, TransportType
<1>2. /\ Len(inq) \in Nat /\ Len(inq) > 0 /\ Len(inq') = Len(inq) - 1 /\ Head(inq) = inq[1]
      /\ \A i \in 1..Len(inq) - 1 : inq'[i] = inq[i + 1]
      /\ inq' \in Seq(PeerRecords) /\ Head(inq) \in PeerRecords
  BY <1>1
<1>3. \A i \in 1..Len(inq) : inq[i] = "closeNotify" => i = Len(inq) /\ peer.done
  BY DEF Inv, StreamInv
<1>4. TransportType'
  BY <1>1, <1>2 DEF TransportType
<1>5. \A i \in 1..Len(inq') : inq'[i] = "closeNotify" => i = Len(inq') /\ peer.done
  <2> SUFFICES ASSUME NEW i \in 1..Len(inq'), inq'[i] = "closeNotify" PROVE i = Len(inq') /\ peer.done
    OBVIOUS
  <2>1. i + 1 \in 1..Len(inq) /\ inq[i + 1] = "closeNotify" /\ i \in Nat
    BY <1>2
  <2>2. i + 1 = Len(inq) /\ peer.done
    BY <1>3, <2>1
  <2>3. Len(inq') = Len(inq) - 1 /\ Len(inq) \in Nat
    BY <1>2
  <2>. QED
    BY <2>1, <2>2, <2>3
<1>6. Head(inq) = "closeNotify" => Len(inq') = 0 /\ peer.done
  <2> SUFFICES ASSUME Head(inq) = "closeNotify" PROVE Len(inq') = 0 /\ peer.done
    OBVIOUS
  <2>1. 1 \in 1..Len(inq) /\ inq[1] = "closeNotify"
    BY <1>2
  <2>2. 1 = Len(inq) /\ peer.done
    BY <1>3, <2>1
  <2>. QED
    BY <1>2, <2>2
<1>7. Len(inq') = 0 => inq' = <<>>
  BY <1>2
<1>8. /\ Cardinality(DataIn(inq')) \in Nat
      /\ Cardinality(DataIn(inq)) = Cardinality(DataIn(inq')) + (IF Head(inq) = "data" THEN 1 ELSE 0)
  BY <1>1, DataTaken
<1>. QED
  BY <1>2, <1>4, <1>5, <1>6, <1>7, <1>8

\* An alert that is a warning is skipped.
LEMMA WarningStep ==
    ASSUME Inv, NEW t \in Threads, Reading(t), inq # <<>>, inq' = Tail(inq), Head(inq) = "warning",
           UNCHANGED <<sent, acked, peer, got, timer, errs, th>>, c.warn < MaxWarn,
           c' = [c EXCEPT !.warn = @ + 1]
    PROVE  Inv'
<1>1. /\ ConnType /\ GoroutineType /\ c.inErr = None
      /\ th[t].pc \in {"hsRead", "rdPeek", "rdLoop", "renegotiate"}
  BY Reader DEF Inv, AtRecord
<1>2. c.warn + 1 \in 0..MaxWarn /\ c.warn \in Nat
  BY <1>1, ConnAssumption DEF ConnType
<1>3. KeepConn({"warn"}) /\ c'.warn = c.warn + 1
  BY <1>1 DEF ConnType, KeepConn
<1>4. ConnType'
  <2>1. c.warn + 1 \in 0..MaxWarn + 1 /\ c' = [c EXCEPT !.warn = c.warn + 1]
    BY <1>1, <1>2, ConnAssumption DEF ConnType
  <2>. QED
    BY <1>1, <2>1, ZenonT(90) DEF ConnType
<1>5. GoroutineType'
  BY <1>1 DEF GoroutineType
<1> USE DEF KeepConn
<1>6. Control' /\ ReadInv' /\ ActiveInv' /\ MutexInv'
  BY <1>3 DEF Inv, Control, ReadInv, ActiveInv, MutexInv, Writing, InHandshake
<1>7. OutInv' /\ BufferInv' /\ CloseInv'
  BY <1>1, <1>3, Beside
<1>8. ErrorInv'
  BY <1>2, <1>3, ConnAssumption DEF Inv, ErrorInv, Writing
<1>9. StreamInv'
  <2>1. /\ \A i \in 1..Len(inq') : inq'[i] = "closeNotify" => i = Len(inq') /\ peer.done
        /\ Cardinality(DataIn(inq')) \in Nat
        /\ Cardinality(DataIn(inq)) = Cardinality(DataIn(inq'))
    BY RecordTaken
  <2>. QED
    BY <1>1, <1>3, <2>1 DEF Inv, StreamInv, Pending, None, Failing
<1>. QED
  BY <1>4, <1>5, <1>6, <1>7, <1>8, <1>9, RecordTaken DEF Inv

\* Data and handshake messages are kept for their reader.
LEMMA MessageKept ==
    ASSUME Inv, NEW t \in Threads, Reading(t), inq # <<>>, inq' = Tail(inq), ConnType', GoroutineType',
           UNCHANGED <<sent, acked, peer, got, timer, errs>>, KeepConn({"input", "hand", "warn"}),
           c'.warn \in {c.warn, 0},
           KeepThread(t, {"pc"}), th'[t].pc = Received(t, c'.hand),
           \/ Head(inq) # "data" /\ c'.input = c.input
           \/ th[t].pc # "hsRead" /\ c'.input = Head(inq)
    PROVE  Inv'
<1> USE DEF Threads, None, KeepConn, KeepThread
<1>1. /\ c.inErr = None /\ ConnType /\ TransportType'
      /\ \/ th[t].pc = "hsRead" /\ th'[t].pc = "hsRead"
         \/ /\ t = "read" /\ th[t].pc \in {"rdPeek", "rdLoop"} /\ c.status = 1 /\ c.input = None
            /\ th'[t].pc \in {"rdDone", "rdLoop", "renegotiate"}
  BY Reader, RecordTaken DEF Received, At, Inv, AtRecord
<1>2. Control'
  BY <1>1 DEF Inv, Control, Writing, Points, Nexts, Handshaking
<1>3. ReadInv'
  BY <1>1 DEF Inv, ReadInv, Control, Points, Handshaking, Writing
<1>4. ActiveInv' /\ OutInv' /\ BufferInv' /\ CloseInv'
  <2>1. ActiveInv'
    BY <1>1 DEF Inv, ActiveInv
  <2>2. OutInv' /\ BufferInv' /\ CloseInv'
    BY <1>1, Beside
  <2>. QED
    BY <2>1, <2>2
<1>5. MutexInv'
  <2>1. \A u \in Threads : InHandshake(u)' <=> InHandshake(u)
    BY <1>1 DEF InHandshake, Writing, Handshaking
  <2>2. c'.hsMutex = c.hsMutex /\ c'.status = c.status /\ c'.hsErr = c.hsErr
    OBVIOUS
  <2>3. \A u \in Threads : /\ th'[u].caller = th[u].caller /\ th'[u].recs = th[u].recs /\ th'[u].next = th[u].next
                          /\ th'[u].pc = "hsLock" => th[u].pc = "hsLock"
    BY <1>1
  <2>4. MutexInv
    BY DEF Inv
  <2>5. \A u \in Threads : InHandshake(u)' => c'.hsMutex = u /\ c'.status = 0 /\ ~c'.hsErr
    BY <2>1, <2>2, <2>4 DEF MutexInv
  <2>6. \A u \in Threads : c'.hsMutex = u => InHandshake(u)'
    BY <2>1, <2>2, <2>4 DEF MutexInv
  <2>7. \A u \in Threads : InHandshake(u)' \/ th'[u].pc = "hsLock" => th'[u].caller \in Callers[u]
    <3>1. SUFFICES ASSUME NEW u \in Threads, InHandshake(u)' \/ th'[u].pc = "hsLock"
                   PROVE  th'[u].caller \in Callers[u]
      OBVIOUS
    <3>2. InHandshake(u) \/ th[u].pc = "hsLock"
      BY <2>1, <2>3, <3>1
    <3>3. th[u].caller \in Callers[u]
      BY <2>4, <3>2 DEF MutexInv
    <3>. QED
      BY <2>3, <3>3
  <2>8. \A u \in Threads : \A i \in DOMAIN th'[u].recs :
            th'[u].recs[i] \in {"hello", "finished"} => th'[u].next \in Handshaking
    <3>1. SUFFICES ASSUME NEW u \in Threads, NEW i \in DOMAIN th'[u].recs,
                          th'[u].recs[i] \in {"hello", "finished"}
                   PROVE  th'[u].next \in Handshaking
      OBVIOUS
    <3>2. th'[u].recs = th[u].recs /\ th'[u].next = th[u].next
      BY <2>3, <3>1
    <3>3. i \in DOMAIN th[u].recs /\ th[u].recs[i] \in {"hello", "finished"}
      BY <3>1, <3>2
    <3>4. th[u].next \in Handshaking
      BY <2>4, <3>3 DEF MutexInv
    <3>. QED
      BY <3>2, <3>4
  <2>9. c'.hsErr => c'.status = 0
    BY <2>2, <2>4 DEF MutexInv
  <2>. QED
    BY <2>5, <2>6, <2>7, <2>8, <2>9 DEF MutexInv
<1>7. ErrorInv'
  BY <1>1, ConnAssumption DEF Inv, ErrorInv, Writing
<1>8. StreamInv'
  <2>1. /\ \A i \in 1..Len(inq') : inq'[i] = "closeNotify" => i = Len(inq') /\ peer.done
        /\ Cardinality(DataIn(inq')) \in Nat
        /\ Cardinality(DataIn(inq)) = Cardinality(DataIn(inq')) + (IF Head(inq) = "data" THEN 1 ELSE 0)
    BY RecordTaken
  <2>2. Len(got) \in Nat /\ Len(peer.data) \in Nat
    BY DEF Inv, TransportType
  <2>3. Pending' + Cardinality(DataIn(inq')) = Pending + Cardinality(DataIn(inq))
    BY <1>1, <2>1 DEF Pending
  <2>4. th'["read"].res = "eof" /\ th'["read"].pc = "idle" => th["read"].res = "eof" /\ th["read"].pc = "idle"
    BY <1>1
  <2>5. Len(got') + Pending' + Cardinality(DataIn(inq')) = Len(peer'.data)
    BY <1>1, <2>1, <2>2, <2>3 DEF Inv, StreamInv, Pending
  <2>. QED
    BY <1>1, <2>1, <2>4, <2>5 DEF Inv, StreamInv, Failing
<1>. QED
  BY <1>1, <1>2, <1>3, <1>4, <1>5, <1>7, <1>8 DEF Inv

\* The messages with those of another record are messages.
LEMMA MessageAdded ==
    ASSUME NEW q \in Seq(Messages), NEW m \in Messages PROVE WithMessage(q, m) \in Seq(Messages)
<1>1. Append(q, m) \in Seq(Messages)
  OBVIOUS
<1>2. [q EXCEPT ![Len(q)] = m] \in Seq(Messages)
  <2>1. Len(q) \in Nat /\ q \in [1..Len(q) -> Messages]
    OBVIOUS
  <2>2. [q EXCEPT ![Len(q)] = m] \in [1..Len(q) -> Messages]
    BY <2>1
  <2>. QED
    BY <2>1, <2>2, SeqDef
<1>. QED
  BY <1>1, <1>2 DEF WithMessage

\* readRecord takes a record: an alert, a handshake message or data.
LEMMA ReadRecordStep == ASSUME Inv, NEW t \in Threads, ReadRecord(t) PROVE Inv'
<1>1. /\ Reading(t) /\ inq # <<>> /\ inq' = Tail(inq) /\ UNCHANGED <<sent, acked, peer, got, timer, errs>>
      /\ ConnType /\ GoroutineType /\ c.inErr = None /\ AtRecord(t)
  BY Reader DEF Inv, ReadRecord, AtRecord
<1>2. /\ TransportType' /\ Head(inq) \in PeerRecords
      /\ \A i \in 1..Len(inq') : inq'[i] = "closeNotify" => i = Len(inq') /\ peer.done
      /\ Head(inq) = "closeNotify" => inq' = <<>> /\ peer.done
      /\ Head(inq) # "data" => Cardinality(DataIn(inq')) = Cardinality(DataIn(inq))
  BY <1>1, RecordTaken
<1>3. /\ c.warn \in 0..MaxWarn /\ c.warn + 1 \in 0..MaxWarn + 1 /\ 0 \in 0..MaxWarn + 1 /\ c.warn \in 0..MaxWarn + 1
      /\ Failed(t) \in Names
  BY <1>1, ConnAssumption DEF Inv, ErrorInv, ConnType, Failed, Names
<1>4. ASSUME NEW e \in {"eof", "err"}, NEW w \in 0..MaxWarn + 1, c' = [c EXCEPT !.warn = w, !.inErr = e]
      PROVE  ConnType' /\ KeepConn({"inErr", "warn"}) /\ c'.inErr = e /\ c'.inErr # None
  BY <1>1, <1>4 DEF ConnType, KeepConn, None
<1>5. ASSUME th' = [th EXCEPT ![t].pc = Failed(t)]
      PROVE  /\ GoroutineType' /\ KeepThread(t, {"pc", "recs", "next"})
             /\ th'[t].pc = Failed(t) /\ th'[t].recs = th[t].recs /\ th'[t].next = th[t].next
  BY <1>1, <1>3, <1>5 DEF GoroutineType, KeepThread
<1>6. ASSUME NEW a \in {"alert", "noRenegotiation"}, ThenWrite(t, <<a>>, Failed(t))
      PROVE  /\ GoroutineType' /\ KeepThread(t, {"pc", "recs", "next"})
             /\ th'[t].pc = "out" /\ th'[t].recs = <<a>> /\ th'[t].next = Failed(t)
  <2>1. <<a>> \in Seq(Records) /\ "out" \in Names
    BY DEF Records, Names
  <2> DEFINE g == [th[t] EXCEPT !.pc = "out", !.recs = <<a>>, !.next = Failed(t)]
  <2>2. th' = [th EXCEPT ![t] = g]
    BY <1>1, <1>6 DEF ThenWrite, GoroutineType
  <2>. QED
    BY <1>1, <1>3, <2>1, <2>2 DEF GoroutineType, KeepThread
<1>7. CASE Head(inq) \in {"closeNotify", "fatal"}
  <2> DEFINE e == IF Head(inq) = "closeNotify" THEN "eof" ELSE "err"
  <2>1. c' = [c EXCEPT !.inErr = e] /\ th' = [th EXCEPT ![t].pc = Failed(t)] /\ e \in {"eof", "err"}
    BY <1>7 DEF ReadRecord, AlertReceived, Goto
  <2>2. c' = [c EXCEPT !.warn = c.warn, !.inErr = e]
    BY <1>1, <2>1 DEF ConnType
  <2>3. e = "eof" => inq' = <<>> /\ peer.done
    BY <1>2
  <2>4. Head(inq) # "data"
    BY <1>7
  <2> HIDE DEF e
  <2>. QED
    BY <1>1, <1>2, <1>3, <1>4, <1>5, <2>1, <2>2, <2>3, <2>4, ReadStops
<1>8. CASE Head(inq) = "warning"
  <2>1. AlertReceived(t, "warning")
    BY <1>8 DEF ReadRecord
  <2>2. CASE c.warn < MaxWarn
    BY <1>1, <1>8, <2>1, <2>2, WarningStep DEF AlertReceived
  <2>3. CASE ~(c.warn < MaxWarn)
    <3>1. c' = [c EXCEPT !.warn = c.warn + 1, !.inErr = "err"] /\ ThenWrite(t, <<"alert">>, Failed(t))
      BY <2>1, <2>3 DEF AlertReceived
    <3>. QED
      BY <1>1, <1>2, <1>3, <1>4, <1>6, <3>1, ReadStops
  <2>. QED
    BY <2>2, <2>3
<1>9. CASE Head(inq) \in {"hello", "request", "part", "oversized", "data", "empty"}
  <2> DEFINE r == Head(inq)
             w == IF r = "empty" THEN c.warn ELSE 0
  <2>1. MessageReceived(t, r)
    BY <1>9 DEF ReadRecord
  <2>2. ASSUME NEW a \in {"alert", "noRenegotiation"}, Reject(t, a) PROVE Inv'
    <3>1. c' = [c EXCEPT !.warn = c.warn, !.inErr = "err"] /\ ThenWrite(t, <<a>>, Failed(t))
      BY <1>1, <2>2 DEF Reject, ConnType
    <3>. QED
      BY <1>1, <1>2, <1>3, <1>4, <1>6, <3>1, ReadStops
  <2>3. w \in 0..MaxWarn + 1 /\ w \in {c.warn, 0}
    BY <1>3
  <2>4. ASSUME NEW h, Goto(t, Received(t, h))
        PROVE  GoroutineType' /\ KeepThread(t, {"pc"}) /\ th'[t].pc = Received(t, h)
    <3>1. Received(t, h) \in Names
      BY DEF Received, Names
    <3>. QED
      BY <1>1, <2>4, <3>1 DEF Goto, GoroutineType, KeepThread
  <2>5. CASE /\ r \in Messages
             /\ c' = [c EXCEPT !.hand = WithMessage(c.hand, r), !.warn = w]
             /\ Goto(t, Received(t, WithMessage(c.hand, r)))
    <3>1. c.hand \in Seq(Messages)
      BY <1>1 DEF ConnType
    <3>2. WithMessage(c.hand, r) \in Seq(Messages)
      BY <2>5, <3>1, MessageAdded
    <3> DEFINE h == WithMessage(c.hand, r)
    <3>3. c' = [c EXCEPT !.hand = h, !.warn = w]
      BY <1>1, <2>5 DEF ConnType
    <3> HIDE DEF h, w
    <3>4. ConnType' /\ KeepConn({"input", "hand", "warn"}) /\ c'.warn = w /\ c'.hand = h /\ c'.input = c.input
      BY <1>1, <2>3, <3>2, <3>3 DEF ConnType, KeepConn, h
    <3>5. GoroutineType' /\ KeepThread(t, {"pc"}) /\ th'[t].pc = Received(t, c'.hand)
      BY <2>4, <2>5, <3>4 DEF h
    <3>6. r # "data"
      BY <2>5 DEF Messages
    <3>. QED
      BY <1>1, <2>3, <3>4, <3>5, <3>6, MessageKept
  <2>6. CASE /\ r \in {"data", "empty"} /\ Want(t) = "data"
             /\ c' = [c EXCEPT !.input = r, !.warn = w] /\ Goto(t, Received(t, c.hand))
    <3>1. r \in {None, "data", "empty"} /\ th[t].pc # "hsRead"
      BY <2>6 DEF Want
    <3> HIDE DEF r, w
    <3>2. ConnType' /\ KeepConn({"input", "hand", "warn"}) /\ c'.warn = w /\ c'.hand = c.hand /\ c'.input = r
      BY <1>1, <2>3, <2>6, <3>1 DEF ConnType, KeepConn
    <3>3. GoroutineType' /\ KeepThread(t, {"pc"}) /\ th'[t].pc = Received(t, c'.hand)
      BY <2>4, <2>6, <3>2
    <3>. QED
      BY <1>1, <2>3, <3>1, <3>2, <3>3, MessageKept DEF r
  <2>. QED
    BY <1>9, <2>1, <2>2, <2>5, <2>6 DEF MessageReceived, Messages
<1>. QED
  BY <1>2, <1>7, <1>8, <1>9 DEF PeerRecords

\* Handshake takes handshakeMutex only when no handshake has ended before.
LEMMA HandshakeBeginsStep == ASSUME Inv, NEW t \in Threads, HandshakeBegins(t) PROVE Inv'
<1>1. /\ ConnType /\ GoroutineType /\ TransportType /\ th[t].pc = "hsLock" /\ c.hsMutex = None /\ NoIO
      /\ UNCHANGED <<sent, peer, got, inq>>
  BY DEF Inv, HandshakeBegins, At, NoIO
<1>2. TransportType'
  BY <1>1 DEF NoIO, TransportType
<1> DEFINE p == IF c.hsErr \/ c.status = 1 THEN AfterHandshake(t, c.hsErr) ELSE "hsIn"
           m == IF c.hsErr \/ c.status = 1 THEN None ELSE t
<1>3. c' = [c EXCEPT !.hsMutex = m] /\ th' = [th EXCEPT ![t].pc = p]
  BY <1>1 DEF HandshakeBegins, Goto, ConnType
<1>4. p \in Names /\ m \in Threads \cup {None}
  BY <1>1 DEF Names, AfterHandshake, GoroutineType
<1>5. /\ t \notin {"dial", "close"} /\ th[t].caller \in Callers[t]
      /\ c.status = 1 => ~c.hsErr
      /\ \A u \in Threads : ~InHandshake(u)
  BY <1>1 DEF Inv, Control, Points, MutexInv, Threads, None
<1>6. \/ m = None /\ c.status = 1 /\ p = th[t].caller
      \/ m = None /\ c.hsErr /\ p \in {"failed", "rdDone", "report"} /\ (p = "rdDone" => t = "read") /\ (p = "report" <=> t = "hand")
      \/ m = t /\ c.status = 0 /\ ~c.hsErr /\ p = "hsIn"
  BY <1>1, <1>5 DEF AfterHandshake, Callers, Threads, ConnType
<1> HIDE DEF p, m
<1>7. ConnType' /\ KeepConn({"hsMutex"}) /\ c'.hsMutex = m
  BY <1>1, <1>3, <1>4 DEF ConnType, KeepConn
<1>8. GoroutineType' /\ KeepThread(t, {"pc"}) /\ th'[t].pc = p
  BY <1>1, <1>3, <1>4 DEF GoroutineType, KeepThread
<1> USE DEF Threads, None, KeepConn, KeepThread
<1>9. Control'
  BY <1>1, <1>5, <1>6, <1>7, <1>8 DEF Inv, Control, Writing, Points, Nexts, Handshaking, Callers
<1>10. ReadInv' /\ ActiveInv'
  BY <1>1, <1>5, <1>6, <1>7, <1>8 DEF Inv, ReadInv, ActiveInv, Writing, Callers
<1>11. OutInv' /\ BufferInv' /\ CloseInv'
  <2>1. p \notin {"number", "transmit", "flushing", "flush", "out"}
    BY <1>5, <1>6 DEF Callers
  <2>. QED
    BY <1>1, <1>7, <1>8, <2>1, Beside
<1>12. MutexInv'
  BY <1>1, <1>5, <1>6, <1>7, <1>8 DEF Inv, MutexInv, InHandshake, Writing, Handshaking, Callers
<1>13. ErrorInv'
  BY <1>1, <1>5, <1>6, <1>7, <1>8 DEF Inv, ErrorInv, Writing, Callers
<1>14. StreamInv'
  <2>1. th'["read"].pc = "idle" => th["read"].pc = "idle"
    BY <1>1, <1>5, <1>6, <1>8 DEF Callers
  <2>2. th'["read"].res = th["read"].res /\ \A u \in Threads : Failing(u) => Failing(u)'
    BY <1>1, <1>8 DEF Failing
  <2>. QED
    BY <1>1, <1>7, <2>1, <2>2 DEF Inv, StreamInv, Pending, DataIn
<1>. QED
  BY <1>2, <1>7, <1>8, <1>9, <1>10, <1>11, <1>12, <1>13, <1>14 DEF Inv

\* clientHandshake sends its hello under handshakeMutex.
LEMMA HandshakeSendsStep == ASSUME Inv, NEW t \in Threads, HandshakeSends(t) PROVE Inv'
<1>1. /\ ConnType /\ GoroutineType /\ TransportType /\ th[t].pc = "hsIn" /\ NoIO
      /\ UNCHANGED <<sent, peer, got, inq>> /\ c' = [c EXCEPT !.in = t]
      /\ ThenWrite(t, <<"hello">>, "hsRead")
  BY DEF Inv, HandshakeSends, At, NoIO
<1>2. TransportType'
  BY <1>1 DEF NoIO, TransportType
<1>3. ConnType' /\ KeepConn({"in"})
  BY <1>1 DEF ConnType, KeepConn
<1>4. /\ GoroutineType' /\ KeepThread(t, {"pc", "recs", "next"})
      /\ th'[t].pc = "out" /\ th'[t].recs = <<"hello">> /\ th'[t].next = "hsRead"
  <2>1. <<"hello">> \in Seq(Records) /\ "out" \in Names /\ "hsRead" \in Names
    BY DEF Records, Names
  <2> DEFINE g == [th[t] EXCEPT !.pc = "out", !.recs = <<"hello">>, !.next = "hsRead"]
  <2>2. th' = [th EXCEPT ![t] = g]
    BY <1>1 DEF ThenWrite, GoroutineType
  <2>. QED
    BY <1>1, <2>1, <2>2 DEF GoroutineType, KeepThread
<1> USE DEF Threads, None, KeepConn, KeepThread
<1>5. t \notin {"dial", "close"}
  BY <1>1 DEF Inv, Control, Points
<1>6. Control'
  <2>1. th'[t].recs # <<>> /\ th'[t].next \in Nexts[t] /\ "out" \in Points[t]
    BY <1>1, <1>4, <1>5 DEF Inv, Control, Points, Nexts, Handshaking
  <2>. QED
    BY <1>4, <2>1, ZenonT(90) DEF Inv, Control, Writing
<1>7. ReadInv' /\ ActiveInv'
  BY <1>1, <1>3, <1>4, <1>5 DEF Inv, ReadInv, ActiveInv, Writing
<1>8. OutInv' /\ BufferInv' /\ CloseInv'
  <2>1. \A i \in DOMAIN th'[t].recs : th'[t].recs[i] \notin Last
    BY <1>4 DEF Last
  <2>. QED
    BY <1>1, <1>3, <1>4, <2>1, Beside
<1>10. MutexInv'
  BY <1>1, <1>3, <1>4, <1>5 DEF Inv, MutexInv, InHandshake, Writing, Handshaking
<1>11. ErrorInv'
  BY <1>1, <1>3, <1>4, <1>5 DEF Inv, ErrorInv, Writing
<1>12. StreamInv'
  <2>1. th'["read"].pc = "idle" => th["read"].pc = "idle"
    BY <1>1, <1>4
  <2>2. th'["read"].res = th["read"].res /\ \A u \in Threads : Failing(u) => Failing(u)'
    BY <1>1, <1>4 DEF Failing
  <2>. QED
    BY <1>1, <1>3, <2>1, <2>2 DEF Inv, StreamInv, Pending, DataIn
<1>. QED
  BY <1>2, <1>3, <1>4, <1>6, <1>7, <1>8, <1>10, <1>11, <1>12 DEF Inv

\* clientHandshake answers the server, or gives up with an alert.
LEMMA HandshakeAnsweredStep == ASSUME Inv, NEW t \in Threads, HandshakeAnswered(t) PROVE Inv'
<1>0. CASE Head(c.hand) = "oversized"
  <2>1. th[t].pc = "hsRead" /\ NoIO /\ SendAlertLocked(t, Failed(t))
    BY <1>0 DEF HandshakeAnswered, At, Failed
  <2>. QED
    BY <2>1, AlertedStep
<1>a. SUFFICES ASSUME Head(c.hand) # "oversized" PROVE Inv'
  BY <1>0
<1>1. /\ ConnType /\ GoroutineType /\ TransportType /\ th[t].pc = "hsRead" /\ c.hand # <<>> /\ NoIO
      /\ UNCHANGED <<sent, peer, got, inq>>
  BY DEF Inv, HandshakeAnswered, At, NoIO, HasMessage
<1>2. TransportType'
  BY <1>1 DEF NoIO, TransportType
<1>4. PICK a \in {"finished", "alert"}, n \in {"flush", "hsFail"}, f \in BOOLEAN :
         /\ ThenWrite(t, <<a>>, n) /\ c' = [c EXCEPT !.hand = Tail(c.hand), !.buffering = f]
         /\ (c.buffering => f) /\ (n = "flush" => f)
  <2>1. CASE Head(c.hand) = "hello"
    <3>1. ThenWrite(t, <<"finished">>, "flush") /\ c' = [c EXCEPT !.hand = Tail(c.hand), !.buffering = TRUE]
      BY <1>1, <2>1 DEF HandshakeAnswered, ConnType
    <3>. QED
      BY <3>1
  <2>2. CASE Head(c.hand) # "hello"
    <3>1. PICK first \in BOOLEAN : c' = [c EXCEPT !.hand = Tail(c.hand), !.buffering = c.buffering \/ ~first]
      BY <1>1, <1>a, <2>2 DEF HandshakeAnswered, ConnType
    <3>2. ThenWrite(t, <<"alert">>, "hsFail") /\ c.buffering \in BOOLEAN
      BY <1>1, <1>a, <2>2 DEF HandshakeAnswered, ConnType
    <3>. QED
      BY <3>1, <3>2
  <2>. QED
    BY <2>1, <2>2
<1>3. ConnType' /\ KeepConn({"hand", "buffering"}) /\ c'.buffering = f
  <2>1. c.hand \in Seq(Messages)
    BY <1>1 DEF ConnType
  <2>2. Tail(c.hand) \in Seq(Messages)
    BY <1>1, <2>1
  <2>. QED
    BY <1>1, <1>4, <2>2 DEF ConnType, KeepConn
<1>5. /\ GoroutineType' /\ KeepThread(t, {"pc", "recs", "next"})
      /\ th'[t].pc = "out" /\ th'[t].recs = <<a>> /\ th'[t].next = n
  <2>1. <<a>> \in Seq(Records) /\ "out" \in Names /\ n \in Names
    BY DEF Records, Names
  <2> DEFINE g == [th[t] EXCEPT !.pc = "out", !.recs = <<a>>, !.next = n]
  <2>2. th' = [th EXCEPT ![t] = g]
    BY <1>1, <1>4 DEF ThenWrite, GoroutineType
  <2>. QED
    BY <1>1, <2>1, <2>2 DEF GoroutineType, KeepThread
<1> USE DEF Threads, None, KeepConn, KeepThread
<1>6. /\ t \notin {"dial", "close"} /\ c.status = 0
      /\ \A u \in Threads \ {t} : ~InHandshake(u)
  BY <1>1 DEF Inv, Control, Points, MutexInv, InHandshake, Handshaking
<1>7. Control'
  BY <1>1, <1>3, <1>5, <1>6 DEF Inv, Control, Writing, Points, Nexts, Handshaking
<1>8. ReadInv' /\ ActiveInv'
  BY <1>1, <1>3, <1>5, <1>6 DEF Inv, ReadInv, ActiveInv, Writing
<1>9. OutInv' /\ BufferInv' /\ CloseInv'
  <2>1. \A i \in DOMAIN th'[t].recs : th'[t].recs[i] \notin Last
    BY <1>5 DEF Last
  <2>. QED
    BY <1>1, <1>3, <1>4, <1>5, <2>1, Beside
<1>11. MutexInv'
  BY <1>1, <1>3, <1>5, <1>6 DEF Inv, MutexInv, InHandshake, Writing, Handshaking
<1>12. ErrorInv'
  BY <1>1, <1>3, <1>5, <1>6 DEF Inv, ErrorInv, Writing
<1>13. StreamInv'
  <2>1. th'["read"].pc = "idle" => th["read"].pc = "idle"
    BY <1>1, <1>5
  <2>2. th'["read"].res = th["read"].res /\ \A u \in Threads : Failing(u) => Failing(u)'
    BY <1>1, <1>5 DEF Failing
  <2>. QED
    BY <1>1, <1>3, <2>1, <2>2 DEF Inv, StreamInv, Pending, DataIn
<1>. QED
  BY <1>2, <1>3, <1>5, <1>7, <1>8, <1>9, <1>11, <1>12, <1>13 DEF Inv

\* Handshake records its result and releases handshakeMutex.
LEMMA HandshakeReturnsStep == ASSUME Inv, NEW t \in Threads, HandshakeReturns(t) PROVE Inv'
<1> DEFINE ok == th[t].pc = "hsOk"
           i == IF th[t].caller = "rdLoop" THEN c.in ELSE Released(c.in, t)
           p == IF ok \/ th[t].caller = "report" THEN th[t].caller
                ELSE IF th[t].caller = "rdLoop" THEN "rdDone" ELSE "failed"
<1>1. /\ ConnType /\ GoroutineType /\ TransportType /\ th[t].pc \in {"hsOk", "hsFail"} /\ NoIO
      /\ UNCHANGED <<sent, peer, got, inq>>
  BY DEF Inv, HandshakeReturns, NoIO
<1>2. TransportType'
  BY <1>1 DEF NoIO, TransportType
<1>3. /\ c.status = 0 /\ ~c.hsErr /\ c.hsMutex = t /\ t \notin {"dial", "close"} /\ th[t].caller \in Callers[t]
      /\ \A u \in Threads \ {t} : ~InHandshake(u)
  BY <1>1 DEF Inv, Control, Points, MutexInv, InHandshake, Handshaking, Threads, None
<1>4. i \in Threads \cup {None} /\ c.handshakes \in Nat
  BY <1>1 DEF ConnType, Released, Threads, None
<1>5. c' = IF ok THEN [c EXCEPT !.status = 1, !.handshakes = c.handshakes + 1, !.hsMutex = None, !.in = i]
                 ELSE [c EXCEPT !.hsErr = TRUE, !.hsMutex = None, !.in = i]
  BY <1>1 DEF HandshakeReturns, HandshakeResult, At, ConnType
<1> HIDE DEF i
<1>6. /\ ConnType' /\ KeepConn({"status", "handshakes", "hsErr", "hsMutex", "in"}) /\ c'.hsMutex = None
      /\ ok => c'.status = 1 /\ c'.hsErr = c.hsErr
      /\ ~ok => c'.status = c.status /\ c'.hsErr = TRUE
  <2>1. CASE ok
    <3>1. c' = [c EXCEPT !.status = 1, !.handshakes = c.handshakes + 1, !.hsMutex = None, !.in = i]
      BY <1>5, <2>1
    <3>2. c.handshakes + 1 \in Nat
      BY <1>4
    <3>. QED
      BY <1>1, <1>4, <2>1, <3>1, <3>2 DEF ConnType, KeepConn
  <2>2. CASE ~ok
    BY <1>1, <1>4, <1>5, <2>2 DEF ConnType, KeepConn
  <2>. QED
    BY <2>1, <2>2
<1>7. th' = [th EXCEPT ![t].pc = p] /\ p \in Names
  BY <1>1, <1>3, <1>6 DEF HandshakeReturns, Goto, AfterHandshake, Names, GoroutineType
<1>8. \/ ok /\ p = th[t].caller
      \/ ~ok /\ p \in {"failed", "rdDone", "report"} /\ (p = "rdDone" => t = "read") /\ (p = "report" <=> t = "hand")
  BY <1>3 DEF Callers, Threads
<1> HIDE DEF p
<1>9. GoroutineType' /\ KeepThread(t, {"pc"}) /\ th'[t].pc = p
  BY <1>1, <1>7 DEF GoroutineType, KeepThread
<1> USE DEF Threads, None, KeepConn, KeepThread
<1>10. Control'
  BY <1>1, <1>3, <1>6, <1>8, <1>9 DEF Inv, Control, Writing, Points, Nexts, Handshaking, Callers
<1>11. ReadInv' /\ ActiveInv'
  BY <1>1, <1>3, <1>6, <1>8, <1>9 DEF Inv, ReadInv, ActiveInv, Control, Points, Writing, Callers
<1>12. OutInv' /\ BufferInv' /\ CloseInv'
  <2>1. p \notin {"number", "transmit", "flushing", "flush", "out"}
    BY <1>3, <1>8 DEF Callers
  <2>. QED
    BY <1>1, <1>6, <1>9, <2>1, Beside
<1>14. MutexInv'
  BY <1>1, <1>3, <1>6, <1>8, <1>9 DEF Inv, MutexInv, InHandshake, Writing, Handshaking, Callers
<1>15. ErrorInv'
  BY <1>1, <1>3, <1>6, <1>8, <1>9 DEF Inv, ErrorInv, Writing, InHandshake, Handshaking, Callers
<1>16. StreamInv'
  <2>1. th'["read"].pc = "idle" => th["read"].pc = "idle"
    BY <1>1, <1>3, <1>8, <1>9 DEF Callers
  <2>2. th'["read"].res = th["read"].res
    BY <1>1, <1>9
  <2>3. (\E u \in Threads : Failing(u)) => c'.hsErr \/ \E u \in Threads : Failing(u)'
    BY <1>1, <1>6, <1>9 DEF Failing
  <2>4. c.inErr = "eof" => c.input # "data" \/ c'.hsErr \/ \E u \in Threads : Failing(u)'
    BY <1>3, <2>3 DEF Inv, StreamInv
  <2>. QED
    BY <1>1, <1>6, <2>1, <2>2, <2>4 DEF Inv, StreamInv, Pending, DataIn
<1>. QED
  BY <1>2, <1>6, <1>9, <1>10, <1>11, <1>12, <1>14, <1>15, <1>16 DEF Inv

\* A step of a goroutine that neither writes nor handshakes, to a place where it
\* does not write or handshake either, may take c.in or a handshake message but
\* touches neither the stream nor what the other goroutines rely on.
LEMMA QuietStep ==
    ASSUME Inv, NEW t \in Threads, ConnType', GoroutineType', TransportType', ActiveInv',
           UNCHANGED <<sent, peer, got, inq>>, KeepConn({"in", "active", "hand", "closed"}),
           \A u \in Threads \ {t} : th'[u] = th[u],
           ~Writing(t), ~InHandshake(t), th'[t].recs = <<>>,
           th'[t].pc \in Points[t] \ ({"out", "number", "transmit", "flushing", "hsIn", "renegotiate", "rdPeek"} \cup Handshaking),
           th'[t].pc = "cnOut" => th'[t].next \in Nexts[t],
           th'[t].pc = "hsLock" => th'[t].caller \in Callers[t],
           th'[t].pc \in {"rdIn", "rdLoop", "reLock"} => c.status = 1,
           th'[t].pc = "reLock" => c.inErr = None,
           th'[t].pc = "rdDone" => c.status = 1 \/ c.hsErr,
           t # "read" => c'.hand = c.hand,
           t = "read" /\ th'[t].res = "eof" /\ th'[t].pc = "idle" =>
              Len(got) = Len(peer.data) /\ (peer.done \/ peer.closed)
    PROVE  Inv'
<1> USE DEF Threads, None, KeepConn
<1>1. Control'
  BY DEF Inv, Control, Writing
<1>2. ReadInv'
  BY DEF Inv, ReadInv, Writing
<1>3. MutexInv'
  <2>1. \A u \in Threads : InHandshake(u)' <=> InHandshake(u)
    BY DEF InHandshake, Writing
  <2>. QED
    BY <2>1 DEF Inv, MutexInv
<1>4. OutInv' /\ BufferInv' /\ CloseInv'
  <2>1. /\ th[t].pc \notin {"number", "transmit", "flushing"} /\ th'[t].pc \notin {"number", "transmit", "flushing", "flush", "out"}
        /\ \A i \in DOMAIN th'[t].recs : th'[t].recs[i] \notin Last
    BY DEF Writing, InHandshake, Handshaking
  <2>. QED
    BY <2>1, Beside
<1>6. ErrorInv'
  BY DEF Inv, ErrorInv, Writing, Handshaking
<1>7. StreamInv'
  <2>1. \A u \in Threads : Failing(u) => Failing(u)'
    BY DEF InHandshake, Handshaking, Failing
  <2>. QED
    BY <2>1 DEF Inv, StreamInv, Pending, DataIn
<1>. QED
  BY <1>1, <1>2, <1>3, <1>4, <1>6, <1>7 DEF Inv

\* A goroutine outside the handshake and without a record to write.
LEMMA Outside ==
    ASSUME Inv, NEW t \in Threads,
           th[t].pc \notin {"out", "number", "transmit", "flushing", "hsIn"} \cup Handshaking
    PROVE  /\ ~Writing(t) /\ ~InHandshake(t) /\ th[t].recs = <<>>
           /\ ConnType /\ GoroutineType /\ TransportType /\ ActiveInv
  BY DEF Inv, Control, Writing, InHandshake, Handshaking

\* Read begins with a call of Handshake.
LEMMA ReadBeginsStep == ASSUME Inv, ReadBegins PROVE Inv'
<1> DEFINE t == "read"
<1>1. t \in Threads /\ th[t].pc = "idle"
  BY DEF ReadBegins, At, Threads
<1>2. /\ ~Writing(t) /\ ~InHandshake(t) /\ th[t].recs = <<>>
      /\ ConnType /\ GoroutineType /\ TransportType /\ ActiveInv
  BY <1>1, Outside DEF Handshaking
<1>3. /\ th' = [th EXCEPT ![t] = [th[t] EXCEPT !.pc = "hsLock", !.caller = "rdIn", !.calls = th[t].calls + 1]]
      /\ c' = c /\ NoIO /\ "hsLock" \in Names /\ "rdIn" \in Names /\ th[t].calls + 1 \in Nat
  BY <1>1, <1>2 DEF ReadBegins, GoroutineType, Names
<1>4. ConnType' /\ KeepConn({}) /\ TransportType' /\ UNCHANGED <<sent, peer, got, inq>>
  BY <1>2, <1>3 DEF ConnType, KeepConn, TransportType, NoIO
<1>5. GoroutineType' /\ KeepThread(t, {"pc", "caller", "calls"}) /\ th'[t].pc = "hsLock" /\ th'[t].caller = "rdIn"
  BY <1>1, <1>2, <1>3 DEF GoroutineType, KeepThread
<1>6. ActiveInv'
  BY <1>2, <1>3, <1>5 DEF ActiveInv, KeepThread, Threads
<1>. QED
  BY <1>1, <1>2, <1>4, <1>5, <1>6, QuietStep DEF KeepThread, KeepConn, Points, Callers, Threads, Handshaking

\* Read takes c.in after its handshake has succeeded.
LEMMA ReadLocksStep == ASSUME Inv, ReadLocks PROVE Inv'
<1> DEFINE t == "read"
<1>1. t \in Threads /\ th[t].pc = "rdIn"
  BY DEF ReadLocks, At, Threads
<1>2. /\ ~Writing(t) /\ ~InHandshake(t) /\ th[t].recs = <<>>
      /\ ConnType /\ GoroutineType /\ TransportType /\ ActiveInv
  BY <1>1, Outside DEF Handshaking
<1>3. /\ th' = [th EXCEPT ![t] = [th[t] EXCEPT !.pc = "rdLoop", !.empty = 0]]
      /\ c' = [c EXCEPT !.in = t] /\ NoIO /\ "rdLoop" \in Names
  BY <1>1, <1>2, ZenonT(90) DEF ReadLocks, GoroutineType, Names
<1>4. ConnType' /\ KeepConn({"in"}) /\ TransportType' /\ UNCHANGED <<sent, peer, got, inq>>
  BY <1>1, <1>2, <1>3 DEF ConnType, KeepConn, TransportType, NoIO
<1>5. GoroutineType' /\ KeepThread(t, {"pc", "empty"}) /\ th'[t].pc = "rdLoop"
  BY <1>1, <1>2, <1>3 DEF GoroutineType, KeepThread
<1>6. ActiveInv'
  BY <1>2, <1>4, <1>5 DEF ActiveInv, KeepThread, KeepConn, Threads
<1>7. c.status = 1
  BY <1>1 DEF Inv, ReadInv
<1>. QED
  BY <1>1, <1>2, <1>4, <1>5, <1>6, <1>7, QuietStep DEF KeepThread, KeepConn, Points, Threads, Handshaking

\* Read ends with the error of the input.
LEMMA ReadLoopsStep == ASSUME Inv, ReadLoops PROVE Inv'
<1> DEFINE t == "read"
<1>1. t \in Threads /\ th[t].pc = "rdLoop"
  BY DEF ReadLoops, At, Threads
<1>2. /\ ~Writing(t) /\ ~InHandshake(t) /\ th[t].recs = <<>>
      /\ ConnType /\ GoroutineType /\ TransportType /\ ActiveInv
  BY <1>1, Outside DEF Handshaking
<1>3. th' = [th EXCEPT ![t].pc = "rdDone"] /\ c' = c /\ NoIO /\ "rdDone" \in Names
  BY DEF ReadLoops, Goto, Names
<1>4. ConnType' /\ KeepConn({}) /\ TransportType' /\ UNCHANGED <<sent, peer, got, inq>>
  BY <1>2, <1>3 DEF ConnType, KeepConn, TransportType, NoIO
<1>5. GoroutineType' /\ KeepThread(t, {"pc"}) /\ th'[t].pc = "rdDone"
  BY <1>1, <1>2, <1>3 DEF GoroutineType, KeepThread
<1>6. ActiveInv'
  BY <1>2, <1>4, <1>5 DEF ActiveInv, KeepThread, KeepConn, Threads
<1>7. c.status = 1
  BY <1>1 DEF Inv, ReadInv
<1>. QED
  BY <1>1, <1>2, <1>4, <1>5, <1>6, <1>7, QuietStep DEF KeepThread, KeepConn, Points, Threads, Handshaking

\* handleRenegotiation takes the message, and refuses it or goes on.
LEMMA HandleRenegotiationStep == ASSUME Inv, HandleRenegotiation PROVE Inv'
<1> DEFINE t == "read"
<1>1. t \in Threads /\ th[t].pc = "renegotiate"
  BY DEF HandleRenegotiation, At, Threads
<1>2. /\ ~Writing(t) /\ ~InHandshake(t) /\ th[t].recs = <<>>
      /\ ConnType /\ GoroutineType /\ TransportType /\ ActiveInv
  BY <1>1, Outside DEF Handshaking
<1>3. c.status = 1 /\ c.inErr = None /\ c.hand # <<>>
  BY <1>1 DEF Inv, ReadInv, ErrorInv, Threads, HandleRenegotiation, HasMessage
<1>4. /\ c' = [c EXCEPT !.hand = Tail(c.hand)] /\ NoIO
      /\ \/ ThenWrite(t, <<"alert">>, "rdDone")
         \/ ThenWrite(t, <<"noRenegotiation">>, "rdDone")
         \/ Goto(t, "reLock")
  BY <1>2 DEF HandleRenegotiation, ConnType
<1>5. ConnType' /\ KeepConn({"hand"}) /\ TransportType' /\ UNCHANGED <<sent, peer, got, inq>>
  <2>1. c.hand \in Seq(Messages)
    BY <1>2 DEF ConnType
  <2>2. Tail(c.hand) \in Seq(Messages)
    BY <1>3, <2>1
  <2>. QED
    BY <1>2, <1>4, <2>2 DEF ConnType, KeepConn, TransportType, NoIO
<1>6. CASE Goto(t, "reLock")
  <2>1. GoroutineType' /\ KeepThread(t, {"pc"}) /\ th'[t].pc = "reLock"
    <3>1. "reLock" \in Names
      BY DEF Names
    <3>. QED
      BY <1>1, <1>2, <1>6, <3>1 DEF Goto, GoroutineType, KeepThread
  <2>2. ActiveInv'
    BY <1>2, <1>5, <2>1 DEF ActiveInv, KeepThread, KeepConn, Threads
  <2>. QED
    BY <1>1, <1>2, <1>3, <1>5, <2>1, <2>2, QuietStep DEF KeepThread, KeepConn, Points, Threads, Handshaking
<1>7. CASE ~Goto(t, "reLock")
  <2>1. PICK a \in {"alert", "noRenegotiation"} : ThenWrite(t, <<a>>, "rdDone")
    BY <1>4, <1>7
  <2>2. /\ GoroutineType' /\ KeepThread(t, {"pc", "recs", "next"})
        /\ th'[t].pc = "out" /\ th'[t].recs = <<a>> /\ th'[t].next = "rdDone"
    <3>1. <<a>> \in Seq(Records) /\ "out" \in Names /\ "rdDone" \in Names
      BY DEF Records, Names
    <3> DEFINE g == [th[t] EXCEPT !.pc = "out", !.recs = <<a>>, !.next = "rdDone"]
    <3>2. th' = [th EXCEPT ![t] = g]
      BY <1>1, <1>2, <2>1 DEF ThenWrite, GoroutineType
    <3>. QED
      BY <1>1, <1>2, <3>1, <3>2 DEF GoroutineType, KeepThread
  <2> USE DEF Threads, None, KeepConn, KeepThread
  <2>3. Control'
    <3>1. th'[t].recs # <<>> /\ th'[t].next \in Nexts[t] /\ "out" \in Points[t]
      BY <2>2 DEF Nexts, Points
    <3>. QED
      BY <2>2, <3>1 DEF Inv, Control, Writing
  <2>4. ReadInv' /\ ActiveInv'
    BY <1>1, <1>3, <1>5, <2>2 DEF Inv, ReadInv, ActiveInv, Writing
  <2>5. OutInv' /\ BufferInv' /\ CloseInv'
    <3>1. \A i \in DOMAIN th'[t].recs : th'[t].recs[i] \notin Last
      BY <2>2 DEF Last
    <3>. QED
      BY <1>1, <1>5, <2>2, <3>1, Beside
  <2>7. MutexInv'
    <3>1. \A u \in Threads : InHandshake(u)' <=> InHandshake(u)
      BY <1>1, <2>2 DEF InHandshake, Writing, Handshaking
    <3>. QED
      BY <1>1, <1>5, <2>2, <3>1 DEF Inv, MutexInv
  <2>8. ErrorInv'
    BY <1>1, <1>5, <2>2 DEF Inv, ErrorInv, Writing
  <2>9. StreamInv'
    <3>1. \A u \in Threads : Failing(u) => Failing(u)'
      BY <1>1, <2>2 DEF Failing
    <3>. QED
      BY <1>5, <2>2, <3>1 DEF Inv, StreamInv, Pending, DataIn
  <2>. QED
    BY <1>5, <2>2, <2>3, <2>4, <2>5, <2>7, <2>8, <2>9 DEF Inv
<1>. QED
  BY <1>6, <1>7

\* handleRenegotiation without a whole message, or with one that is too long.
LEMMA RenegotiationUnreadStep == ASSUME Inv, RenegotiationUnread PROVE Inv'
<1> DEFINE t == "read"
<1>1. /\ t \in Threads /\ th[t].pc = "renegotiate" /\ NoIO /\ Failed(t) = "rdDone" /\ AtRecord(t)
      /\ ConnType /\ GoroutineType /\ TransportType
  BY DEF RenegotiationUnread, At, Threads, Failed, AtRecord, Inv
<1>2. CASE SendAlertLocked(t, "rdDone")
  BY <1>1, <1>2, AlertedStep
<1>3. CASE Reject(t, "alert")
  <2> DEFINE g == [th[t] EXCEPT !.pc = "out", !.recs = <<"alert">>, !.next = "rdDone"]
  <2>1. <<"alert">> \in Seq(Records) /\ "out" \in Names /\ "rdDone" \in Names
    BY DEF Records, Names
  <2>2. th' = [th EXCEPT ![t] = g] /\ c' = [c EXCEPT !.inErr = "err"]
    BY <1>1, <1>3 DEF Reject, ThenWrite, GoroutineType
  <2>3. /\ GoroutineType' /\ KeepThread(t, {"pc", "recs", "next"})
        /\ th'[t].pc = "out" /\ th'[t].recs = <<"alert">> /\ th'[t].next = "rdDone"
    BY <1>1, <2>1, <2>2 DEF GoroutineType, KeepThread
  <2>4. ConnType' /\ KeepConn({"inErr", "warn"}) /\ c'.inErr = "err" /\ c'.inErr # None /\ c'.inErr # "eof"
    BY <1>1, <2>2 DEF ConnType, KeepConn, None
  <2>5. TransportType' /\ UNCHANGED <<sent, peer, got, inq>>
    BY <1>1 DEF NoIO, TransportType
  <2>6. \A i \in 1..Len(inq) : inq[i] = "closeNotify" => i = Len(inq) /\ peer.done
    BY DEF Inv, StreamInv
  <2> HIDE DEF t
  <2>. QED
    BY <1>1, <2>3, <2>4, <2>5, <2>6, ReadStops
<1>. QED
  BY <1>2, <1>3 DEF RenegotiationUnread

\* A renegotiation resets handshakeStatus under handshakeMutex, and Read is the
\* goroutine in clientHandshake.
LEMMA RenegotiateStep == ASSUME Inv, Renegotiate PROVE Inv'
<1> DEFINE t == "read"
<1>1. t \in Threads /\ th[t].pc = "reLock" /\ c.hsMutex = None
  BY DEF Renegotiate, At, Threads
<1>2. /\ ~Writing(t) /\ ~InHandshake(t) /\ th[t].recs = <<>>
      /\ ConnType /\ GoroutineType /\ TransportType /\ ActiveInv
  BY <1>1, Outside DEF Handshaking
<1>3. c.status = 1 /\ ~c.hsErr /\ c.inErr = None
  BY <1>1 DEF Inv, ReadInv, ErrorInv, MutexInv, Threads
<1>4. /\ c' = [c EXCEPT !.hsMutex = "read", !.status = 0] /\ NoIO
      /\ th' = [th EXCEPT ![t] = [th[t] EXCEPT !.pc = "out", !.recs = <<"hello">>, !.caller = "rdLoop", !.next = "hsRead"]]
  BY <1>1, <1>2 DEF Renegotiate, GoroutineType
<1>5. ConnType' /\ KeepConn({"hsMutex", "status"}) /\ c'.hsMutex = t /\ c'.status = 0
      /\ TransportType' /\ UNCHANGED <<sent, peer, got, inq>>
  BY <1>1, <1>2, <1>4 DEF ConnType, KeepConn, TransportType, NoIO
<1>6. /\ GoroutineType' /\ KeepThread(t, {"pc", "recs", "caller", "next"})
      /\ th'[t].pc = "out" /\ th'[t].recs = <<"hello">> /\ th'[t].next = "hsRead" /\ th'[t].caller = "rdLoop"
  <2>1. <<"hello">> \in Seq(Records) /\ "out" \in Names /\ "hsRead" \in Names /\ "rdLoop" \in Names
    BY DEF Records, Names
  <2>. QED
    BY <1>1, <1>2, <1>4, <2>1 DEF GoroutineType, KeepThread
<1> USE DEF Threads, None, KeepConn, KeepThread
<1>7. Control'
  <2>1. th'[t].recs # <<>> /\ th'[t].next \in Nexts[t] /\ "out" \in Points[t]
    BY <1>6 DEF Nexts, Points, Handshaking
  <2>. QED
    BY <1>6, <2>1 DEF Inv, Control, Writing
<1>8. ReadInv' /\ ActiveInv'
  BY <1>1, <1>3, <1>5, <1>6 DEF Inv, ReadInv, ActiveInv, Writing
<1>9. OutInv' /\ BufferInv' /\ CloseInv'
  <2>1. \A i \in DOMAIN th'[t].recs : th'[t].recs[i] \notin Last
    BY <1>6 DEF Last
  <2>. QED
    BY <1>1, <1>5, <1>6, <2>1, Beside
<1>11. MutexInv'
  <2>1. \A u \in Threads : ~InHandshake(u)
    BY <1>1 DEF Inv, MutexInv
  <2>2. \A u \in Threads : InHandshake(u)' <=> u = t
    BY <1>1, <1>6, <2>1 DEF InHandshake, Writing, Handshaking
  <2>. QED
    BY <1>1, <1>3, <1>5, <1>6, <2>2 DEF Inv, MutexInv, Callers, Handshaking
<1>12. ErrorInv'
  BY <1>1, <1>3, <1>5, <1>6 DEF Inv, ErrorInv, Writing
<1>13. StreamInv'
  <2>1. \A u \in Threads : Failing(u) => Failing(u)'
    BY <1>1, <1>6 DEF Failing
  <2>. QED
    BY <1>5, <1>6, <2>1 DEF Inv, StreamInv, Pending, DataIn
<1>. QED
  BY <1>5, <1>6, <1>7, <1>8, <1>9, <1>11, <1>12, <1>13 DEF Inv

\* Read returns: the end of the stream only after all data.
LEMMA ReadReturnsStep == ASSUME Inv, ReadReturns \/ ReadFails PROVE Inv'
<1> DEFINE t == "read"
           e == IF ReadFails \/ c.hsErr THEN "err" ELSE c.inErr
<1>1. t \in Threads /\ th[t].pc \in {"rdDone", "failed"}
  BY DEF ReadReturns, ReadFails, At, Threads
<1>2. /\ ~Writing(t) /\ ~InHandshake(t) /\ th[t].recs = <<>>
      /\ ConnType /\ GoroutineType /\ TransportType /\ ActiveInv
  BY <1>1, Outside DEF Handshaking
<1>3. \/ th[t].pc = "failed" /\ c' = c /\ Return(t, "err") /\ NoIO
      \/ th[t].pc = "rdDone" /\ c' = [c EXCEPT !.in = None] /\ Return(t, IF c.hsErr THEN "err" ELSE c.inErr) /\ NoIO
  BY DEF ReadReturns, ReadFails, At
<1>4. PICK r \in {"err", "eof", None} :
         /\ Return(t, r)
         /\ r = "eof" => th[t].pc = "rdDone" /\ ~c.hsErr /\ c.inErr = "eof"
  BY <1>2, <1>3 DEF ConnType, None
<1> DEFINE g == [Idle("idle") EXCEPT !.calls = th[t].calls, !.res = r]
<1>5. th' = [th EXCEPT ![t] = g]
  BY <1>4 DEF Return
<1>10. "idle" \in Names /\ None \in Names /\ r \in Names /\ th[t].calls \in Nat /\ <<>> \in Seq(Records)
  BY <1>1, <1>2 DEF Names, GoroutineType
<1>6. ConnType' /\ KeepConn({"in"}) /\ TransportType' /\ UNCHANGED <<sent, peer, got, inq>>
  <2>1. NoIO /\ (c' = c \/ c' = [c EXCEPT !.in = None])
    BY <1>3
  <2>2. ConnType' /\ KeepConn({"in"})
    BY <1>2, <2>1 DEF ConnType, KeepConn
  <2>. QED
    BY <1>2, <2>1, <2>2 DEF TransportType, NoIO
<1>7. GoroutineType' /\ (\A u \in Threads \ {t} : th'[u] = th[u])
      /\ th'[t].pc = "idle" /\ th'[t].res = r /\ th'[t].recs = <<>>
  <2>1. /\ g \in [pc : Names, recs : Seq(Records), next : Names, caller : Names, calls : Nat,
                  empty : Nat, res : Names, seq : Nat]
        /\ g.pc = "idle" /\ g.res = r /\ g.recs = <<>>
    BY <1>10 DEF Idle
  <2> HIDE DEF g
  <2>. QED
    BY <1>1, <1>2, <1>5, <2>1 DEF GoroutineType
<1>8. ActiveInv'
  BY <1>2, <1>6, <1>7 DEF ActiveInv, KeepConn, Threads
<1>9. r = "eof" => Len(got) = Len(peer.data) /\ (peer.done \/ peer.closed)
  <2> SUFFICES ASSUME r = "eof" PROVE Len(got) = Len(peer.data) /\ (peer.done \/ peer.closed)
    OBVIOUS
  <2>1. th[t].pc = "rdDone" /\ ~c.hsErr /\ c.inErr = "eof" /\ c.status = 1
    BY <1>4 DEF Inv, ReadInv
  <2>2. \A u \in Threads : ~Failing(u)
    BY <2>1 DEF Inv, MutexInv, InHandshake, Handshaking, Failing
  <2>3. /\ Len(got) + Pending + Cardinality(DataIn(inq)) = Len(peer.data)
        /\ inq = <<>> /\ (peer.done \/ peer.closed) /\ c.input # "data"
    BY <2>1, <2>2 DEF Inv, StreamInv
  <2>4. DataIn(inq) = {} /\ Pending = 0
    BY <2>3 DEF DataIn, Pending
  <2>5. Len(got) \in Nat /\ Cardinality(DataIn(inq)) = 0
    BY <1>2, <2>4, FS_EmptySet DEF TransportType
  <2>. QED
    BY <2>3, <2>4, <2>5
<1>. QED
  BY <1>1, <1>2, <1>6, <1>7, <1>8, <1>9, QuietStep DEF KeepConn, Points, Threads, Handshaking

\* Read gives the data of a record to its caller, and may read ahead.
LEMMA ReadTakesStep == ASSUME Inv, ReadTakes PROVE Inv'
<1> DEFINE t == "read"
<1>1. t \in Threads /\ th[t].pc = "rdLoop" /\ c.input # None /\ c.inErr = None
  BY DEF ReadTakes, At, Threads
<1>2. /\ ~Writing(t) /\ ~InHandshake(t) /\ th[t].recs = <<>>
      /\ ConnType /\ GoroutineType /\ TransportType /\ ActiveInv
  BY <1>1, Outside DEF Handshaking
<1>3. c' = [c EXCEPT !.input = None] /\ UNCHANGED <<sent, acked, inq, peer, timer, errs>>
  BY DEF ReadTakes
<1>4. ConnType' /\ KeepConn({"input"}) /\ c'.input = None
  BY <1>2, <1>3 DEF ConnType, KeepConn
<1>5. PICK p \in {"rdLoop", "rdDone", "rdPeek"}, n \in Nat :
         th' = [th EXCEPT ![t] = [th[t] EXCEPT !.empty = n, !.pc = p]]
  <2>1. th[t].empty \in Nat /\ th[t].empty + 1 \in Nat
    BY <1>1, <1>2 DEF GoroutineType
  <2>2. CASE c.input = "empty"
    <3> DEFINE p == IF th["read"].empty < MaxEmpty THEN "rdLoop" ELSE "rdDone"
    <3>1. th' = [th EXCEPT ![t] = [th[t] EXCEPT !.empty = th[t].empty + 1, !.pc = p]] /\ p \in {"rdLoop", "rdDone"}
      BY <1>1, <1>2, <2>2 DEF ReadTakes, GoroutineType
    <3>. QED
      BY <2>1, <3>1
  <2>3. CASE c.input # "empty"
    <3>1. th' = [th EXCEPT ![t].pc = "rdDone"] \/ th' = [th EXCEPT ![t].pc = "rdPeek"]
      BY <2>3 DEF ReadTakes, Goto
    <3>2. ASSUME NEW p \in {"rdDone", "rdPeek"}, th' = [th EXCEPT ![t].pc = p]
          PROVE  th' = [th EXCEPT ![t] = [th[t] EXCEPT !.empty = th[t].empty, !.pc = p]]
      BY <1>1, <1>2, <3>2 DEF GoroutineType
    <3>. QED
      BY <2>1, <3>1, <3>2
  <2>. QED
    BY <2>2, <2>3
<1>6. GoroutineType' /\ KeepThread(t, {"pc", "empty"}) /\ th'[t].pc = p
  <2>1. p \in Names
    BY DEF Names
  <2>. QED
    BY <1>1, <1>2, <1>5, <2>1 DEF GoroutineType, KeepThread
<1>7. /\ TransportType' /\ Len(got) \in Nat /\ Cardinality(DataIn(inq)) \in Nat
      /\ c.input = "data" => Len(got') = Len(got) + 1
      /\ c.input # "data" => Len(got') = Len(got)
  <2>1. Len(got) \in Nat /\ got \in Seq(Nat) /\ Len(got) + 1 \in Nat /\ inq \in Seq(PeerRecords)
    BY <1>2 DEF TransportType
  <2>2. (c.input = "data" /\ got' = Append(got, Len(got) + 1)) \/ (c.input # "data" /\ got' = got)
    BY <1>1, <1>2 DEF ReadTakes, ConnType
  <2>3. IsFiniteSet(DataIn(inq)) /\ Cardinality(DataIn(inq)) \in Nat
    BY <2>1, DataAppended DEF PeerRecords
  <2>4. got' \in Seq(Nat) /\ (c.input = "data" => Len(got') = Len(got) + 1) /\ (c.input # "data" => Len(got') = Len(got))
    BY <2>1, <2>2, Appended, SMTT(60)
  <2>5. TransportType'
    BY <1>2, <1>3, <2>4 DEF TransportType
  <2>. QED
    BY <2>1, <2>3, <2>4, <2>5
<1> USE DEF Threads, None, KeepConn, KeepThread
<1>8. c.status = 1
  BY <1>1 DEF Inv, ReadInv
<1>9. Control'
  BY <1>2, <1>6 DEF Inv, Control, Writing, Points
<1>10. ReadInv' /\ ActiveInv'
  BY <1>1, <1>4, <1>6, <1>8 DEF Inv, ReadInv, ActiveInv, Writing
<1>11. OutInv' /\ BufferInv' /\ CloseInv'
  BY <1>1, <1>3, <1>4, <1>6, Beside
<1>13. MutexInv'
  <2>1. \A u \in Threads : InHandshake(u)' <=> InHandshake(u)
    BY <1>1, <1>6 DEF InHandshake, Writing, Handshaking
  <2>. QED
    BY <1>1, <1>4, <1>6, <2>1 DEF Inv, MutexInv
<1>14. ErrorInv'
  BY <1>1, <1>4, <1>6 DEF Inv, ErrorInv, Writing
<1>15. StreamInv'
  <2>1. Len(got') + Pending' + Cardinality(DataIn(inq)) = Len(got) + Pending + Cardinality(DataIn(inq))
    BY <1>4, <1>7 DEF Pending
  <2>2. Len(got) + Pending + Cardinality(DataIn(inq)) = Len(peer.data)
    BY <1>1 DEF Inv, StreamInv
  <2>3. \A i \in 1..Len(inq) : inq[i] = "closeNotify" => i = Len(inq) /\ peer.done
    BY DEF Inv, StreamInv
  <2>4. th'["read"].pc # "idle" /\ c'.inErr = None
    BY <1>1, <1>4, <1>6
  <2>. QED
    BY <1>3, <2>1, <2>2, <2>3, <2>4 DEF StreamInv
<1>. QED
  BY <1>4, <1>6, <1>7, <1>9, <1>10, <1>11, <1>13, <1>14, <1>15 DEF Inv

\* The peer and the timer touch neither the Conn nor its goroutines.
LEMMA OtherStep ==
    ASSUME Inv, UNCHANGED <<c, th, sent>>, TransportType', peer'.reset = peer.reset, StreamInv'
    PROVE  Inv'
<1>1. ConnType' /\ GoroutineType' /\ Control' /\ ReadInv' /\ ActiveInv' /\ ErrorInv'
  BY DEF Inv, ConnType, GoroutineType, Control, ReadInv, ActiveInv, ErrorInv, Writing
<1>2. MutexInv'
  BY DEF Inv, MutexInv, InHandshake, Writing
<1>3. OutInv' /\ BufferInv' /\ CloseInv'
  BY WritersKept DEF KeepConn
<1>. QED
  BY <1>1, <1>2, <1>3 DEF Inv

\* A record the peer sends comes last, and is counted if it is data.
LEMMA StreamArrives ==
    ASSUME StreamInv, TransportType, NEW r, NEW q \in Seq(PeerRecords),
           \A i \in 1..Len(q) : q[i] # "closeNotify",
           inq' \in Seq(PeerRecords), inq' # <<>>, Len(inq') = Len(q) + 1,
           \A i \in 1..Len(q) : inq'[i] = q[i], inq'[Len(q) + 1] = r,
           UNCHANGED <<c, th, got>>, ~peer.done, ~peer.closed, peer'.done <=> r = "closeNotify",
           NEW k \in Nat, Len(peer'.data) = Len(peer.data) + k,
           Cardinality(DataIn(inq)) \in Nat, Cardinality(DataIn(inq')) = Cardinality(DataIn(inq)) + k
    PROVE  StreamInv'
<1>1. c.inErr # "eof" /\ ~(th["read"].res = "eof" /\ th["read"].pc = "idle")
  BY DEF StreamInv
<1>3. Len(q) \in Nat /\ Len(got) \in Nat /\ Len(peer.data) \in Nat
  BY SMTT(60) DEF TransportType
<1>4. \A i \in 1..Len(inq') : inq'[i] = "closeNotify" => i = Len(inq') /\ peer'.done
  BY <1>3
<1>5. Pending \in Nat
  BY DEF Pending
<1>6. c.inErr # "err" => Len(got) + Pending + Cardinality(DataIn(inq)) = Len(peer.data)
  BY DEF StreamInv
<1>7. c.inErr # "err" => Len(got) + Pending + Cardinality(DataIn(inq')) = Len(peer'.data)
  <2>1. /\ Len(peer'.data) = Len(peer.data) + k
        /\ Cardinality(DataIn(inq')) = Cardinality(DataIn(inq)) + k
    OBVIOUS
  <2>2. Cardinality(DataIn(inq)) \in Nat /\ k \in Nat
    OBVIOUS
  <2> DEFINE q0 == Cardinality(DataIn(inq))
             q1 == Cardinality(DataIn(inq'))
             n == Len(peer.data)
             n1 == Len(peer'.data)
             g == Len(got)
             p == Pending
  <2>3. (c.inErr # "err" => g + p + q0 = n) /\ n1 = n + k /\ q1 = q0 + k
        /\ g \in Nat /\ p \in Nat /\ q0 \in Nat /\ n \in Nat
    BY <1>3, <1>5, <1>6, <2>1, <2>2
  <2> HIDE DEF q0, q1, n, n1, g, p
  <2>4. c.inErr # "err" => g + p + q1 = n1
    BY <2>2, <2>3
  <2>. QED
    BY <2>4 DEF q1, n1, g, p
<1>. QED
  BY <1>1, <1>4, <1>7 DEF StreamInv, Pending, Failing

\* What the peer puts in front of its record is the first part of a message.
LEMMA Concatenated ==
    ASSUME NEW S, NEW q \in Seq(S), NEW x \in S, NEW y \in S
    PROVE  q \o <<x>> = Append(q, x) /\ q \o <<x, y>> = Append(Append(q, x), y)
  OBVIOUS

\* A step of the peer that sends a record, or two; a close_notify is its last.
LEMMA Arrives ==
    ASSUME Inv, NEW r \in PeerRecords, NEW q \in {inq, Append(inq, "part")}, inq' = Append(q, r),
           UNCHANGED <<c, th, sent, acked, got, timer, errs>>,
           peer' \in [data : Seq(Nat), hellos : Nat, extra : Nat, closed : BOOLEAN, asked : BOOLEAN,
                      done : BOOLEAN, reset : BOOLEAN],
           ~peer.done, ~peer.closed, ~peer'.closed, peer'.reset = peer.reset, peer'.done <=> r = "closeNotify",
           Len(peer'.data) = Len(peer.data) + (IF r = "data" THEN 1 ELSE 0)
    PROVE  Inv'
<1>1. TransportType /\ inq \in Seq(PeerRecords) /\ StreamInv /\ "part" \in PeerRecords
  BY DEF Inv, TransportType, PeerRecords
<1>7. /\ q \in Seq(PeerRecords) /\ \A i \in 1..Len(q) : q[i] # "closeNotify"
      /\ Cardinality(DataIn(q)) \in Nat /\ Cardinality(DataIn(q)) = Cardinality(DataIn(inq))
  <2>1. \A i \in 1..Len(inq) : inq[i] # "closeNotify"
    BY <1>1 DEF StreamInv
  <2>2. Cardinality(DataIn(inq)) \in Nat
    BY <1>1, DataAppended
  <2>3. CASE q = inq
    BY <1>1, <2>1, <2>2, <2>3
  <2>4. CASE q = Append(inq, "part")
    <3>1. /\ q \in Seq(PeerRecords) /\ Len(inq) \in Nat /\ Len(q) = Len(inq) + 1
          /\ (\A i \in 1..Len(inq) : q[i] = inq[i]) /\ q[Len(inq) + 1] = "part"
      BY <1>1, <2>4, Appended
    <3>2. ASSUME NEW i \in 1..Len(q) PROVE q[i] # "closeNotify"
      <4>1. i \in 1..Len(inq) \/ i = Len(inq) + 1
        BY <3>1
      <4>. QED
        BY <2>1, <3>1, <4>1
    <3>3. Cardinality(DataIn(q)) = Cardinality(DataIn(inq)) + 0
      BY <1>1, <2>4, DataAppended
    <3>. QED
      BY <2>2, <3>1, <3>2, <3>3
  <2>. QED
    BY <2>3, <2>4
<1>2. /\ inq' \in Seq(PeerRecords) /\ Len(q) \in Nat /\ Len(inq') = Len(q) + 1
      /\ \A i \in 1..Len(q) : inq'[i] = q[i]
      /\ inq'[Len(q) + 1] = r /\ inq' # <<>>
  BY <1>7, Appended
<1>3. TransportType'
  BY <1>1, <1>2 DEF TransportType
<1> DEFINE k == IF r = "data" THEN 1 ELSE 0
<1>4. k \in Nat /\ Cardinality(DataIn(inq')) = Cardinality(DataIn(inq)) + k
  BY <1>7, DataAppended
<1>5. Len(peer'.data) = Len(peer.data) + k
  OBVIOUS
<1> HIDE DEF k
<1>6. StreamInv'
  BY <1>1, <1>2, <1>4, <1>5, <1>7, StreamArrives
<1>. QED
  BY <1>3, <1>6, OtherStep

\* The peer and the timer
LEMMA PeerStep ==
    ASSUME Inv, PeerReads \/ PeerAnswers \/ PeerSends \/ PeerEnds \/ PeerCloses \/ TimerFires \/ TimerSends PROVE Inv'
<1>1. /\ TransportType /\ peer \in [data : Seq(Nat), hellos : Nat, extra : Nat, closed : BOOLEAN, asked : BOOLEAN,
                                    done : BOOLEAN, reset : BOOLEAN]
      /\ Len(sent) \in Nat /\ acked \in 0..Len(sent) /\ Len(sent) - acked <= Window /\ Window \in Nat
  BY ConnAssumption DEF Inv, TransportType
<1>2. ASSUME UNCHANGED <<inq, peer, got, c, th>> PROVE StreamInv'
  BY <1>2 DEF Inv, StreamInv, Pending, DataIn, Failing
<1>3. CASE PeerReads
  <2>1. TransportType'
    <3>1. acked' \in 0..Len(sent) /\ Len(sent) - acked' <= Window
      BY <1>1, <1>3 DEF PeerReads
    <3>. QED
      BY <1>1, <1>3, <3>1 DEF PeerReads, TransportType
  <2>. QED
    BY <1>2, <1>3, <2>1, OtherStep DEF PeerReads
<1>4. CASE PeerAnswers
  <2>1. PICK r \in {"hello", "oversized", "fatal"}, q \in {inq, Append(inq, "part")} : inq' = Append(q, r)
    <3>1. PICK rs \in {<<"hello">>, <<"part", "hello">>, <<"oversized">>, <<"fatal">>} : inq' = inq \o rs
      BY <1>4 DEF PeerAnswers
    <3>2. inq \in Seq(PeerRecords) /\ {"hello", "part", "oversized", "fatal"} \subseteq PeerRecords
      BY <1>1 DEF TransportType, PeerRecords
    <3>3. CASE rs = <<"part", "hello">>
      <4>1. inq' = Append(Append(inq, "part"), "hello")
        BY <3>1, <3>2, <3>3, Concatenated
      <4>. QED
        BY <4>1
    <3>4. CASE rs # <<"part", "hello">>
      <4>1. PICK r \in {"hello", "oversized", "fatal"} : rs = <<r>>
        BY <3>1, <3>4
      <4>2. inq' = Append(inq, r)
        BY <3>1, <3>2, <4>1, Concatenated
      <4>. QED
        BY <4>2
    <3>. QED
      BY <3>3, <3>4
  <2>2. peer' = [peer EXCEPT !.hellos = peer.hellos + 1, !.asked = FALSE] /\ peer.hellos + 1 \in Nat
    BY <1>1, <1>4 DEF PeerAnswers
  <2>3. /\ peer' \in [data : Seq(Nat), hellos : Nat, extra : Nat, closed : BOOLEAN, asked : BOOLEAN,
                      done : BOOLEAN, reset : BOOLEAN]
        /\ peer'.data = peer.data /\ peer'.closed = peer.closed /\ peer'.done = peer.done /\ peer'.reset = peer.reset
    BY <1>1, <2>2
  <2>4. r \in PeerRecords /\ r # "data" /\ r # "closeNotify" /\ Len(peer.data) \in Nat
    BY <1>1 DEF PeerRecords
  <2>5. ~peer.done /\ ~peer.closed /\ UNCHANGED <<c, th, sent, acked, got, timer, errs>>
    BY <1>4 DEF PeerAnswers
  <2>6. /\ ~peer'.closed /\ (peer'.done <=> r = "closeNotify")
        /\ Len(peer'.data) = Len(peer.data) + (IF r = "data" THEN 1 ELSE 0)
    BY <2>3, <2>4, <2>5
  <2>. QED
    BY <2>1, <2>3, <2>4, <2>5, <2>6, Arrives
<1>5. CASE PeerSends
  <2>1. PICK r \in {"data", "empty", "warning", "oversized", "request"}, q \in {inq, Append(inq, "part")} :
           /\ inq' = Append(q, r)
           /\ peer' = [peer EXCEPT !.extra = @ + 1, !.asked = r = "request",
                                   !.data = IF r = "data" THEN Append(@, Len(@) + 1) ELSE @]
    <3>1. PICK rs \in {<<"data">>, <<"empty">>, <<"warning">>, <<"oversized">>, <<"request">>, <<"part", "request">>} :
             /\ inq' = inq \o rs
             /\ peer' = [peer EXCEPT !.extra = @ + 1, !.asked = rs[Len(rs)] = "request",
                                     !.data = IF rs = <<"data">> THEN Append(@, Len(@) + 1) ELSE @]
      BY <1>5 DEF PeerSends
    <3>2. inq \in Seq(PeerRecords) /\ {"data", "empty", "warning", "oversized", "request", "part"} \subseteq PeerRecords
      BY <1>1 DEF TransportType, PeerRecords
    <3>3. CASE rs = <<"part", "request">>
      <4>1. inq' = Append(Append(inq, "part"), "request") /\ rs[Len(rs)] = "request" /\ rs # <<"data">>
        BY <3>1, <3>2, <3>3, Concatenated
      <4>. QED
        BY <3>1, <4>1
    <3>4. CASE rs # <<"part", "request">>
      <4>1. PICK r \in {"data", "empty", "warning", "oversized", "request"} : rs = <<r>>
        BY <3>1, <3>4
      <4>2. inq' = Append(inq, r) /\ rs[Len(rs)] = r /\ (rs = <<"data">> <=> r = "data")
        BY <3>1, <3>2, <4>1, Concatenated
      <4>. QED
        BY <3>1, <4>2
    <3>. QED
      BY <3>3, <3>4
  <2> DEFINE d == IF r = "data" THEN Append(peer.data, Len(peer.data) + 1) ELSE peer.data
             a == r = "request"
  <2>2. d \in Seq(Nat) /\ Len(d) = Len(peer.data) + (IF r = "data" THEN 1 ELSE 0) /\ a \in BOOLEAN
    <3>1. peer.data \in Seq(Nat) /\ Len(peer.data) + 1 \in Nat
      BY <1>1
    <3>2. /\ Append(peer.data, Len(peer.data) + 1) \in Seq(Nat)
          /\ Len(Append(peer.data, Len(peer.data) + 1)) = Len(peer.data) + 1
      BY <3>1, Appended
    <3>3. a \in BOOLEAN
      OBVIOUS
    <3>4. CASE r = "data"
      BY <3>2, <3>3, <3>4
    <3>5. CASE r # "data"
      BY <3>1, <3>3, <3>5
    <3>. QED
      BY <3>4, <3>5
  <2>3. peer' = [peer EXCEPT !.extra = peer.extra + 1, !.asked = a, !.data = d] /\ peer.extra + 1 \in Nat
    BY <1>1, <2>1
  <2> HIDE DEF d, a
  <2>4. /\ peer' \in [data : Seq(Nat), hellos : Nat, extra : Nat, closed : BOOLEAN, asked : BOOLEAN,
                      done : BOOLEAN, reset : BOOLEAN]
        /\ peer'.data = d /\ peer'.closed = peer.closed /\ peer'.done = peer.done /\ peer'.reset = peer.reset
    BY <1>1, <2>2, <2>3
  <2>. QED
    BY <1>1, <1>5, <2>1, <2>2, <2>4, Arrives DEF PeerSends, PeerRecords
<1>6. CASE PeerEnds
  <2>1. inq' = Append(inq, "closeNotify") /\ peer' = [peer EXCEPT !.done = TRUE] /\ "closeNotify" \in PeerRecords
    BY <1>6 DEF PeerEnds, PeerRecords
  <2>2. /\ peer' \in [data : Seq(Nat), hellos : Nat, extra : Nat, closed : BOOLEAN, asked : BOOLEAN,
                      done : BOOLEAN, reset : BOOLEAN]
        /\ peer'.data = peer.data /\ peer'.closed = peer.closed /\ peer'.done /\ peer'.reset = peer.reset
    BY <1>1, <2>1
  <2>4. Len(peer.data) \in Nat
    BY <1>1
  <2>3. ~peer.done /\ ~peer.closed /\ UNCHANGED <<c, th, sent, acked, got, timer, errs>>
    BY <1>6 DEF PeerEnds
  <2> DEFINE r == "closeNotify"
  <2>5. /\ ~peer'.closed /\ (peer'.done <=> r = "closeNotify") /\ r \in PeerRecords
        /\ Len(peer'.data) = Len(peer.data) + (IF r = "data" THEN 1 ELSE 0)
    BY <2>1, <2>2, <2>3, <2>4
  <2> HIDE DEF r
  <2>. QED
    BY <2>1, <2>2, <2>3, <2>5, Arrives DEF r
<1>7. CASE PeerCloses
  <2>1. /\ peer' = [peer EXCEPT !.closed = TRUE] /\ UNCHANGED <<c, th, sent, inq, got, timer, errs>> /\ acked' = Len(sent)
    BY <1>7 DEF PeerCloses
  <2>2. TransportType' /\ peer'.data = peer.data /\ peer'.done = peer.done /\ peer'.reset = peer.reset /\ peer'.closed
    <3>1. acked' \in 0..Len(sent') /\ Len(sent') - acked' <= Window
      BY <1>1, <2>1
    <3>. QED
      BY <1>1, <2>1, <3>1 DEF TransportType
  <2>3. StreamInv'
    BY <2>1, <2>2 DEF Inv, StreamInv, Pending, DataIn, Failing
  <2>. QED
    BY <2>1, <2>2, <2>3, OtherStep
<1>8. CASE TimerFires \/ TimerSends
  <2>1. UNCHANGED <<c, th, sent, acked, inq, peer, got>>
    BY <1>8 DEF TimerFires, TimerSends
  <2>2. timer' \in {"fired", "done"} /\ errs' \in Seq({"timeout", "err", "ok"}) /\ Len(errs') <= 2
    <3>1. errs \in Seq({"timeout", "err", "ok"}) /\ Len(errs) <= 2
      BY <1>1 DEF TransportType
    <3>. QED
      BY <1>8, <3>1 DEF TimerFires, TimerSends, ErrChannelRoom
  <2>3. TransportType'
    BY <1>1, <2>1, <2>2 DEF TransportType
  <2>. QED
    BY <1>2, <2>1, <2>3, OtherStep
<1>. QED
  BY <1>3, <1>4, <1>5, <1>6, <1>7, <1>8

\* The interlock of Write and Close counts in twos and ones.
LEMMA Parity == \A n \in 0..3 : n % 2 = IF n \in {1, 3} THEN 1 ELSE 0
<1>1. 0 % 2 = 0 /\ 1 % 2 = 1 /\ 2 % 2 = 0 /\ 3 % 2 = 1
  OBVIOUS
<1>. QED
  BY <1>1

\* Write counts itself in activeCall, or sees that Close was called.
LEMMA WriteBeginsStep == ASSUME Inv, WriteBegins PROVE Inv'
<1> DEFINE t == "write"
<1>1. t \in Threads /\ th[t].pc = "idle"
  BY DEF WriteBegins, At, Threads
<1>2. /\ ~Writing(t) /\ ~InHandshake(t) /\ th[t].recs = <<>>
      /\ ConnType /\ GoroutineType /\ TransportType /\ c.active \in {0, 1}
  BY <1>1, Outside DEF Handshaking, ActiveInv
<1>3. th[t].calls + 1 \in Nat /\ c.active + 2 \in {2, 3}
  BY <1>1, <1>2 DEF GoroutineType
<1>4. TransportType' /\ UNCHANGED <<sent, peer, got, inq>>
  BY <1>2 DEF WriteBegins, NoIO, TransportType
<1>5. CASE c.active % 2 = 1
  <2>1. c' = c /\ th' = [th EXCEPT ![t] = [th[t] EXCEPT !.res = "errClosed", !.calls = th[t].calls + 1]]
    BY <1>1, <1>2, <1>5 DEF WriteBegins, GoroutineType
  <2>2. GoroutineType' /\ KeepThread(t, {"res", "calls"})
    <3>1. "errClosed" \in Names
      BY DEF Names
    <3>. QED
      BY <1>1, <1>2, <1>3, <2>1, <3>1 DEF GoroutineType, KeepThread
  <2>3. ConnType' /\ KeepConn({}) /\ ActiveInv'
    BY <1>1, <1>2, <2>1, <2>2 DEF ConnType, KeepConn, KeepThread, ActiveInv
  <2>. QED
    BY <1>1, <1>2, <1>4, <2>2, <2>3, QuietStep DEF KeepThread, KeepConn, Points, Threads, Handshaking
<1>6. CASE c.active % 2 # 1
  <2>1. /\ c' = [c EXCEPT !.active = c.active + 2]
        /\ th' = [th EXCEPT ![t] = [th[t] EXCEPT !.pc = "hsLock", !.caller = "wrOut", !.calls = th[t].calls + 1]]
    BY <1>1, <1>2, <1>6 DEF WriteBegins, GoroutineType, ConnType
  <2>2. GoroutineType' /\ KeepThread(t, {"pc", "caller", "calls"}) /\ th'[t].pc = "hsLock" /\ th'[t].caller = "wrOut"
    <3>1. "hsLock" \in Names /\ "wrOut" \in Names
      BY DEF Names
    <3>. QED
      BY <1>1, <1>2, <1>3, <2>1, <3>1 DEF GoroutineType, KeepThread
  <2>3. ConnType' /\ KeepConn({"active"}) /\ c'.active = c.active + 2
    <3> DEFINE n == c.active + 2
    <3>1. n \in 0..3 /\ c' = [c EXCEPT !.active = n] /\ ConnType
      BY <1>2, <1>3, <2>1
    <3> HIDE DEF n
    <3>2. ConnType' /\ c'.active = n
      BY <3>1 DEF ConnType
    <3>3. KeepConn({"active"})
      BY <3>1 DEF ConnType, KeepConn
    <3>. QED
      BY <3>2, <3>3 DEF n
  <2>4. ActiveInv'
    BY <1>3, <2>2, <2>3 DEF ActiveInv
  <2>. QED
    BY <1>1, <1>2, <1>4, <2>2, <2>3, <2>4, QuietStep DEF KeepThread, KeepConn, Points, Callers, Threads, Handshaking
<1>. QED
  BY <1>5, <1>6

\* A goroutine takes c.out for records it may write now.
LEMMA LocksOut ==
    ASSUME Inv, NEW t \in {"write", "close"}, ConnType', GoroutineType', TransportType',
           UNCHANGED <<sent, peer, got, inq>>, c.out = None,
           KeepConn({"out", "seq", "raced"}), c'.out = t, c'.seq = c.seq + 1,
           c'.raced = (c.raced \/ \E u \in Threads : Unlocked(u)),
           KeepThread(t, {"pc", "seq", "recs", "next"}), th'[t].pc = "transmit", th'[t].seq = c.seq,
           ~Writing(t), ~InHandshake(t), ~c.closeSent,
           t = "write" => th[t].pc \notin {"off", "idle"} /\ th'[t].recs = <<"data", "data">> /\ th'[t].next = "wrDone",
           t = "close" => th'[t].recs = <<"closeNotify">> /\ th'[t].next \in Nexts[t]
    PROVE  Inv'
<1>4. OutInv'
  <2>1. t \in Threads /\ th[t].pc \notin {"number", "transmit", "flushing"} /\ peer'.reset = peer.reset
    BY DEF Threads, Writing, InHandshake
  <2>. QED
    BY <2>1, NumberTaken DEF KeepThread
<1> USE DEF Threads, None, KeepConn, KeepThread
<1>1. /\ th'[t].recs # <<>> /\ th'[t].next \in Nexts[t] \ Handshaking /\ "transmit" \in Points[t]
      /\ \A i \in DOMAIN th'[t].recs : th'[t].recs[i] \notin {"hello", "finished"}
      /\ \A i \in DOMAIN th'[t].recs : th'[t].recs[i] = "closeNotify" => Len(th'[t].recs) = 1
  <2>1. CASE t = "write"
    <3>1. th'[t].recs = <<"data", "data">> /\ th'[t].next = "wrDone" /\ "transmit" \in Points[t] /\ "wrDone" \in Nexts[t]
      BY <2>1 DEF Nexts, Points
    <3>2. th'[t].next \notin Handshaking
      BY <3>1 DEF Handshaking
    <3>3. th'[t].recs # <<>> /\ \A i \in DOMAIN th'[t].recs : th'[t].recs[i] = "data"
      BY <3>1
    <3>. QED
      BY <3>1, <3>2, <3>3
  <2>2. CASE t = "close"
    <3>1. th'[t].recs = <<"closeNotify">> /\ th'[t].next \in {"idle", "clRaw"} /\ "transmit" \in Points[t]
      BY <2>2 DEF Nexts, Points
    <3>2. th'[t].next \notin Handshaking
      BY <3>1 DEF Handshaking
    <3>3. /\ th'[t].recs # <<>> /\ Len(th'[t].recs) = 1
          /\ \A i \in DOMAIN th'[t].recs : th'[t].recs[i] = "closeNotify"
      BY <3>1
    <3>. QED
      BY <2>2, <3>1, <3>2, <3>3
  <2>. QED
    BY <2>1, <2>2
<1>2. Control'
  BY <1>1 DEF Inv, Control, Writing
<1>3. ReadInv' /\ ActiveInv'
  BY <1>1 DEF Inv, ReadInv, ActiveInv, Writing
<1>9. BufferInv'
  BY <1>1 DEF Inv, BufferInv, Writing, Handshaking
<1>5. CloseInv'
  <2>1. \A u \in Threads : \A i \in DOMAIN th'[u].recs :
           /\ th'[u].recs[i] \in Last => c'.out = u /\ ~c'.closeSent
           /\ th'[u].recs[i] = "closeNotify" => Len(th'[u].recs) = 1
    <3>1. \A u \in Threads \ {t} : th'[u].recs = th[u].recs /\ \A i \in DOMAIN th[u].recs : th[u].recs[i] \notin Last
      BY DEF Inv, CloseInv
    <3>2. c'.out = t /\ ~c'.closeSent
      OBVIOUS
    <3>. QED
      BY <1>1, <3>1, <3>2 DEF Last
  <2>. QED
    BY <2>1 DEF Inv, CloseInv
<1>6. MutexInv'
  <2>1. \A u \in Threads : InHandshake(u)' <=> InHandshake(u)
    BY <1>1 DEF InHandshake, Writing, Handshaking
  <2>2. \A u \in Threads : \A i \in DOMAIN th'[u].recs :
            th'[u].recs[i] \in {"hello", "finished"} => th'[u].next \in Handshaking
    BY <1>1 DEF Inv, MutexInv
  <2>. QED
    BY <2>1, <2>2 DEF Inv, MutexInv
<1>7. ErrorInv'
  BY <1>1 DEF Inv, ErrorInv, Writing, Handshaking
<1>8. StreamInv'
  <2>1. \A u \in Threads : Failing(u) => Failing(u)'
    BY DEF InHandshake, Handshaking, Failing
  <2>. QED
    BY <2>1 DEF Inv, StreamInv, Pending, DataIn
<1>. QED
  BY <1>2, <1>3, <1>4, <1>5, <1>6, <1>7, <1>8, <1>9 DEF Inv

\* Write takes c.out for its data when it is allowed to, or fails.
LEMMA WriteLocksStep == ASSUME Inv, WriteLocks PROVE Inv'
<1> DEFINE t == "write"
<1>1. t \in Threads /\ th[t].pc = "wrOut" /\ c.out = None
  BY DEF WriteLocks, At, Threads
<1>2. /\ ~Writing(t) /\ ~InHandshake(t) /\ th[t].recs = <<>>
      /\ ConnType /\ GoroutineType /\ TransportType /\ ActiveInv
  BY <1>1, Outside DEF Handshaking
<1>3. TransportType' /\ UNCHANGED <<sent, peer, got, inq>>
  BY <1>2 DEF WriteLocks, NoIO, TransportType
<1>4. CASE WriteAllowed
  <2> DEFINE x == c.raced \/ \E u \in Threads : Unlocked(u)
  <2>1. /\ c' = [c EXCEPT !.out = t, !.seq = c.seq + 1, !.raced = x] /\ x \in BOOLEAN
        /\ th' = [th EXCEPT ![t] = [th[t] EXCEPT !.pc = "transmit", !.seq = c.seq,
                                                 !.recs = <<"data", "data">>, !.next = "wrDone"]]
    BY <1>1, <1>2, <1>4 DEF WriteLocks, TakeOut, ConnType, GoroutineType
  <2> HIDE DEF x
  <2>2. c.seq \in Nat /\ c.seq + 1 \in Nat
    BY <1>2 DEF ConnType
  <2>3. ConnType' /\ KeepConn({"out", "seq", "raced"}) /\ c'.out = t /\ c'.seq = c.seq + 1 /\ c'.raced = x
    BY <1>1, <1>2, <2>1, <2>2 DEF ConnType, KeepConn
  <2>4. /\ GoroutineType' /\ KeepThread(t, {"pc", "seq", "recs", "next"}) /\ th'[t].pc = "transmit"
        /\ th'[t].seq = c.seq /\ th'[t].recs = <<"data", "data">> /\ th'[t].next = "wrDone"
    <3>1. <<"data", "data">> \in Seq(Records) /\ "transmit" \in Names /\ "wrDone" \in Names
      BY DEF Records, Names
    <3>. QED
      BY <1>1, <1>2, <2>1, <2>2, <3>1 DEF GoroutineType, KeepThread
  <2>. QED
    BY <1>1, <1>2, <1>3, <1>4, <2>3, <2>4, LocksOut DEF WriteAllowed, x
<1>5. CASE ~WriteAllowed
  <2>1. c' = c /\ th' = [th EXCEPT ![t].pc = "failed"] /\ "failed" \in Names
    BY <1>5 DEF WriteLocks, Goto, Names
  <2>2. GoroutineType' /\ KeepThread(t, {"pc"}) /\ th'[t].pc = "failed"
    BY <1>1, <1>2, <2>1 DEF GoroutineType, KeepThread
  <2>3. ConnType' /\ KeepConn({}) /\ ActiveInv'
    BY <1>1, <1>2, <2>1, <2>2 DEF ConnType, KeepConn, ActiveInv
  <2>. QED
    BY <1>1, <1>2, <1>3, <2>2, <2>3, QuietStep DEF KeepThread, KeepConn, Points, Threads, Handshaking
<1>. QED
  BY <1>4, <1>5

\* Write returns and takes itself out of activeCall.
LEMMA WriteReturnsStep == ASSUME Inv, WriteReturns PROVE Inv'
<1> DEFINE t == "write"
           r == IF At("write", "failed") \/ c.outErr THEN "err" ELSE "ok"
           g == [Idle("idle") EXCEPT !.calls = th[t].calls, !.res = r]
<1>1. t \in Threads /\ th[t].pc \in {"wrDone", "failed"}
  BY DEF WriteReturns, At, Threads
<1>2. /\ ~Writing(t) /\ ~InHandshake(t) /\ th[t].recs = <<>>
      /\ ConnType /\ GoroutineType /\ TransportType /\ c.active \in {2, 3}
  BY <1>1, Outside DEF Handshaking, ActiveInv
<1>3. th' = [th EXCEPT ![t] = g] /\ c' = [c EXCEPT !.active = c.active - 2] /\ r \in {"err", "ok"}
  BY <1>2 DEF WriteReturns, Return, ConnType
<1> HIDE DEF r
<1>4. /\ "idle" \in Names /\ None \in Names /\ r \in Names /\ th[t].calls \in Nat /\ <<>> \in Seq(Records)
      /\ c.active - 2 \in {0, 1}
  BY <1>1, <1>2, <1>3 DEF Names, GoroutineType
<1>5. /\ g \in [pc : Names, recs : Seq(Records), next : Names, caller : Names, calls : Nat,
                empty : Nat, res : Names, seq : Nat]
      /\ g.pc = "idle" /\ g.recs = <<>>
  BY <1>4 DEF Idle
<1> HIDE DEF g
<1>6. GoroutineType' /\ (\A u \in Threads \ {t} : th'[u] = th[u]) /\ th'[t].pc = "idle" /\ th'[t].recs = <<>>
  BY <1>1, <1>2, <1>3, <1>5 DEF GoroutineType
<1>7. ConnType' /\ KeepConn({"active"}) /\ c'.active = c.active - 2
  <2> DEFINE n == c.active - 2
  <2>1. n \in 0..3
    BY <1>4
  <2>2. c' = [c EXCEPT !.active = n] /\ ConnType
    BY <1>2, <1>3
  <2> HIDE DEF n
  <2>3. ConnType' /\ c'.active = n
    BY <2>1, <2>2 DEF ConnType
  <2>4. KeepConn({"active"})
    BY <2>2 DEF ConnType, KeepConn
  <2>. QED
    BY <2>3, <2>4 DEF n
<1>8. ActiveInv'
  BY <1>4, <1>6, <1>7 DEF ActiveInv
<1>9. TransportType' /\ UNCHANGED <<sent, peer, got, inq>>
  BY <1>2 DEF WriteReturns, NoIO, TransportType
<1>. QED
  BY <1>1, <1>2, <1>6, <1>7, <1>8, <1>9, QuietStep DEF KeepConn, Points, Threads, Handshaking

\* CloseWrite leads to closeNotify, or fails before the handshake is done.
LEMMA CloseWriteStep == ASSUME Inv, CloseWrite PROVE Inv'
<1> DEFINE t == "close"
           p == IF c.status = 1 THEN "cnOut" ELSE "idle"
           n == IF c.status = 1 THEN "idle" ELSE None
<1>1. t \in Threads /\ th[t].pc = "idle"
  BY DEF CloseWrite, At, Threads
<1>2. /\ ~Writing(t) /\ ~InHandshake(t) /\ th[t].recs = <<>>
      /\ ConnType /\ GoroutineType /\ TransportType /\ ActiveInv
  BY <1>1, Outside DEF Handshaking
<1>3. /\ th' = [th EXCEPT ![t] = [th[t] EXCEPT !.pc = p, !.next = n, !.calls = 1]] /\ c' = c
      /\ p \in {"cnOut", "idle"} /\ (p = "cnOut" => n = "idle") /\ n \in {"idle", None}
  BY <1>1, <1>2 DEF CloseWrite, GoroutineType
<1> HIDE DEF p, n
<1>4. TransportType' /\ UNCHANGED <<sent, peer, got, inq>>
  BY <1>2 DEF CloseWrite, NoIO, TransportType
<1>5. /\ GoroutineType' /\ KeepThread(t, {"pc", "next", "calls"})
      /\ th'[t].pc = p /\ th'[t].next = n /\ th'[t].recs = <<>>
  <2>1. p \in Names /\ n \in Names
    BY <1>3 DEF Names
  <2>. QED
    BY <1>1, <1>2, <1>3, <2>1 DEF GoroutineType, KeepThread
<1>6. ConnType' /\ KeepConn({}) /\ ActiveInv'
  BY <1>1, <1>2, <1>3, <1>5 DEF ConnType, KeepConn, ActiveInv, KeepThread, Threads
<1>. QED
  BY <1>1, <1>2, <1>3, <1>4, <1>5, <1>6, QuietStep DEF KeepThread, KeepConn, Points, Nexts, Threads, Handshaking

\* Close counts itself once, and leads to closeNotify or to the transport.
LEMMA CloseStepInv == ASSUME Inv, Close PROVE Inv'
<1> DEFINE t == "close"
           p == IF c.active # 0 \/ c.status # 1 THEN "clRaw" ELSE "cnOut"
<1>1. t \in Threads /\ th[t].pc = "idle"
  BY DEF Close, At, Threads
<1>2. /\ ~Writing(t) /\ ~InHandshake(t) /\ th[t].recs = <<>>
      /\ ConnType /\ GoroutineType /\ TransportType /\ ActiveInv
  BY <1>1, Outside DEF Handshaking
<1>3. /\ th' = [th EXCEPT ![t] = [th[t] EXCEPT !.pc = p, !.next = "clRaw"]] /\ c' = [c EXCEPT !.active = c.active + 1]
      /\ p \in {"cnOut", "clRaw"}
  BY <1>1, <1>2 DEF Close, GoroutineType, ConnType
<1> HIDE DEF p
<1>4. TransportType' /\ UNCHANGED <<sent, peer, got, inq>>
  BY <1>2 DEF Close, NoIO, TransportType
<1>5. /\ GoroutineType' /\ KeepThread(t, {"pc", "next"})
      /\ th'[t].pc = p /\ th'[t].next = "clRaw" /\ th'[t].recs = <<>>
  <2>1. p \in Names /\ "clRaw" \in Names
    BY <1>3 DEF Names
  <2>. QED
    BY <1>1, <1>2, <1>3, <2>1 DEF GoroutineType, KeepThread
<1>6. /\ c.active \in {0, 2} /\ c.active + 1 \in {1, 3}
      /\ c.active + 1 \in IF th["write"].pc \in {"off", "idle"} THEN {0, 1} ELSE {2, 3}
  <2>1. c.active \in {0, 2}
    BY <1>2, Parity DEF Close, ConnType
  <2>. QED
    BY <1>2, <2>1 DEF ActiveInv
<1>7. ConnType' /\ KeepConn({"active"}) /\ c'.active = c.active + 1
  <2> DEFINE n == c.active + 1
  <2>1. n \in 0..3 /\ c' = [c EXCEPT !.active = n] /\ ConnType
    BY <1>2, <1>3, <1>6
  <2> HIDE DEF n
  <2>2. ConnType' /\ c'.active = n
    BY <2>1 DEF ConnType
  <2>3. KeepConn({"active"})
    BY <2>1 DEF ConnType, KeepConn
  <2>. QED
    BY <2>2, <2>3 DEF n
<1>8. ActiveInv'
  BY <1>1, <1>5, <1>6, <1>7 DEF ActiveInv, KeepThread, Threads
<1>. QED
  BY <1>1, <1>2, <1>3, <1>4, <1>5, <1>7, <1>8, QuietStep DEF KeepThread, KeepConn, Points, Nexts, Threads, Handshaking

\* closeNotify takes c.out, or goes on when the alert was sent before.
LEMMA CloseNotifyStep == ASSUME Inv, CloseNotify PROVE Inv'
<1> DEFINE t == "close"
<1>1. t \in Threads /\ th[t].pc = "cnOut" /\ c.out = None
  BY DEF CloseNotify, At, Threads
<1>2. /\ ~Writing(t) /\ ~InHandshake(t) /\ th[t].recs = <<>>
      /\ ConnType /\ GoroutineType /\ TransportType /\ ActiveInv /\ th[t].next \in {"idle", "clRaw"}
  <2>1. th[t].next \in Nexts[t]
    BY <1>1 DEF Inv, Control
  <2>. QED
    BY <1>1, <2>1, Outside DEF Handshaking, Nexts, Threads
<1>3. TransportType' /\ UNCHANGED <<sent, peer, got, inq>>
  BY <1>2 DEF CloseNotify, NoIO, TransportType
<1>4. CASE ~c.closeSent
  <2> DEFINE x == c.raced \/ \E u \in Threads : Unlocked(u)
  <2>1. /\ c' = [c EXCEPT !.out = t, !.seq = c.seq + 1, !.raced = x] /\ x \in BOOLEAN
        /\ th' = [th EXCEPT ![t] = [th[t] EXCEPT !.pc = "transmit", !.seq = c.seq, !.recs = <<"closeNotify">>]]
    BY <1>1, <1>2, <1>4 DEF CloseNotify, TakeOut, ConnType, GoroutineType
  <2> HIDE DEF x
  <2>2. c.seq \in Nat /\ c.seq + 1 \in Nat
    BY <1>2 DEF ConnType
  <2>3. ConnType' /\ KeepConn({"out", "seq", "raced"}) /\ c'.out = t /\ c'.seq = c.seq + 1 /\ c'.raced = x
    BY <1>1, <1>2, <2>1, <2>2 DEF ConnType, KeepConn
  <2>4. /\ GoroutineType' /\ KeepThread(t, {"pc", "seq", "recs"}) /\ th'[t].pc = "transmit"
        /\ th'[t].seq = c.seq /\ th'[t].recs = <<"closeNotify">> /\ th'[t].next = th[t].next
    <3>1. <<"closeNotify">> \in Seq(Records) /\ "transmit" \in Names
      BY DEF Records, Names
    <3>. QED
      BY <1>1, <1>2, <2>1, <2>2, <3>1 DEF GoroutineType, KeepThread
  <2>5. KeepThread(t, {"pc", "seq", "recs", "next"}) /\ th'[t].next \in Nexts[t]
    BY <1>1, <1>2, <2>4 DEF KeepThread, Nexts
  <2>. QED
    BY <1>1, <1>2, <1>3, <1>4, <2>3, <2>4, <2>5, LocksOut DEF x
<1>5. CASE c.closeSent
  <2> DEFINE p == th[t].next
  <2>1. c' = c /\ th' = [th EXCEPT ![t].pc = p] /\ p \in Names
    BY <1>2, <1>5 DEF CloseNotify, Goto, Names
  <2>2. GoroutineType' /\ KeepThread(t, {"pc"}) /\ th'[t].pc = p
    BY <1>1, <1>2, <2>1 DEF GoroutineType, KeepThread
  <2>3. ConnType' /\ KeepConn({}) /\ ActiveInv'
    BY <1>1, <1>2, <2>1, <2>2 DEF ConnType, KeepConn, ActiveInv, KeepThread, Threads
  <2>. QED
    BY <1>1, <1>2, <1>3, <2>2, <2>3, QuietStep DEF KeepThread, KeepConn, Points, Threads, Handshaking
<1>. QED
  BY <1>4, <1>5

\* Close closes the transport.
LEMMA CloseRawStep == ASSUME Inv, CloseRaw PROVE Inv'
<1> DEFINE t == "close"
           g == Idle("closed")
<1>1. t \in Threads /\ th[t].pc = "clRaw"
  BY DEF CloseRaw, At, Threads
<1>2. /\ ~Writing(t) /\ ~InHandshake(t) /\ th[t].recs = <<>>
      /\ ConnType /\ GoroutineType /\ TransportType /\ ActiveInv
  BY <1>1, Outside DEF Handshaking
<1>3. th' = [th EXCEPT ![t] = g] /\ c' = [c EXCEPT !.closed = TRUE]
  BY DEF CloseRaw
<1>4. /\ g \in [pc : Names, recs : Seq(Records), next : Names, caller : Names, calls : Nat,
                empty : Nat, res : Names, seq : Nat]
      /\ g.pc = "closed" /\ g.recs = <<>>
  <2>1. "closed" \in Names /\ None \in Names /\ <<>> \in Seq(Records)
    BY DEF Names
  <2>. QED
    BY <2>1 DEF Idle
<1> HIDE DEF g
<1>5. GoroutineType' /\ (\A u \in Threads \ {t} : th'[u] = th[u]) /\ th'[t].pc = "closed" /\ th'[t].recs = <<>>
  BY <1>1, <1>2, <1>3, <1>4 DEF GoroutineType
<1>6. ConnType' /\ KeepConn({"closed"}) /\ ActiveInv'
  BY <1>2, <1>3, <1>5 DEF ConnType, KeepConn, ActiveInv, Threads
<1>7. TransportType' /\ UNCHANGED <<sent, peer, got, inq>>
  BY <1>2 DEF CloseRaw, NoIO, TransportType
<1>. QED
  BY <1>1, <1>2, <1>5, <1>6, <1>7, QuietStep DEF KeepConn, Points, Threads, Handshaking

\* The goroutine of the handshake sends its result to errChannel and ends.
LEMMA HandReportsStep == ASSUME Inv, HandReports PROVE Inv'
<1> DEFINE t == "hand"
           r == IF c.hsErr THEN "err" ELSE "ok"
<1>1. t \in Threads /\ th[t].pc = "report" /\ "off" \in Names
  BY DEF HandReports, At, Threads, Names
<1>2. /\ ~Writing(t) /\ ~InHandshake(t) /\ th[t].recs = <<>>
      /\ ConnType /\ GoroutineType /\ TransportType /\ ActiveInv
  BY <1>1, Outside DEF Handshaking
<1>3. /\ th' = [th EXCEPT ![t].pc = "off"] /\ c' = c /\ errs' = Append(errs, r)
      /\ r \in {"timeout", "err", "ok"} /\ Len(errs) < 2
      /\ UNCHANGED <<sent, acked, inq, peer, got, timer>>
  BY DEF HandReports, Goto, ErrChannelRoom
<1> HIDE DEF r
<1>4. TransportType' /\ UNCHANGED <<sent, peer, got, inq>>
  <2>1. errs' \in Seq({"timeout", "err", "ok"}) /\ Len(errs') <= 2
    BY <1>2, <1>3, Appended DEF TransportType
  <2>. QED
    BY <1>2, <1>3, <2>1 DEF TransportType
<1>5. GoroutineType' /\ KeepThread(t, {"pc"}) /\ th'[t].pc = "off"
  BY <1>1, <1>2, <1>3 DEF GoroutineType, KeepThread
<1>6. ConnType' /\ KeepConn({}) /\ ActiveInv'
  BY <1>2, <1>3, <1>5 DEF ConnType, KeepConn, ActiveInv, KeepThread, Threads
<1>. QED
  BY <1>1, <1>2, <1>4, <1>5, <1>6, QuietStep DEF KeepThread, KeepConn, Points, Threads, Handshaking

\* DialWithDialer takes the first result, and closes the transport on an error.
LEMMA DialReturnsStep == ASSUME Inv, DialReturns PROVE Inv'
<1> DEFINE t == "dial"
           p == IF Head(errs) = "ok" THEN "dialed" ELSE "dialFailed"
           x == c.closed \/ Head(errs) # "ok"
<1>1. t \in Threads /\ th[t].pc = "dialWait"
  BY DEF DialReturns, At, Threads
<1>2. /\ ~Writing(t) /\ ~InHandshake(t) /\ th[t].recs = <<>>
      /\ ConnType /\ GoroutineType /\ TransportType /\ ActiveInv
  BY <1>1, Outside DEF Handshaking
<1>3. /\ th' = [th EXCEPT ![t].pc = p] /\ c' = [c EXCEPT !.closed = x] /\ errs # <<>> /\ errs' = Tail(errs)
      /\ p \in {"dialed", "dialFailed"} /\ UNCHANGED <<sent, acked, inq, peer, got, timer>>
  BY DEF DialReturns, Goto
<1>4. x \in BOOLEAN
  BY <1>2 DEF ConnType
<1> HIDE DEF p, x
<1>5. TransportType' /\ UNCHANGED <<sent, peer, got, inq>>
  <2>1. errs' \in Seq({"timeout", "err", "ok"}) /\ Len(errs') <= 2
    BY <1>2, <1>3 DEF TransportType
  <2>. QED
    BY <1>2, <1>3, <2>1 DEF TransportType
<1>6. GoroutineType' /\ KeepThread(t, {"pc"}) /\ th'[t].pc = p
  <2>1. p \in Names
    BY <1>3 DEF Names
  <2>. QED
    BY <1>1, <1>2, <1>3, <2>1 DEF GoroutineType, KeepThread
<1>7. ConnType' /\ KeepConn({"closed"}) /\ ActiveInv'
  BY <1>2, <1>3, <1>4, <1>6 DEF ConnType, KeepConn, ActiveInv, KeepThread, Threads
<1>. QED
  BY <1>1, <1>2, <1>3, <1>5, <1>6, <1>7, QuietStep DEF KeepThread, KeepConn, Points, Threads, Handshaking

\* DialWithDialer starts the timer and the goroutine of the handshake, which was
\* not running.
LEMMA DialStartsStep == ASSUME Inv, HandStarts, DialStarts PROVE Inv'
<1>1. /\ th["dial"].pc = "dial" /\ th["hand"].pc = "off" /\ c' = c /\ timer' = "on"
      /\ UNCHANGED <<sent, acked, inq, peer, got, errs>>
  BY DEF DialStarts, At, HandStarts
<1>2. /\ "dial" \in Threads /\ "hand" \in Threads /\ {"dialWait", "hsLock", "report"} \subseteq Names
      /\ ConnType /\ GoroutineType /\ TransportType /\ ActiveInv
  BY DEF Inv, Threads, Names
<1>3. /\ ~Writing("dial") /\ ~InHandshake("dial") /\ th["dial"].recs = <<>>
      /\ ~Writing("hand") /\ ~InHandshake("hand") /\ th["hand"].recs = <<>>
  BY <1>1, <1>2, Outside DEF Handshaking
<1>4. th' = [th EXCEPT !["dial"] = [th["dial"] EXCEPT !.pc = "dialWait"],
                       !["hand"] = [th["hand"] EXCEPT !.pc = "hsLock", !.caller = "report"]]
  BY <1>2 DEF DialStarts, GoroutineType
<1>5. /\ GoroutineType' /\ \A u \in Threads \ {"dial", "hand"} : th'[u] = th[u]
      /\ th'["dial"].pc = "dialWait" /\ th'["dial"].recs = <<>>
      /\ th'["hand"].pc = "hsLock" /\ th'["hand"].recs = <<>> /\ th'["hand"].caller = "report"
  BY <1>2, <1>3, <1>4, ZenonT(90) DEF GoroutineType
<1>6. ConnType' /\ TransportType'
  BY <1>1, <1>2 DEF ConnType, TransportType
<1> USE DEF Threads, None
<1>7. Control'
  BY <1>1, <1>3, <1>5 DEF Inv, Control, Writing, Points
<1>8. ReadInv' /\ ActiveInv'
  BY <1>1, <1>2, <1>5 DEF Inv, ReadInv, ActiveInv, Writing
<1>9. MutexInv'
  <2>1. \A u \in Threads : InHandshake(u)' <=> InHandshake(u)
    BY <1>1, <1>3, <1>5 DEF InHandshake, Writing, Handshaking
  <2>2. \A u \in Threads : th'[u].pc = "hsLock" => th[u].pc = "hsLock" \/ th'[u].caller \in Callers[u]
    BY <1>5 DEF Callers
  <2>3. \A u \in Threads : InHandshake(u) => th'[u] = th[u]
    BY <1>3, <1>5
  <2>. QED
    BY <1>1, <1>3, <1>5, <2>1, <2>2, <2>3 DEF Inv, MutexInv
<1>10. OutInv' /\ BufferInv' /\ CloseInv'
  <2>1. \A u \in Threads \ {"dial", "hand"} : th'[u] = th[u]
    BY <1>5
  <2>2. \A u \in {"dial", "hand"} :
           /\ th[u].pc \notin {"number", "transmit", "flushing"}
           /\ th'[u].pc \notin {"number", "transmit", "flushing", "flush", "out"}
           /\ \A i \in DOMAIN th'[u].recs : th'[u].recs[i] \notin Last
    BY <1>1, <1>5
  <2>3. \A u \in Threads :
           \/ th'[u].pc = th[u].pc /\ th'[u].recs = th[u].recs /\ th'[u].next = th[u].next /\ th'[u].seq = th[u].seq
           \/ /\ th[u].pc \notin {"number", "transmit", "flushing"}
              /\ th'[u].pc \notin {"number", "transmit", "flushing", "flush"}
              /\ \A i \in DOMAIN th'[u].recs : th'[u].recs[i] \notin Last
              /\ th'[u].pc = "out" /\ th'[u].next = "flush" => c'.buffering
    BY <2>1, <2>2
  <2>. QED
    BY <1>1, <2>3, WritersKept DEF KeepConn
<1>12. ErrorInv'
  BY <1>1, <1>5 DEF Inv, ErrorInv, Writing
<1>13. StreamInv'
  <2>1. \A u \in Threads : Failing(u) => Failing(u)'
    BY <1>1, <1>5 DEF Failing
  <2>. QED
    BY <1>1, <1>5, <2>1 DEF Inv, StreamInv, Pending, DataIn
<1>. QED
  BY <1>5, <1>6, <1>7, <1>8, <1>9, <1>10, <1>12, <1>13 DEF Inv

\* A step of a goroutine leaves the others where they are, and runs only once
\* the goroutine was started.
LEMMA OthersKept ==
    ASSUME GoroutineType, NEW t \in Threads, ThreadStep(t)
    PROVE  th[t].pc # "off" /\ \A u \in Threads \ {t} : th'[u] = th[u]
<1>1. CASE LockOut(t)
  BY <1>1 DEF LockOut, At, GoroutineType
<1>2. CASE Transmit(t)
  BY <1>2 DEF Transmit, Written, At, GoroutineType
<1>3. CASE ReadRecordClosed(t)
  BY <1>3 DEF ReadRecordClosed, Reading, Goto, At, GoroutineType
<1>4. CASE ReadRecord(t)
  <2>1. th[t].pc # "off"
    BY <1>4 DEF ReadRecord, Reading, At
  <2>2. \/ th' = th
        \/ \E p : Goto(t, p)
        \/ \E r, p : ThenWrite(t, r, p)
    BY <1>4 DEF ReadRecord, AlertReceived, MessageReceived, Reject
  <2>. QED
    BY <2>1, <2>2 DEF Goto, ThenWrite, GoroutineType
<1>5. CASE HandshakeBegins(t)
  BY <1>5 DEF HandshakeBegins, Goto, At, GoroutineType
<1>6. CASE HandshakeSends(t)
  BY <1>6 DEF HandshakeSends, ThenWrite, At, GoroutineType
<1>7. CASE HandshakeAnswered(t)
  BY <1>7 DEF HandshakeAnswered, SendAlertLocked, ThenWrite, At, GoroutineType
<1>8. CASE HandshakeReturns(t)
  BY <1>8 DEF HandshakeReturns, Goto, GoroutineType
<1>9. CASE NumberUnlocked(t)
  BY <1>9 DEF NumberUnlocked, Goto, At, GoroutineType
<1>10. CASE Buffer(t)
  BY <1>10 DEF Buffer, Written, At, GoroutineType
<1>11. CASE FlushBegins(t)
  BY <1>11 DEF FlushBegins, At, GoroutineType
<1>12. CASE Flush(t)
  BY <1>12 DEF Flush, At, GoroutineType
<1>. QED
  BY <1>1, <1>2, <1>3, <1>4, <1>5, <1>6, <1>7, <1>8, <1>9, <1>10, <1>11, <1>12 DEF ThreadStep

\* The goroutine of the handshake does not start twice: no other step than
\* DialStarts moves it from the start, or the dialing caller back to it.
LEMMA HandStartsStep == ASSUME GoroutineType, HandStarts, [Next]_vars PROVE HandStarts'
<1> SUFFICES ASSUME th'["dial"].pc = "dial", th'["hand"].pc # "off" PROVE FALSE
  BY DEF HandStarts
<1> USE DEF HandStarts, Threads
<1>1. ASSUME NEW t \in {"read", "write", "close", "hand"}, ThreadStep(t) PROVE FALSE
  <2>1. th[t].pc # "off" /\ \A u \in Threads \ {t} : th'[u] = th[u]
    BY <1>1, OthersKept
  <2>. QED
    BY <2>1
<1>2. CASE ReadStep
  <2>1. \A u \in Threads \ {"read"} : th'[u] = th[u]
    <3>1. CASE RenegotiationUnread
      BY <3>1 DEF RenegotiationUnread, Reject, SendAlertLocked, ThenWrite, GoroutineType
    <3>. QED
      BY <1>1, <1>2, <3>1 DEF ReadStep, ReadLocks, ReadLoops, HandleRenegotiation, Renegotiate, ReadTakes, ReadReturns,
                              ReadFails, Goto, ThenWrite, Return, GoroutineType
  <2>. QED
    BY <2>1
<1>3. CASE WriteStep
  BY <1>1, <1>3 DEF WriteStep, WriteLocks, WriteReturns, Goto, Return, GoroutineType
<1>4. CASE CloseStep
  BY <1>1, <1>4 DEF CloseStep, CloseNotify, CloseRaw, Goto, GoroutineType
<1>5. CASE DialStep
  <2>1. CASE HandReports
    BY <2>1 DEF HandReports, Goto, GoroutineType
  <2>2. CASE DialReturns
    BY <2>2 DEF DialReturns, Goto, GoroutineType
  <2>3. CASE TimerFires \/ TimerSends
    BY <2>3 DEF TimerFires, TimerSends
  <2>. QED
    BY <1>1, <1>5, <2>1, <2>2, <2>3 DEF DialStep
<1>6. CASE ReadBegins \/ WriteBegins \/ CloseWrite \/ Close \/ DialStarts
  <2>1. CASE ReadBegins \/ WriteBegins
    BY <1>6, <2>1 DEF ReadBegins, WriteBegins, GoroutineType
  <2>2. CASE CloseWrite \/ Close
    BY <1>6, <2>2 DEF CloseWrite, Close, GoroutineType
  <2>3. CASE DialStarts
    BY <2>3 DEF DialStarts, GoroutineType
  <2>. QED
    BY <1>6, <2>1, <2>2, <2>3
<1>7. CASE PeerReads \/ PeerAnswers \/ PeerSends \/ PeerEnds \/ PeerCloses
  BY <1>7 DEF PeerReads, PeerAnswers, PeerSends, PeerEnds, PeerCloses
<1>8. CASE UNCHANGED vars
  BY <1>8 DEF vars
<1>. QED
  BY <1>2, <1>3, <1>4, <1>5, <1>6, <1>7, <1>8 DEF Next

-----------------------------------------------------------------------------
\* A connection starts free, without an error and with nothing written.
LEMMA InitInv == ASSUME Init PROVE Inv /\ HandStarts
<1>1. PICK policy \in Policies : c = NewConn(policy)
  BY DEF Init
<1>2. /\ \A t \in Threads : th[t] \in {Idle("dial"), Idle("off"), Idle("idle")}
      /\ th \in [Threads -> {Idle("dial"), Idle("off"), Idle("idle")}]
      /\ th["dial"] \in {Idle("dial"), Idle("off")} /\ th["hand"] = Idle("off")
      /\ \A t \in {"read", "write", "close"} : th[t] \in {Idle("off"), Idle("idle")}
  BY DEF Init, Threads
<1>3. /\ \A t \in Threads : th[t].recs = <<>> /\ th[t].pc \in {"dial", "off", "idle"} /\ th[t].res = None
      /\ th["dial"].pc \in {"dial", "off"} /\ th["hand"].pc = "off"
      /\ \A t \in {"read", "write", "close"} : th[t].pc \in {"off", "idle"}
  BY <1>2 DEF Idle, Threads
<1>4. /\ sent = <<>> /\ acked = 0 /\ inq = <<>> /\ got = <<>> /\ timer = "off" /\ errs = <<>>
      /\ peer = [data |-> <<>>, hellos |-> 0, extra |-> 0, closed |-> FALSE, asked |-> FALSE, done |-> FALSE,
                 reset |-> FALSE]
  BY DEF Init
<1>5. ConnType
  BY <1>1, ConnAssumption DEF ConnType, NewConn
<1>6. GoroutineType
  <2>1. {"dial", "off", "idle", None} \subseteq Names /\ <<>> \in Seq(Records)
    BY DEF Names
  <2>2. \A p \in {"dial", "off", "idle"} :
           Idle(p) \in [pc : Names, recs : Seq(Records), next : Names, caller : Names, calls : Nat,
                        empty : Nat, res : Names, seq : Nat]
    BY <2>1 DEF Idle
  <2>. QED
    BY <1>2, <2>2 DEF GoroutineType
<1>7. TransportType
  BY <1>4, ConnAssumption DEF TransportType
<1>8. /\ c.hsMutex = None /\ c.out = None /\ c.active = 0 /\ c.status = 0 /\ ~c.hsErr /\ c.inErr = None
      /\ c.warn = 0 /\ c.input = None /\ c.seq = 0 /\ ~c.raced /\ ~c.buffering /\ c.buf = <<>>
  BY <1>1 DEF NewConn
<1> USE DEF Threads, None
<1>9. \A t \in Threads : ~Writing(t) /\ ~InHandshake(t)
  BY <1>3 DEF Writing, InHandshake, Handshaking
<1>10. Control
  BY <1>3, <1>9 DEF Control, Points
<1>11. MutexInv /\ ReadInv
  BY <1>3, <1>8, <1>9 DEF MutexInv, ReadInv
<1>12. OutInv /\ ActiveInv /\ CloseInv /\ BufferInv
  <2>1. Out = 0 /\ DOMAIN sent = {} /\ DOMAIN c.buf = {} /\ \A t \in Threads : DOMAIN th[t].recs = {}
    BY <1>3, <1>4, <1>8 DEF Out
  <2>2. \A t \in Threads : th[t].pc \notin {"number", "transmit", "flush", "flushing"} /\ ~Unlocked(t)
    BY <1>3 DEF Unlocked, At
  <2>3. OutInv
    BY <1>8, <2>1, <2>2 DEF OutInv, WireOrder
  <2>4. ActiveInv /\ CloseInv
    BY <1>3, <1>8, <2>1 DEF ActiveInv, CloseInv
  <2>5. BufferInv
    BY <1>8, <1>9, <2>2 DEF BufferInv
  <2>. QED
    BY <2>3, <2>4, <2>5
<1>13. ErrorInv
  BY <1>3, <1>8, <1>9, ConnAssumption DEF ErrorInv
<1>14. StreamInv
  <2>1. DataIn(inq) = {} /\ Cardinality(DataIn(inq)) = 0
    BY <1>4, FS_EmptySet DEF DataIn
  <2>2. Len(got) = 0 /\ Len(peer.data) = 0 /\ Pending = 0 /\ Len(inq) = 0
    BY <1>4, <1>8 DEF Pending
  <2>3. c.inErr = None /\ th["read"].res = None
    BY <1>3, <1>8
  <2>. QED
    BY <2>1, <2>2, <2>3 DEF StreamInv, Failing
<1>15. HandStarts
  BY <1>3 DEF HandStarts
<1>. QED
  BY <1>5, <1>6, <1>7, <1>10, <1>11, <1>12, <1>13, <1>14, <1>15 DEF Inv

\* Every step of every goroutine, of the timer and of the peer keeps the
\* invariant.
LEMMA NextInv == ASSUME Inv, HandStarts, [Next]_vars PROVE Inv' /\ HandStarts'
<1> SUFFICES Inv'
  BY HandStartsStep DEF Inv
<1>2. ASSUME NEW t \in Threads, ThreadStep(t) PROVE Inv'
  BY <1>2, LockOutStep, NumberUnlockedStep, TransmitStep, BufferStep, FlushBeginsStep, FlushStep, ReadRecordClosedStep, ReadRecordStep, HandshakeBeginsStep,
     HandshakeSendsStep, HandshakeAnsweredStep, HandshakeReturnsStep DEF ThreadStep
<1>3. CASE ReadStep
  BY <1>2, <1>3, ReadLocksStep, ReadLoopsStep, RenegotiationUnreadStep, HandleRenegotiationStep, RenegotiateStep, ReadTakesStep,
     ReadReturnsStep DEF ReadStep, Threads
<1>4. CASE WriteStep
  BY <1>2, <1>4, WriteLocksStep, WriteReturnsStep DEF WriteStep, Threads
<1>5. CASE CloseStep
  BY <1>2, <1>5, CloseNotifyStep, CloseRawStep DEF CloseStep, Threads
<1>6. CASE DialStep
  BY <1>2, <1>6, HandReportsStep, DialReturnsStep, PeerStep DEF DialStep, Threads
<1>7. CASE ReadBegins \/ WriteBegins \/ CloseWrite \/ Close \/ DialStarts
  BY <1>7, ReadBeginsStep, WriteBeginsStep, CloseWriteStep, CloseStepInv, DialStartsStep
<1>8. CASE PeerReads \/ PeerAnswers \/ PeerSends \/ PeerEnds \/ PeerCloses
  BY <1>8, PeerStep
<1>9. CASE UNCHANGED vars
  <2>1. UNCHANGED <<c, th, sent, acked, inq, peer, got, timer, errs>>
    BY <1>9 DEF vars
  <2>2. TransportType' /\ StreamInv'
    BY <2>1 DEF Inv, TransportType, StreamInv, Pending, DataIn, Failing
  <2>. QED
    BY <2>1, <2>2, OtherStep
<1>. QED
  BY <1>3, <1>4, <1>5, <1>6, <1>7, <1>8, <1>9 DEF Next

-----------------------------------------------------------------------------
\* The inductive invariant holds in every state.
THEOREM Invariance == Spec => [](Inv /\ HandStarts)
<1>1. Init => Inv /\ HandStarts
  BY InitInv
<1>2. Inv /\ HandStarts /\ [Next]_vars => (Inv /\ HandStarts)'
  BY NextInv
<1>. QED
  BY <1>1, <1>2, PTL DEF Spec

\* The Conn has its types, the transport never holds more than its window and
\* errChannel never more than two results, and the records leave in the order of
\* their sequence numbers, whoever writes them (writeRecordLocked, incSeq), but
\* where one is written while another goroutine uses c.out without its lock: for
\* the alert of an oversized message, or to flush (c.raced).
THEOREM RecordsInOrder == Spec => []WireInv
<1>1. Inv => WireInv
  <2>1. Inv => TypeOK
    BY DEF Inv, ConnType, TransportType, TypeOK
  <2>2. Inv => WireOrder
    BY DEF Inv, OutInv
  <2>. QED
    BY <2>1, <2>2 DEF WireInv
<1>. QED
  BY <1>1, Invariance, PTL

\* No data follows our close_notify, which is sent once, and a Read that reports
\* the peer's end of the stream has returned all data before it (Write, Close,
\* CloseWrite, and the read ahead of Read); of what is sent after a race on c.out
\* nothing is said.
THEOREM CloseNotifyIsLast == Spec => []CloseNotifyLast
<1>1. Inv => CloseNotifyLast
  <2>1. Inv => NothingAfterCloseNotify
    BY DEF Inv, CloseInv, NothingAfterCloseNotify, Last
  <2>2. Inv => EofAfterAllData
    BY DEF Inv, StreamInv, EofAfterAllData, At
  <2>. QED
    BY <2>1, <2>2 DEF CloseNotifyLast
<1>. QED
  BY <1>1, Invariance, PTL

\* The two internal errors at the top of readRecord do not happen: whoever reads
\* wants what the handshake status says, but for handleRenegotiation without a
\* whole message.
THEOREM ReadersFollowHandshake == Spec => []ReadersInSync
<1>1. Inv => ReadersInSync
  <2> SUFFICES ASSUME Inv, NEW t \in Threads, Reading(t) PROVE (Want(t) = "data") = (c.status = 1)
    BY DEF ReadersInSync, InSync
  <2>1. \/ th[t].pc = "hsRead" /\ c.status = 0
        \/ th[t].pc \in {"rdPeek", "rdLoop"} /\ c.status = 1
    BY Reader DEF AtRecord
  <2>. QED
    BY <2>1 DEF Want
<1>. QED
  BY <1>1, Invariance, PTL

\* c.in.err is permanent: once readRecord has met an error it stays what it was,
\* and no goroutine takes a record of the transport any more.
ErrorStays ==
    c.inErr # None => c'.inErr = c.inErr /\ (inq' = inq \/ \E rs \in Seq(PeerRecords) : inq' = inq \o rs)

\* The error of c.in stays, and what is in the transport then stays there.
THEOREM ReadErrorIsPermanent == Spec => [][ErrorStays]_vars
<1>1. ASSUME Inv, [Next]_vars PROVE ErrorStays
  <2> SUFFICES ASSUME c.inErr # None PROVE c'.inErr = c.inErr /\ (inq' = inq \/ \E rs \in Seq(PeerRecords) : inq' = inq \o rs)
    BY DEF ErrorStays
  <2>1. /\ ConnType /\ \A t \in Threads : ~Reading(t) /\ th[t].pc \notin {"hsRead", "renegotiate"}
        /\ "read" \in Threads /\ inq \in Seq(PeerRecords)
    BY <1>1, Reader DEF Inv, AtRecord, Threads, TransportType
  <2>2. ASSUME NEW t \in Threads, ThreadStep(t) PROVE c'.inErr = c.inErr /\ inq' = inq
    <3>1. CASE LockOut(t) \/ NumberUnlocked(t) \/ FlushBegins(t)
      BY <2>1, <3>1 DEF LockOut, TakeOut, NumberUnlocked, FlushBegins, NoIO, ConnType
    <3>4. CASE Transmit(t) \/ Buffer(t) \/ Flush(t)
      BY <2>1, <3>4 DEF Transmit, Buffer, Flush, Written, NoIO, ConnType
    <3>2. CASE HandshakeBegins(t) \/ HandshakeSends(t)
      BY <2>1, <3>2 DEF HandshakeBegins, HandshakeSends, NoIO, ConnType
    <3>5. ~HandshakeAnswered(t)
      BY <2>1 DEF HandshakeAnswered, At
    <3>3. CASE HandshakeReturns(t)
      <4>1. HandshakeResult(t).inErr = c.inErr /\ "inErr" \in DOMAIN HandshakeResult(t)
        BY <2>1 DEF HandshakeResult, ConnType
      <4>. QED
        BY <3>3, <4>1 DEF HandshakeReturns, NoIO
    <3>. QED
      BY <2>1, <2>2, <3>1, <3>2, <3>3, <3>4, <3>5 DEF ThreadStep, ReadRecord, ReadRecordClosed
  <2>3. CASE ReadStep
    <3>1. CASE ReadLocks \/ ReadLoops \/ HandleRenegotiation \/ Renegotiate \/ ReadTakes \/ ReadReturns \/ ReadFails
      BY <2>1, <3>1 DEF ReadLocks, ReadLoops, HandleRenegotiation, Renegotiate, ReadTakes, ReadReturns, ReadFails,
                        NoIO, ConnType
    <3>2. ~RenegotiationUnread
      BY <2>1 DEF RenegotiationUnread, At
    <3>. QED
      BY <2>2, <2>3, <3>1, <3>2 DEF ReadStep, Threads
  <2>4. CASE WriteStep
    BY <2>1, <2>2, <2>4 DEF WriteStep, WriteLocks, TakeOut, WriteReturns, NoIO, ConnType, Threads
  <2>5. CASE CloseStep
    BY <2>1, <2>2, <2>5 DEF CloseStep, CloseNotify, TakeOut, CloseRaw, NoIO, ConnType, Threads
  <2>6. CASE DialStep
    BY <2>1, <2>2, <2>6 DEF DialStep, HandReports, DialReturns, TimerFires, TimerSends, ConnType, Threads
  <2>7. CASE ReadBegins \/ WriteBegins \/ CloseWrite \/ Close \/ DialStarts
    BY <2>1, <2>7 DEF ReadBegins, WriteBegins, CloseWrite, Close, DialStarts, NoIO, ConnType
  <2>8. CASE PeerReads \/ PeerAnswers \/ PeerSends \/ PeerEnds \/ PeerCloses
    <3>1. CASE PeerReads \/ PeerCloses
      BY <3>1 DEF PeerReads, PeerCloses
    <3>2. CASE PeerAnswers
      <4>1. PICK rs \in {<<"hello">>, <<"part", "hello">>, <<"oversized">>, <<"fatal">>} : inq' = inq \o rs
        BY <3>2 DEF PeerAnswers
      <4>2. /\ <<"hello">> \in Seq(PeerRecords)
            /\ <<"part", "hello">> \in Seq(PeerRecords)
            /\ <<"oversized">> \in Seq(PeerRecords)
            /\ <<"fatal">> \in Seq(PeerRecords)
        BY DEF PeerRecords
      <4>3. rs \in Seq(PeerRecords)
        BY <4>1, <4>2
      <4>. QED
        BY <3>2, <4>1, <4>3 DEF PeerAnswers
    <3>3. CASE PeerSends
      <4>1. PICK rs \in {<<"data">>, <<"empty">>, <<"warning">>, <<"oversized">>, <<"request">>, <<"part", "request">>} :
               inq' = inq \o rs
        BY <3>3 DEF PeerSends
      <4>2. rs \in Seq(PeerRecords)
        BY <4>1 DEF PeerRecords
      <4>. QED
        BY <3>3, <4>1, <4>2 DEF PeerSends
    <3>4. CASE PeerEnds
      <4>1. "closeNotify" \in PeerRecords
        BY DEF PeerRecords
      <4>2. inq' = inq \o <<"closeNotify">> /\ <<"closeNotify">> \in Seq(PeerRecords)
        BY <2>1, <3>4, <4>1, Concatenated DEF PeerEnds
      <4>. QED
        BY <3>4, <4>2 DEF PeerEnds
    <3>. QED
      BY <2>8, <3>1, <3>2, <3>3, <3>4
  <2>9. CASE UNCHANGED vars
    BY <2>9 DEF vars
  <2>. QED
    BY <1>1, <2>3, <2>4, <2>5, <2>6, <2>7, <2>8, <2>9 DEF Next
<1>. QED
  BY <1>1, Invariance, PTL DEF Spec
=============================================================================
