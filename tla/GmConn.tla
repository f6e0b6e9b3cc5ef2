-------------------------------- MODULE GmConn --------------------------------
(***************************************************************************)
(* A Conn of package gmtls that goroutines share (conn.go) and the dialing *)
(* of one under a timeout (tls.go). The caller's goroutines are "dial",    *)
(* "hand" (the handshake of DialWithDialer), "read", "write" and "close";  *)
(* the peer answers every ClientHello, sends records of its own and may    *)
(* close at any time. A handshake is one exchange: hello, answer, finished.*)
(* Two places use what c.out protects without its lock: the alert for an   *)
(* oversized message, and flush. When another goroutine writes meanwhile   *)
(* c.raced is set; of what the build can make of such a race the model has *)
(* the orders, the sequence numbers and the loss of a buffered record, not *)
(* the bytes of c.tmp and of the record's block.                           *)
(***************************************************************************)
EXTENDS Integers, Sequences, FiniteSets

CONSTANTS
    Policies,        \* values of Config.Renegotiation
    HalfClosers,     \* policies under which the caller may use CloseWrite (bounds the state space)
    MaxReads,        \* calls of Read
    MaxWrites,       \* calls of Write
    MaxPeer,         \* records the peer sends of its own
    Window,          \* records the transport holds before a write blocks
    MaxWarn,         \* maxWarnAlertCount
    MaxEmpty         \* maxConsecutiveEmptyRecords

ASSUME ConnAssumption ==
    /\ HalfClosers \subseteq Policies /\ Policies \subseteq {"never", "once", "freely"}
    /\ MaxReads \in Nat /\ MaxWrites \in Nat /\ MaxPeer \in Nat
    /\ Window \in Nat \ {0} /\ MaxWarn \in Nat /\ MaxEmpty \in Nat

VARIABLES
    c,       \* the Conn: its locks, errors, flags and buffers
    th,      \* the goroutines: where they are and what they write next
    sent,    \* records written to the transport, in order
    acked,   \* how many of them the peer has read
    inq,     \* records on their way from the peer
    peer,    \* the peer: data it sent, hellos it answered, what it did
    got,     \* data Read has returned, in order
    timer,   \* the timer of DialWithDialer: "off", "on" or "fired"
    errs     \* errChannel of DialWithDialer, capacity 2

vars == <<c, th, sent, acked, inq, peer, got, timer, errs>>

Threads == {"dial", "hand", "read", "write", "close"}

None == "none"

NewConn(policy) ==
    [hsMutex |-> None, in |-> None, out |-> None, active |-> 0, status |-> 0, hsErr |-> FALSE,
     handshakes |-> 0, inErr |-> None, outErr |-> FALSE, closeSent |-> FALSE, warn |-> 0,
     input |-> None, hand |-> <<>>, seq |-> 0, closed |-> FALSE, policy |-> policy,
     buffering |-> FALSE, buf |-> <<>>, raced |-> FALSE]

(* recs: the records to write under c.out; next: where to go after them;   *)
(* caller: where Handshake returns to; calls: calls made so far; empty:    *)
(* emptyRecordCount; res: the last result; seq: the number of the record   *)
Idle(pc) ==
    [pc |-> pc, recs |-> <<>>, next |-> None, caller |-> None, calls |-> 0, empty |-> 0,
     res |-> None, seq |-> 0]

Init ==
    /\ \E policy \in Policies : c = NewConn(policy)
    /\ \E dialing \in BOOLEAN :
          th = [t \in Threads |-> IF dialing /\ t = "dial" THEN Idle("dial")
                                  ELSE IF dialing \/ t \in {"dial", "hand"} THEN Idle("off") ELSE Idle("idle")]
    /\ sent = <<>> /\ acked = 0 /\ inq = <<>>
    /\ peer = [data |-> <<>>, hellos |-> 0, extra |-> 0, closed |-> FALSE, asked |-> FALSE, done |-> FALSE, reset |-> FALSE]
    /\ got = <<>> /\ timer = "off" /\ errs = <<>>

At(t, pc) == th[t].pc = pc

Goto(t, pc) == th' = [th EXCEPT ![t].pc = pc]

Return(t, res) == th' = [th EXCEPT ![t] = [Idle("idle") EXCEPT !.calls = th[t].calls, !.res = res]]

(* The rest of a call runs without touching these *)
NoIO == UNCHANGED <<sent, acked, inq, peer, got, timer, errs>>

-----------------------------------------------------------------------------
(* Writing records: c.out is taken, a record gets its sequence number when *)
(* it is encrypted and reaches the transport when there is room.           *)

(* The goroutine writes recs next and goes on at next. *)
ThenWrite(t, recs, next) ==
    th' = [th EXCEPT ![t].pc = "out", ![t].recs = recs, ![t].next = next]

(* Mutant: c.out is not locked. *)
LockOutFree(t) ==
    /\ At(t, "out")
    /\ th' = [th EXCEPT ![t].pc = "transmit", ![t].seq = c.seq]
    /\ c' = [c EXCEPT !.seq = @ + 1]
    /\ NoIO

(* A goroutine uses the state of c.out and does not hold it: it writes an  *)
(* alert with sendAlertLocked, or flushes c.sendBuf.                       *)
Unlocked(t) == th[t].pc \in {"number", "flushing"} \/ (At(t, "transmit") /\ c.out # t)

(* The goroutine takes c.out and a sequence number. *)
TakeOut(t) == [c EXCEPT !.out = t, !.seq = @ + 1, !.raced = @ \/ \E u \in Threads : Unlocked(u)]

(* writeRecord and sendAlert take c.out; writeRecordLocked encrypts, with  *)
(* incSeq.                                                                 *)
LockOut(t) ==
    /\ At(t, "out") /\ c.out = None
    /\ th' = [th EXCEPT ![t].pc = "transmit", ![t].seq = c.seq]
    /\ c' = TakeOut(t)
    /\ NoIO

(* readHandshake, a message longer than maxHandshake: sendAlertLocked is   *)
(* called without c.out, and c.in fails. The sequence number is read here  *)
(* and incremented in a step of its own.                                   *)
SendAlertLocked(t, next) ==
    /\ th' = [th EXCEPT ![t].pc = "number", ![t].recs = <<"alert">>, ![t].next = next, ![t].seq = c.seq]
    /\ c' = [c EXCEPT !.inErr = "err", !.raced = @ \/ c.out # None]

(* incSeq without the lock: it may overwrite what another has counted. *)
NumberUnlocked(t) ==
    /\ At(t, "number")
    /\ \E n \in {c.seq + 1, th[t].seq + 1} : c' = [c EXCEPT !.seq = n]
    /\ Goto(t, "transmit")
    /\ NoIO

Room == Len(sent) - acked < Window

Released(lock, t) == IF lock = t THEN None ELSE lock

(* A write fails once the transport is closed or was reset, and may fail  *)
(* once the peer has closed it.                                           *)
Works(broken) ==
    /\ c.closed \/ peer.reset => broken
    /\ broken => c.closed \/ peer.reset \/ peer.closed

(* The transport takes a record, or is broken. *)
Carries(rec, broken) ==
    /\ broken \/ Room
    /\ sent' = IF broken THEN sent ELSE Append(sent, rec)
    /\ peer' = [peer EXCEPT !.reset = broken]
    /\ acked' = IF peer.closed THEN Len(sent') ELSE acked

Record(t) == [type |-> Head(th[t].recs), seq |-> th[t].seq]

(* writeRecordLocked goes on after Conn.write. An error of the transport  *)
(* ends what the goroutine was doing; an alert makes c.out fail, but for  *)
(* close_notify.                                                          *)
Written(t, broken, buf) ==
    LET r == Head(th[t].recs)
        more == Tail(th[t].recs) # <<>> /\ ~broken
    IN  /\ c' = [c EXCEPT !.out = IF more THEN @ ELSE Released(@, t),
                          !.seq = IF more THEN @ + 1 ELSE @,
                          !.outErr = @ \/ r \in {"alert", "noRenegotiation"} \/ (broken /\ r = "data"),
                          !.closeSent = @ \/ r = "closeNotify",
                          !.buf = buf]
        /\ th' = [th EXCEPT ![t].recs = IF more THEN Tail(@) ELSE <<>>,
                            ![t].seq = IF more THEN c.seq ELSE 0,
                            ![t].next = IF more THEN @ ELSE None,
                            ![t].pc = IF more THEN "transmit"
                                      ELSE IF broken /\ r = "hello" THEN "hsFail"
                                      ELSE th[t].next]

(* Conn.write to the transport. c.buffering is set without c.out, so Close *)
(* may still miss it until a record was buffered under c.out.              *)
Transmit(t) ==
    /\ At(t, "transmit") /\ (~c.buffering \/ (t = "close" /\ c.buf = <<>>))
    /\ \E broken \in BOOLEAN : Works(broken) /\ Carries(Record(t), broken) /\ Written(t, broken, c.buf)
    /\ UNCHANGED <<inq, got, timer, errs>>

(* Conn.write to c.sendBuf. What is appended while flush writes is lost    *)
(* when flush clears c.sendBuf.                                            *)
Buffer(t) ==
    /\ At(t, "transmit") /\ c.buffering
    /\ Written(t, FALSE, IF \E u \in Threads : At(u, "flushing") THEN c.buf ELSE Append(c.buf, Record(t)))
    /\ NoIO

(* flush, without c.out: after the finished message, and when Handshake    *)
(* returns an error. A renegotiation that failed does not flush.           *)
FlushBegins(t) ==
    /\ \/ At(t, "flush")
       \/ At(t, "hsFail") /\ th[t].caller # "rdLoop" /\ c.buf # <<>>
    /\ th' = [th EXCEPT ![t].pc = "flushing", ![t].next = IF At(t, "flush") THEN "hsOk" ELSE "hsFail"]
    /\ c' = [c EXCEPT !.raced = @ \/ c.out # None]
    /\ NoIO

Flush(t) ==
    /\ At(t, "flushing")
    /\ \E broken \in BOOLEAN :
          LET done == broken \/ Tail(c.buf) = <<>>
          IN  /\ Works(broken) /\ Carries(Head(c.buf), broken)
              /\ c' = [c EXCEPT !.buf = IF broken THEN <<>> ELSE Tail(@), !.buffering = ~done]
              /\ th' = [th EXCEPT ![t].pc = IF broken THEN "hsFail" ELSE IF done THEN th[t].next ELSE @,
                                  ![t].next = IF done THEN None ELSE @]
    /\ UNCHANGED <<inq, got, timer, errs>>

-----------------------------------------------------------------------------
(* Reading records *)

Closed == c.closed \/ (peer.closed /\ inq = <<>>)

(* The want of the goroutine that reads a record, Read or readHandshake *)
Want(t) == IF th[t].pc \in {"hsRead", "renegotiate"} THEN "handshake" ELSE "data"

Failed(t) == IF th[t].pc = "hsRead" THEN "hsFail" ELSE "rdDone"

(* Where a goroutine goes on with its record; Read looks at the handshake *)
(* messages it has first.                                                 *)
Received(t, hand) ==
    CASE At(t, "hsRead") -> "hsRead"
      [] At(t, "rdPeek") -> "rdDone"
      [] OTHER -> IF hand # <<>> THEN "renegotiate" ELSE "rdLoop"

(* A record of the wrong kind: sendAlert, and c.in fails. *)
Reject(t, alert) ==
    /\ c' = [c EXCEPT !.inErr = "err"]
    /\ ThenWrite(t, <<alert>>, Failed(t))

(* c.hand starts with a whole message; one cut into records is "part"     *)
(* until the rest has come.                                               *)
HasMessage == c.hand \notin {<<>>, <<"part">>}

(* The goroutine reads a record; readHandshake takes what it has first. *)
Reading(t) ==
    \/ At(t, "rdPeek") \/ (At(t, "hsRead") /\ ~HasMessage)
    \/ At(t, "rdLoop") /\ c.input = None /\ c.inErr = None

(* readRecord: the transport fails or ends. *)
ReadRecordClosed(t) ==
    /\ Reading(t) /\ Closed
    /\ c' = [c EXCEPT !.inErr = IF c.closed THEN "err" ELSE "eof"]
    /\ Goto(t, Failed(t))
    /\ NoIO

(* readRecord, an alert: close_notify is the end of the stream; too many   *)
(* warnings in a row are an error; any other alert is fatal.               *)
AlertReceived(t, r) ==
    CASE r = "closeNotify" -> c' = [c EXCEPT !.inErr = "eof"] /\ Goto(t, Failed(t))
      [] r = "fatal"       -> c' = [c EXCEPT !.inErr = "err"] /\ Goto(t, Failed(t))
      [] r = "warning" /\ c.warn < MaxWarn -> c' = [c EXCEPT !.warn = @ + 1] /\ UNCHANGED th
      [] OTHER             -> c' = [c EXCEPT !.warn = @ + 1, !.inErr = "err"]
                              /\ ThenWrite(t, <<"alert">>, Failed(t))

(* The messages of c.hand with those of a record, which may end with the   *)
(* rest of a message.                                                      *)
WithMessage(hand, r) ==
    IF hand # <<>> /\ hand[Len(hand)] = "part" THEN [hand EXCEPT ![Len(hand)] = r] ELSE Append(hand, r)

(* readRecord, application data and handshake messages *)
MessageReceived(t, r) ==
    LET warn == IF r = "empty" THEN c.warn ELSE 0
        hand == WithMessage(c.hand, r)
    IN  IF r \in {"hello", "request", "oversized", "part"}
        THEN IF Want(t) = "handshake" \/ c.policy # "never"
             THEN c' = [c EXCEPT !.hand = hand, !.warn = warn] /\ Goto(t, Received(t, hand))
             ELSE Reject(t, "noRenegotiation")
        ELSE IF Want(t) = "data"
             THEN c' = [c EXCEPT !.input = r, !.warn = warn] /\ Goto(t, Received(t, c.hand))
             ELSE Reject(t, "alert")

ReadRecord(t) ==
    /\ Reading(t) /\ ~c.closed /\ inq # <<>>
    /\ inq' = Tail(inq)
    /\ IF Head(inq) \in {"closeNotify", "fatal", "warning"} THEN AlertReceived(t, Head(inq))
                                                           ELSE MessageReceived(t, Head(inq))
    /\ UNCHANGED <<sent, acked, peer, got, timer, errs>>

-----------------------------------------------------------------------------
(* Handshake: th[t].caller is where it returns to, "rdIn" for Read, "wrOut" *)
(* for Write, "report" for DialWithDialer, "rdLoop" for a renegotiation.    *)

(* Where a call of Handshake goes on, with an error or without *)
AfterHandshake(t, failed) ==
    IF ~failed \/ th[t].caller = "report" THEN th[t].caller
    ELSE IF th[t].caller = "rdLoop" THEN "rdDone" ELSE "failed"

(* handshakeMutex is taken; a past result is returned at once, and the     *)
(* mutex is released.                                                      *)
HandshakeBegins(t) ==
    /\ At(t, "hsLock") /\ c.hsMutex = None
    /\ IF c.hsErr \/ c.status = 1
       THEN Goto(t, AfterHandshake(t, c.hsErr)) /\ UNCHANGED c
       ELSE Goto(t, "hsIn") /\ c' = [c EXCEPT !.hsMutex = t]
    /\ NoIO

(* c.in is taken, then clientHandshake sends its hello. *)
HandshakeSends(t) ==
    /\ At(t, "hsIn") /\ c.in = None
    /\ c' = [c EXCEPT !.in = t]
    /\ ThenWrite(t, <<"hello">>, "hsRead")
    /\ NoIO

(* readHandshake returned: after the first message of the answer records   *)
(* are buffered, the finished message and an alert for one that is not     *)
(* expected. An oversized message stays in c.hand.                         *)
HandshakeAnswered(t) ==
    /\ At(t, "hsRead") /\ HasMessage
    /\ CASE Head(c.hand) = "hello" ->
              c' = [c EXCEPT !.hand = Tail(@), !.buffering = TRUE] /\ ThenWrite(t, <<"finished">>, "flush")
         [] Head(c.hand) = "oversized" ->
              SendAlertLocked(t, "hsFail")
         [] OTHER ->
              /\ \E first \in BOOLEAN : c' = [c EXCEPT !.hand = Tail(@), !.buffering = @ \/ ~first]
              /\ ThenWrite(t, <<"alert">>, "hsFail")
    /\ NoIO

(* The end of clientHandshake: handshakeStatus or handshakeErr is set, and *)
(* handshakes counts the ones that succeeded.                              *)
HandshakeResult(t) ==
    IF At(t, "hsOk") THEN [c EXCEPT !.status = 1, !.handshakes = @ + 1]
                     ELSE [c EXCEPT !.hsErr = TRUE]

(* Handshake returns: its locks are released; a renegotiation keeps c.in,  *)
(* which Read holds.                                                       *)
HandshakeReturns(t) ==
    /\ th[t].pc \in {"hsOk", "hsFail"} /\ (th[t].caller = "rdLoop" \/ c.buf = <<>>)
    /\ c' = [HandshakeResult(t) EXCEPT
                !.hsMutex = None, !.in = IF th[t].caller = "rdLoop" THEN @ ELSE Released(@, t)]
    /\ Goto(t, AfterHandshake(t, c'.hsErr))
    /\ NoIO

-----------------------------------------------------------------------------
(* Read *)

ReadBegins ==
    /\ At("read", "idle") /\ th["read"].calls < MaxReads
    /\ th' = [th EXCEPT !["read"].pc = "hsLock", !["read"].caller = "rdIn", !["read"].calls = @ + 1]
    /\ UNCHANGED c /\ NoIO

ReadLocks ==
    /\ At("read", "rdIn") /\ c.in = None
    /\ c' = [c EXCEPT !.in = "read"]
    /\ th' = [th EXCEPT !["read"].pc = "rdLoop", !["read"].empty = 0]
    /\ NoIO

(* The inner loop reads a record while there is no input and no error, see *)
(* Reading; an error ends it.                                              *)
ReadLoops ==
    /\ At("read", "rdLoop") /\ c.inErr # None
    /\ Goto("read", "rdDone")
    /\ UNCHANGED c /\ NoIO

(* handleRenegotiation, the message is not whole or too long: the rest is  *)
(* asked for as a handshake record, which readRecord refuses with an       *)
(* internal error as no handshake is in progress.                          *)
RenegotiationUnread ==
    /\ At("read", "renegotiate")
    /\ \/ ~HasMessage /\ Reject("read", "alert")
       \/ HasMessage /\ Head(c.hand) = "oversized" /\ SendAlertLocked("read", "rdDone")
    /\ NoIO

(* handleRenegotiation up to the lock of handshakeMutex *)
HandleRenegotiation ==
    /\ At("read", "renegotiate") /\ HasMessage /\ Head(c.hand) # "oversized"
    /\ c' = [c EXCEPT !.hand = Tail(@)]
    /\ IF Head(c.hand) # "request" THEN ThenWrite("read", <<"alert">>, "rdDone")
       ELSE IF c.policy = "once" /\ c.handshakes > 1
       THEN ThenWrite("read", <<"noRenegotiation">>, "rdDone")
       ELSE Goto("read", "reLock")
    /\ NoIO

(* Mutant: handshakeStatus is not reset. *)
RenegotiateDone ==
    /\ At("read", "reLock") /\ c.hsMutex = None
    /\ c' = [c EXCEPT !.hsMutex = "read"]
    /\ th' = [th EXCEPT !["read"].pc = "out", !["read"].recs = <<"hello">>,
                        !["read"].caller = "rdLoop", !["read"].next = "hsRead"]
    /\ NoIO

(* handleRenegotiation: handshakeStatus is reset under handshakeMutex, and *)
(* clientHandshake runs with c.in still held.                              *)
Renegotiate ==
    /\ At("read", "reLock") /\ c.hsMutex = None
    /\ c' = [c EXCEPT !.hsMutex = "read", !.status = 0]
    /\ th' = [th EXCEPT !["read"].pc = "out", !["read"].recs = <<"hello">>,
                        !["read"].caller = "rdLoop", !["read"].next = "hsRead"]
    /\ NoIO

(* The data is copied to the caller. An empty record is skipped, up to a   *)
(* limit; when an alert is already buffered behind the data it is read     *)
(* first, so that the caller learns of the end of the stream.              *)
ReadTakes ==
    /\ At("read", "rdLoop") /\ c.input # None /\ c.inErr = None
    /\ c' = [c EXCEPT !.input = None]
    /\ IF c.input = "empty"
       THEN /\ th' = [th EXCEPT !["read"].empty = @ + 1,
                                !["read"].pc = IF th["read"].empty < MaxEmpty THEN "rdLoop" ELSE "rdDone"]
            /\ UNCHANGED got
       ELSE /\ got' = Append(got, Len(got) + 1)
            /\ \/ Goto("read", "rdDone")
               \/ /\ inq # <<>> /\ Head(inq) \in {"closeNotify", "fatal", "warning"}
                  /\ Goto("read", "rdPeek")
    /\ UNCHANGED <<sent, acked, inq, peer, timer, errs>>

ReadReturns ==
    /\ At("read", "rdDone")
    /\ c' = [c EXCEPT !.in = None]
    /\ Return("read", IF c.hsErr THEN "err" ELSE c.inErr)
    /\ NoIO

-----------------------------------------------------------------------------
(* Write, Close and CloseWrite *)

(* Write, the interlock with Close *)
WriteBegins ==
    /\ At("write", "idle") /\ th["write"].calls < MaxWrites
    /\ IF c.active % 2 = 1
       THEN /\ th' = [th EXCEPT !["write"].res = "errClosed", !["write"].calls = @ + 1]
            /\ UNCHANGED c
       ELSE /\ th' = [th EXCEPT !["write"].pc = "hsLock", !["write"].caller = "wrOut", !["write"].calls = @ + 1]
            /\ c' = [c EXCEPT !.active = @ + 2]
    /\ NoIO

(* Mutant: closeNotifySent is not looked at. *)
WriteAllowedAfterClose == ~c.outErr /\ c.status = 1

WriteAllowed == ~c.outErr /\ c.status = 1 /\ ~c.closeSent

(* Write, under c.out: the first byte goes in a record of its own. *)
WriteLocks ==
    /\ At("write", "wrOut") /\ c.out = None
    /\ IF WriteAllowed
       THEN /\ c' = TakeOut("write")
            /\ th' = [th EXCEPT !["write"].pc = "transmit", !["write"].seq = c.seq, !["write"].recs = <<"data", "data">>,
                                !["write"].next = "wrDone"]
       ELSE Goto("write", "failed") /\ UNCHANGED c
    /\ NoIO

(* Write returns, and so do the calls that failed before they held a lock; *)
(* the deferred subtraction ends the interlock.                            *)
WriteReturns ==
    /\ th["write"].pc \in {"wrDone", "failed"}
    /\ c' = [c EXCEPT !.active = @ - 2]
    /\ Return("write", IF At("write", "failed") \/ c.outErr THEN "err" ELSE "ok")
    /\ NoIO

ReadFails ==
    /\ At("read", "failed") /\ Return("read", "err")
    /\ UNCHANGED c /\ NoIO

(* CloseWrite *)
CloseWrite ==
    /\ At("close", "idle") /\ th["close"].calls = 0 /\ c.policy \in HalfClosers
    /\ th' = [th EXCEPT !["close"].pc = IF c.status = 1 THEN "cnOut" ELSE "idle",
                        !["close"].next = IF c.status = 1 THEN "idle" ELSE None, !["close"].calls = 1]
    /\ UNCHANGED c /\ NoIO

(* Mutant: Close does not look at activeCall. *)
CloseNotifies ==
    /\ At("close", "idle") /\ c.active % 2 = 0
    /\ c' = [c EXCEPT !.active = @ + 1]
    /\ th' = [th EXCEPT !["close"].next = "clRaw",
                        !["close"].pc = IF c.status # 1 THEN "clRaw" ELSE "cnOut"]
    /\ NoIO

(* Close, the interlock with Write: with a Write in flight the transport   *)
(* is closed at once.                                                      *)
Close ==
    /\ At("close", "idle") /\ c.active % 2 = 0
    /\ c' = [c EXCEPT !.active = @ + 1]
    /\ th' = [th EXCEPT !["close"].next = "clRaw",
                        !["close"].pc = IF c.active # 0 \/ c.status # 1 THEN "clRaw" ELSE "cnOut"]
    /\ NoIO

(* closeNotify, under c.out: sent once *)
CloseNotify ==
    /\ At("close", "cnOut") /\ c.out = None
    /\ IF c.closeSent THEN Goto("close", th["close"].next) /\ UNCHANGED c
       ELSE /\ c' = TakeOut("close")
            /\ th' = [th EXCEPT !["close"].pc = "transmit", !["close"].seq = c.seq, !["close"].recs = <<"closeNotify">>]
    /\ NoIO

CloseRaw ==
    /\ At("close", "clRaw")
    /\ c' = [c EXCEPT !.closed = TRUE]
    /\ th' = [th EXCEPT !["close"] = Idle("closed")]
    /\ NoIO

-----------------------------------------------------------------------------
(* DialWithDialer *)

(* The timer is started and the handshake runs in a goroutine. *)
DialStarts ==
    /\ At("dial", "dial") /\ timer = "off"
    /\ timer' = "on"
    /\ th' = [th EXCEPT !["dial"].pc = "dialWait", !["hand"].pc = "hsLock", !["hand"].caller = "report"]
    /\ UNCHANGED <<c, sent, acked, inq, peer, got, errs>>

(* Mutant: errChannel is not buffered. *)
ErrChannelUnbuffered == errs = <<>> /\ At("dial", "dialWait")

ErrChannelRoom == Len(errs) < 2

TimerFires ==
    /\ timer = "on" /\ timer' = "fired"
    /\ UNCHANGED <<c, th, sent, acked, inq, peer, got, errs>>

(* The function of time.AfterFunc sends a timeoutError. *)
TimerSends ==
    /\ timer = "fired" /\ ErrChannelRoom
    /\ timer' = "done" /\ errs' = Append(errs, "timeout")
    /\ UNCHANGED <<c, th, sent, acked, inq, peer, got>>

(* The goroutine sends what Handshake returned. *)
HandReports ==
    /\ At("hand", "report") /\ ErrChannelRoom
    /\ errs' = Append(errs, IF c.hsErr THEN "err" ELSE "ok")
    /\ Goto("hand", "off")
    /\ UNCHANGED <<c, sent, acked, inq, peer, got, timer>>

(* The first result decides: with an error the transport is closed. What   *)
(* the caller does with the connection it gets is the other start.         *)
DialReturns ==
    /\ At("dial", "dialWait") /\ errs # <<>>
    /\ errs' = Tail(errs)
    /\ Goto("dial", IF Head(errs) = "ok" THEN "dialed" ELSE "dialFailed")
    /\ c' = [c EXCEPT !.closed = @ \/ Head(errs) # "ok"]
    /\ UNCHANGED <<sent, acked, inq, peer, got, timer>>

-----------------------------------------------------------------------------
(* The peer *)

Hellos == Cardinality({i \in 1..acked : sent[i].type = "hello"})

PeerReads ==
    /\ acked < Len(sent) /\ ~peer.closed
    /\ acked' = acked + 1
    /\ UNCHANGED <<c, th, sent, inq, peer, got, timer, errs>>

(* The peer answers a hello, with its part of the handshake, in one record *)
(* or more, with a message that is too long or with an alert.              *)
PeerAnswers ==
    /\ peer.hellos < Hellos /\ ~peer.closed /\ ~peer.done
    /\ \E rs \in {<<"hello">>, <<"part", "hello">>, <<"oversized">>, <<"fatal">>} : inq' = inq \o rs
    /\ peer' = [peer EXCEPT !.hellos = @ + 1, !.asked = FALSE]
    /\ UNCHANGED <<c, th, sent, acked, got, timer, errs>>

(* The peer sends data, an empty record, a warning, a message that is too  *)
(* long, or asks for a renegotiation, after which it waits for the hello.  *)
PeerSends ==
    /\ peer.extra < MaxPeer /\ peer.hellos > 0 /\ ~peer.closed /\ ~peer.done /\ ~peer.asked
    /\ \E rs \in {<<"data">>, <<"empty">>, <<"warning">>, <<"oversized">>, <<"request">>, <<"part", "request">>} :
          /\ inq' = inq \o rs
          /\ peer' = [peer EXCEPT !.extra = @ + 1, !.asked = rs[Len(rs)] = "request",
                                  !.data = IF rs = <<"data">> THEN Append(@, Len(@) + 1) ELSE @]
    /\ UNCHANGED <<c, th, sent, acked, got, timer, errs>>

(* The peer says close_notify, and closes the transport. *)
PeerEnds ==
    /\ ~peer.done /\ peer.hellos > 0 /\ ~peer.closed
    /\ inq' = Append(inq, "closeNotify")
    /\ peer' = [peer EXCEPT !.done = TRUE]
    /\ UNCHANGED <<c, th, sent, acked, got, timer, errs>>

PeerCloses ==
    /\ ~peer.closed
    /\ peer' = [peer EXCEPT !.closed = TRUE]
    /\ acked' = Len(sent)
    /\ UNCHANGED <<c, th, sent, inq, got, timer, errs>>

-----------------------------------------------------------------------------
ThreadStep(t) ==
    \/ LockOut(t) \/ NumberUnlocked(t) \/ Transmit(t) \/ Buffer(t) \/ FlushBegins(t) \/ Flush(t)
    \/ ReadRecordClosed(t) \/ ReadRecord(t)
    \/ HandshakeBegins(t) \/ HandshakeSends(t) \/ HandshakeAnswered(t) \/ HandshakeReturns(t)

ReadStep ==
    \/ ThreadStep("read")
    \/ ReadLocks \/ ReadLoops \/ RenegotiationUnread \/ HandleRenegotiation \/ Renegotiate \/ ReadTakes \/ ReadReturns \/ ReadFails

WriteStep == ThreadStep("write") \/ WriteLocks \/ WriteReturns

CloseStep == ThreadStep("close") \/ CloseNotify \/ CloseRaw

DialStep == ThreadStep("hand") \/ HandReports \/ DialReturns \/ TimerFires \/ TimerSends

Next ==
    \/ ReadStep \/ WriteStep \/ CloseStep \/ DialStep
    \/ ReadBegins \/ WriteBegins \/ CloseWrite \/ Close \/ DialStarts
    \/ PeerReads \/ PeerAnswers \/ PeerSends \/ PeerEnds \/ PeerCloses

(* As long as a goroutine can run, the timer can fire or a peer that has   *)
(* not closed has something to read, one of them does. No call loops, so   *)
(* this is all the fairness between them that is needed.                   *)
Fairness == WF_vars(ReadStep \/ WriteStep \/ CloseStep \/ DialStep \/ PeerReads)

Spec == Init /\ [][Next]_vars /\ Fairness

(* The same with a peer that may stop reading and not close. *)
SilentSpec == Init /\ [][Next]_vars /\ WF_vars(ReadStep \/ WriteStep \/ CloseStep \/ DialStep)

-----------------------------------------------------------------------------
(* The Conn and the goroutines have their types: a lock is free or held by *)
(* a goroutine, and the counters are within their limits.                  *)
TypeOK ==
    /\ {c.hsMutex, c.in, c.out} \subseteq Threads \cup {None}
    /\ c.active \in 0..3 /\ c.status \in {0, 1} /\ c.warn \in 0..MaxWarn + 1
    /\ c.inErr \in {None, "eof", "err"}
    /\ acked \in 0..Len(sent) /\ Len(sent) - acked <= Window
    /\ Len(errs) <= 2

(* Records reach the transport in the order of their sequence numbers,     *)
(* whoever writes them: an alert of Read, a handshake, data or the         *)
(* close_notify of Close (writeRecordLocked under c.out), and none that    *)
(* was buffered is missing. Only where another record was written while    *)
(* readHandshake sent its alert, or flush wrote, without c.out is nothing  *)
(* said. A record out of order does not decrypt at the peer.               *)
WireOrder == c.raced \/ \A i \in DOMAIN sent : sent[i].seq = i - 1

(* After a close_notify no data is sent, and close_notify is sent once,    *)
(* however Write, CloseWrite and Close interleave (closeNotifySent), again *)
(* unless c.out was used without its lock.                                 *)
NothingAfterCloseNotify ==
    c.raced \/ \A i \in DOMAIN sent : sent[i].type = "closeNotify" =>
        \A j \in i + 1..Len(sent) : sent[j].type \notin {"data", "closeNotify"}

InSync(t) == (Want(t) = "data") = (c.status = 1)

(* Whoever reads a record is in step with the handshake: the two internal  *)
(* errors at the top of readRecord do not happen while one goroutine reads *)
(* and others write, dial, renegotiate or close, but where Read has a part *)
(* of a message only (RenegotiationUnread).                                *)
ReadersInSync == \A t \in Threads : Reading(t) => InSync(t)

(* The same of every call of readRecord, as its first comment has it: also *)
(* of readHandshake called by handleRenegotiation. It does not hold.       *)
CallersInSync ==
    \A t \in Threads : Reading(t) \/ (At(t, "renegotiate") /\ ~HasMessage) => InSync(t)

(* Each record that is written has a sequence number of its own: writing   *)
(* one updates the state of the record layer (writeRecordLocked). It does  *)
(* not hold where readHandshake writes an alert without c.out.             *)
NumbersApart == \A i, j \in DOMAIN sent : i # j => sent[i].seq # sent[j].seq

(* A Read that returns the end of the stream has returned all data before  *)
(* it: a close_notify that is read ahead takes nothing away.               *)
EofAfterAllData ==
    th["read"].res = "eof" /\ At("read", "idle") => Len(got) = Len(peer.data)

(* The connection has its types and its records leave in order (WireOrder),*)
(* in every interleaving of the goroutines of conn.go that write under     *)
(* c.out, and of those that do not while nobody else writes.               *)
WireInv == TypeOK /\ WireOrder

(* close_notify ends the data in both directions: none follows ours, which *)
(* is sent once (an alert or the messages of a renegotiation may follow),  *)
(* and a Read that reports the peer's has returned all data before it.     *)
CloseNotifyLast == NothingAfterCloseNotify /\ EofAfterAllData

(* Once Close was called, every call in progress returns, Close included:  *)
(* goroutines in Handshake, in a renegotiation, in Read or in Write are    *)
(* released although they hold locks that others wait for. This takes a    *)
(* peer that goes on reading or closes; a Write that is under way when     *)
(* Close is called returns without, and so does Close, although Write is   *)
(* stuck with c.out: activeCall tells Close not to wait for c.out with its *)
(* alert.                                                                  *)
CloseReleases ==
    /\ Fairness => ((c.active % 2 = 1) ~> (At("close", "closed") /\ At("read", "idle") /\ At("write", "idle")))
    /\ (c.active = 3) ~> (At("close", "closed") /\ At("write", "idle"))

(* DialWithDialer returns, and neither the goroutine of the handshake nor  *)
(* the function of the timer stays behind, whichever comes first.          *)
DialEnds ==
    At("dial", "dialWait") ~> (~At("dial", "dialWait") /\ At("hand", "off") /\ timer = "done")
=============================================================================
