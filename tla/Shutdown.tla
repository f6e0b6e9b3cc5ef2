------------------------------ MODULE Shutdown ------------------------------
(***************************************************************************)
(* The two programs that start a goroutine in an errgroup and wait for it: *)
(* singal ends on a signal, httpserver when its server fails. Signals come *)
(* at any time, and one that finds its channel full is dropped.            *)
(***************************************************************************)
EXTENDS Integers, Sequences

CONSTANT
    MaxSignals   \* bound: signals sent to singal

VARIABLES
    sigs, done,  \* the channels of singal
    waiter,      \* its goroutine: "none", "receive", "notify", "ended"
    main,        \* its main: "start", "notified", "wait", "exited", or "killed"
    sent,        \* signals sent to it
    server,      \* the goroutine of httpserver: "serving", "send", "failed", "ended"
    cancelled,   \* the context of its errgroup
    httpmain     \* its main: "wait", "select", "exited"

singal == <<sigs, done, waiter, main, sent>>
httpserver == <<server, cancelled, httpmain>>
vars == <<sigs, done, waiter, main, sent, server, cancelled, httpmain>>

Init ==
    /\ sigs = <<>> /\ done = <<>> /\ waiter = "none" /\ main = "start" /\ sent = 0
    /\ server = "serving" /\ cancelled = FALSE /\ httpmain = "wait"

-----------------------------------------------------------------------------
(* singal *)

Notify == main = "start" /\ main' = "notified" /\ UNCHANGED <<sigs, done, waiter, sent, httpserver>>
Go == main = "notified" /\ main' = "wait" /\ waiter' = "receive" /\ UNCHANGED <<sigs, done, sent, httpserver>>

(* A mutant makes the channel without a buffer *)
FitsNobody == waiter = "receive" /\ sigs = <<>>
Fits == Len(sigs) < 1

(* The runtime sends without blocking; without Notify the signal kills *)
Signal ==
    /\ main \notin {"exited", "killed"} /\ sent < MaxSignals
    /\ sent' = sent + 1
    /\ main' = IF main = "start" THEN "killed" ELSE main
    /\ sigs' = IF main # "start" /\ Fits THEN Append(sigs, "signal") ELSE sigs
    /\ UNCHANGED <<done, waiter, httpserver>>

Running == main \notin {"exited", "killed"}
ReceiveSignal ==
    /\ Running /\ waiter = "receive" /\ sigs # <<>>
    /\ sigs' = Tail(sigs) /\ waiter' = "notify"
    /\ UNCHANGED <<done, main, sent, httpserver>>
SendDone ==
    /\ Running /\ waiter = "notify" /\ Len(done) < 1
    /\ done' = Append(done, TRUE) /\ waiter' = "ended"
    /\ UNCHANGED <<sigs, main, sent, httpserver>>

MayExit == main = "wait" /\ done # <<>>
Exit == MayExit /\ done' = SelectSeq(done, LAMBDA d : FALSE) /\ main' = "exited" /\ UNCHANGED <<sigs, waiter, sent, httpserver>>

-----------------------------------------------------------------------------
(* httpserver *)

(* Without an error the goroutine sends the server on a channel main only  *)
(* reads after g.Wait: "send" has no next step. ListenAndServe never       *)
(* returns without one.                                                    *)
AfterStart(err) == IF err # "" THEN "failed" ELSE "send"
ServerFails == server = "serving" /\ server' = AfterStart("listen") /\ UNCHANGED <<singal, cancelled, httpmain>>

(* errgroup: the first error cancels the context, then Wait may return *)
GroupDone == server = "failed" /\ server' = "ended" /\ cancelled' = TRUE /\ UNCHANGED <<singal, httpmain>>
Waited == httpmain = "wait" /\ server = "ended" /\ httpmain' = "select" /\ UNCHANGED <<singal, server, cancelled>>
SelectDone == httpmain = "select" /\ cancelled /\ httpmain' = "exited" /\ UNCHANGED <<singal, server, cancelled>>

-----------------------------------------------------------------------------
(* What the scheduler runs; signals and failures come or do not *)
Scheduled == Notify \/ Go \/ ReceiveSignal \/ SendDone \/ Exit \/ GroupDone \/ Waited \/ SelectDone
Next == Scheduled \/ Signal \/ ServerFails

(* singal: "The program will wait here until it gets the expected signal": *)
(* it does not end before one.                                             *)
WaitsForSignal == main = "exited" => sent > 0

(* singal: a signal ends the program, even one that comes between Notify   *)
(* and the start of the goroutine, and however many follow it.             *)
SignalEnds == sent > 0 ~> main \in {"exited", "killed"}

(* httpserver and homework.md, "one exits, all exit": when the server has  *)
(* failed, main returns.                                                   *)
FailureEnds == server # "serving" ~> httpmain = "exited"
=============================================================================
