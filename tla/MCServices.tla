----------------------------- MODULE MCServices -----------------------------
(***************************************************************************)
(* The services around the state: the priority queue, the log files, the   *)
(* dispatch of log records, the SO handler and the two programs, in one    *)
(* run. Each behaviour is one of one of them, the active one; "logs" is of *)
(* two goroutines that log while the filters change once, "changes" of one *)
(* during two changes.                                                     *)
(***************************************************************************)
EXTENDS LogDispatch, LogFiles, Prque

VARIABLES
    active,
    db, chain, answered, acks,
    sigs, done, waiter, main, sent, server, cancelled, httpmain

soVars == <<db, chain, answered, acks>>
programVars == <<sigs, done, waiter, main, sent, server, cancelled, httpmain>>
allVars == <<active, queueVars, fileVars, vars, soVars, programVars>>

SampleCalls ==
    {[by |-> "g", site |-> "a", lvl |-> 1], [by |-> "g", site |-> "b", lvl |-> 0], [by |-> "h", site |-> "a", lvl |-> 1]}
SampleRules ==
    {<<>>, <<[sites |-> {"a"}, level |-> 0], [sites |-> {"a", "b"}, level |-> 1], [sites |-> {"a"}, level |-> 4]>>}

(* Of the keys two share an entry; the ranges of blocks are within, up to  *)
(* and beyond the head, and one is empty                                   *)
Contract == INSTANCE SoHandler WITH
    Addresses <- {"x"}, Keys <- {<<>>, <<1>>, <<1, 1>>, <<1, 0, 1>>}, Vals <- {<<1>>}, HashLength <- 2,
    Ranges <- {<<0, 3>>, <<1, 3>>, <<0, 4>>, <<2, 1>>},
    MaxSize <- 2, MaxBlocks <- 3, MaxWrites <- 2, last <- answered

Programs == INSTANCE Shutdown WITH MaxSignals <- 3

-----------------------------------------------------------------------------
ServicesInit ==
    /\ active \in {"queue", "files", "logs", "changes", "contract", "programs"}
    /\ QueueInit /\ FilesInit /\ Contract!Init /\ Programs!Init
    /\ Init /\ (active \notin {"logs", "changes"} => glog.patterns = <<>>)

Queues == active = "queue" /\ UNCHANGED <<active, fileVars, vars, soVars, programVars>>
Files == active = "files" /\ UNCHANGED <<active, queueVars, vars, soVars, programVars>>
Logs == active \in {"logs", "changes"} /\ UNCHANGED <<active, queueVars, fileVars, soVars, programVars>>
Contracts == active = "contract" /\ UNCHANGED <<active, queueVars, fileVars, vars, programVars>>
Mains == active = "programs" /\ UNCHANGED <<active, queueVars, fileVars, vars, soVars>>

ServicesNext ==
    \/ Queues /\ QueueNext
    \/ Files /\ FilesNext
    \/ Logs /\ Next /\ (IF active = "logs" THEN changes' <= 1 ELSE pc'["h"] = "idle")
    \/ Contracts /\ Contract!Next
    \/ Mains /\ Programs!Next

(* The Go scheduler runs every goroutine that can go on, and the sinks     *)
(* answer; calls, changes, signals and failures need not come              *)
Fairness ==
    /\ WF_allVars(Logs /\ Drain)
    /\ WF_allVars(Logs /\ Release)
    /\ \A g \in Goroutines : WF_allVars(Logs /\ Step(g))
    /\ WF_allVars(Mains /\ Programs!Scheduled)

ServicesSpec == ServicesInit /\ [][ServicesNext]_allVars /\ Fairness

-----------------------------------------------------------------------------
(* logger.write: every call returns or the process ends, although the      *)
(* channel of the BufferedHandler blocks when it is full: after the last   *)
(* call (there are MaxCalls at most) no goroutine is in the logger.        *)
CallsReturn == <>[](exited \/ \A g \in Goroutines : pc[g] = "idle")

(* SOCallStub: every entry of the ledger holds its last acknowledged write *)
(* (the keys of PUT_STATES apart), and no other call changes it.           *)
WritesHeld == Contract!WritesHeld

(* GET_HISTORY: the handler finds the values of the blocks in the range.   *)
HistoryExact == Contract!HistoryExact

(* singal ends on a signal, at whatever time it comes, and on nothing      *)
(* else; httpserver's main returns when its server has failed.             *)
ProgramsEnd ==
    /\ [](active = "programs" => Programs!WaitsForSignal)
    /\ Programs!SignalEnds
    /\ Programs!FailureEnds
=============================================================================
