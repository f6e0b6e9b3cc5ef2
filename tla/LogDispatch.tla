---------------------------- MODULE LogDispatch ----------------------------
(***************************************************************************)
(* Package log from a call of a logger to the sinks: the swapped root      *)
(* handler, the GlogHandler with its site cache, and behind it             *)
(*   MultiHandler(BufferedHandler(FailoverHandler(sinks)),                 *)
(*                LvlFilterHandler(StreamHandler)).                        *)
(* Goroutines log while others change the configuration.                   *)
(***************************************************************************)
EXTENDS Integers, Sequences, FiniteSets, SequencesExt

CONSTANTS
    Goroutines,
    Calls,       \* the log calls of the program: [by, site, lvl]
    Verbosities, \* arguments of Verbosity
    RuleSets,    \* arguments of Vmodule: sequences of [sites, level]
    Locations,   \* arguments of BacktraceAt: sites
    StreamLvl,   \* the level of the LvlFilterHandler
    BufSize,     \* the capacity of the BufferedHandler
    Sinks,       \* how many handlers the FailoverHandler has
    MaxCalls,    \* bound: calls of the logger
    MaxChanges   \* bound: changes of the configuration

(* What the program passes: calls of its goroutines, with a level, and     *)
(* rules, with a level; and the level of the LvlFilterHandler.             *)
Arguments ==
    /\ "" \notin Goroutines
    /\ \A call \in Calls : call.by \in Goroutines /\ call.lvl \in Nat
    /\ Verbosities \subseteq Nat
    /\ \A ruleset \in RuleSets :
          /\ Len(ruleset) \in Nat /\ DOMAIN ruleset = 1 .. Len(ruleset)
          /\ \A i \in DOMAIN ruleset : ruleset[i].level \in Nat
    /\ StreamLvl \in Nat /\ Sinks \in Nat

ASSUME LogConstants == Arguments

VARIABLES
    handler,     \* swapHandler of the root: "glog" or "discard"
    glog,        \* GlogHandler: level, override, backtrace, patterns, siteCache, location
    lock,        \* who holds GlogHandler.lock between steps: "", "vmodule", "backtrace"
    pc, rec,     \* of a goroutine: its place in Log, and its record
    recs,        \* the channel of the BufferedHandler
    drain,       \* the goroutine of the BufferedHandler: the record and the next sink
    sinks,       \* what each handler of the FailoverHandler has written
    mu, stream,  \* SyncHandler's mutex and what was written under it, in parts
    exited,      \* os.Exit was called
    calls, changes,
    seen,        \* levels, patterns, locations in force since a goroutine's call began
    flagged,     \* the patterns of the last Vmodule that returned
    verdict,     \* what GlogHandler did with a goroutine's record
    lost         \* records every sink refused

vars == <<handler, glog, lock, pc, rec, recs, drain, sinks, mu, stream, exited, calls, changes, seen, flagged,
          verdict, lost>>
filter == <<glog, lock, flagged>>
output == <<recs, drain, sinks, mu, stream, lost>>

LvlCrit == 0
LvlInfo == 3
NoRecord == [id |-> 0, by |-> "", site |-> "", lvl |-> 0, crit |-> FALSE]

(* Vmodule skips the rules without a level: those it keeps, by position.   *)
(* Patterns are the sites they match, and the first that matches counts.   *)
Rules(ruleset) == [i \in {j \in DOMAIN ruleset : ruleset[j].level > 0} |-> ruleset[i]]
Evaluate(patterns, site) ==
    LET hits == {i \in DOMAIN patterns : site \in patterns[i].sites}
        first == {i \in hits : \A j \in hits : i <= j}
    IN IF first = {} THEN 0 ELSE patterns[CHOOSE i \in first : TRUE].level

(* The handler as main sets it up, with a first Vmodule or none *)
Init ==
    /\ handler = "glog"
    /\ \E ruleset \in RuleSets :
           glog = [level |-> 0, override |-> Cardinality(DOMAIN Rules(ruleset)), backtrace |-> FALSE,
                   patterns |-> Rules(ruleset), siteCache |-> [s \in {} |-> 0], location |-> ""]
    /\ lock = "" /\ mu = "" /\ exited = FALSE /\ calls = 0 /\ changes = 0
    /\ pc = [g \in Goroutines |-> "idle"] /\ rec = [g \in Goroutines |-> NoRecord]
    /\ recs = <<>> /\ drain = [rec |-> NoRecord, next |-> 0]
    /\ sinks = [i \in 1 .. Sinks |-> <<>>] /\ stream = <<>> /\ lost = {}
    /\ seen = [g \in Goroutines |-> [levels |-> {}, patterns |-> {}, locations |-> {}]]
    /\ flagged = glog.patterns /\ verdict = [g \in Goroutines |-> ""]

-----------------------------------------------------------------------------
(* The configuration *)

Change == ~ exited /\ changes < MaxChanges /\ changes' = changes + 1
Watching ==
    [g \in Goroutines |->
        IF pc[g] = "idle" THEN seen[g]
        ELSE [levels |-> seen[g].levels \cup {glog'.level}, patterns |-> seen[g].patterns \cup {glog'.patterns},
              locations |-> seen[g].locations \cup {glog'.location}]]

Verbosity(level) ==
    /\ Change
    /\ glog' = [glog EXCEPT !.level = level]
    /\ seen' = Watching
    /\ UNCHANGED <<handler, lock, pc, rec, recs, drain, sinks, mu, stream, exited, calls, flagged, verdict, lost>>

(* A mutant leaves the cache as it was *)
SwapPatternsOnly(ruleset) == [glog EXCEPT !.patterns = Rules(ruleset)]
SwapPatterns(ruleset) == [glog EXCEPT !.patterns = Rules(ruleset), !.siteCache = [s \in {} |-> 0]]

(* Vmodule, in two steps: the flag is read without the lock *)
Vmodule(ruleset) ==
    /\ Change /\ lock = ""
    /\ lock' = "vmodule"
    /\ glog' = SwapPatterns(ruleset)
    /\ seen' = Watching
    /\ UNCHANGED <<handler, pc, rec, recs, drain, sinks, mu, stream, exited, calls, flagged, verdict, lost>>

VmoduleFlag ==
    /\ ~ exited /\ lock = "vmodule"
    /\ lock' = ""
    /\ glog' = [glog EXCEPT !.override = Cardinality(DOMAIN glog.patterns)]
    /\ flagged' = glog.patterns
    /\ UNCHANGED <<handler, pc, rec, recs, drain, sinks, mu, stream, exited, calls, changes, seen, verdict, lost>>

BacktraceAt(location) ==
    /\ Change /\ lock = ""
    /\ lock' = "backtrace"
    /\ glog' = [glog EXCEPT !.location = location]
    /\ seen' = Watching
    /\ UNCHANGED <<handler, pc, rec, recs, drain, sinks, mu, stream, exited, calls, flagged, verdict, lost>>

BacktraceFlag ==
    /\ ~ exited /\ lock = "backtrace"
    /\ lock' = ""
    /\ glog' = [glog EXCEPT !.backtrace = TRUE]
    /\ UNCHANGED <<handler, pc, rec, recs, drain, sinks, mu, stream, exited, calls, changes, seen, flagged, verdict, lost>>

(* SetHandler of the root logger *)
SetHandler(h) ==
    /\ Change /\ handler # h
    /\ handler' = h
    /\ UNCHANGED <<filter, pc, rec, output, exited, calls, seen, verdict>>

-----------------------------------------------------------------------------
(* GlogHandler.Log of goroutine g *)

Goto(g, place) == pc' = [pc EXCEPT ![g] = place]
At(g, place) == ~ exited /\ pc[g] = place

(* The call returns to the logger, which ends the process after a Crit *)
Return(g) == Goto(g, "idle") /\ exited' = rec[g].crit

(* logger.write: the record, for the handler that is the root's now *)
Write(g, call) ==
    /\ At(g, "idle") /\ call.by = g /\ calls < MaxCalls
    /\ calls' = calls + 1
    /\ rec' = [rec EXCEPT ![g] = [id |-> calls + 1, by |-> g, site |-> call.site, lvl |-> call.lvl,
                                  crit |-> call.lvl = LvlCrit]]
    /\ verdict' = [verdict EXCEPT ![g] = ""]
    /\ seen' = [seen EXCEPT ![g] = [levels |-> {glog.level}, patterns |-> {glog.patterns, flagged},
                                    locations |-> {glog.location}]]
    /\ IF handler = "glog" THEN Goto(g, "backtrace") /\ UNCHANGED exited
       ELSE Goto(g, "idle") /\ exited' = (call.lvl = LvlCrit)
    /\ UNCHANGED <<handler, filter, output, changes>>

Backtrace(g) ==
    /\ At(g, "backtrace")
    /\ Goto(g, IF glog.backtrace THEN "match" ELSE "level")
    /\ UNCHANGED <<handler, filter, rec, output, exited, calls, changes, seen, verdict>>

Raised(r) == IF glog.location = r.site THEN [r EXCEPT !.lvl = LvlInfo] ELSE r

Match(g) ==
    /\ At(g, "match") /\ lock = ""
    /\ rec' = [rec EXCEPT ![g] = Raised(@)]
    /\ Goto(g, "level")
    /\ UNCHANGED <<handler, filter, output, exited, calls, changes, seen, verdict>>

Decide(g, emit) ==
    /\ verdict' = [verdict EXCEPT ![g] = IF emit THEN "emit" ELSE "drop"]
    /\ IF emit THEN Goto(g, "send") /\ UNCHANGED exited ELSE Return(g)

Level(g) ==
    /\ At(g, "level")
    /\ IF glog.level >= rec[g].lvl THEN Decide(g, TRUE) ELSE Goto(g, "override") /\ UNCHANGED <<verdict, exited>>
    /\ UNCHANGED <<handler, filter, rec, output, calls, changes, seen>>

Override(g) ==
    /\ At(g, "override")
    /\ IF glog.override = 0 THEN Decide(g, FALSE) ELSE Goto(g, "cache") /\ UNCHANGED <<verdict, exited>>
    /\ UNCHANGED <<handler, filter, rec, output, calls, changes, seen>>

Allows(lvl, r) == lvl >= r.lvl

Cache(g) ==
    /\ At(g, "cache") /\ lock = ""
    /\ IF rec[g].site \in DOMAIN glog.siteCache
       THEN Decide(g, Allows(glog.siteCache[rec[g].site], rec[g]))
       ELSE Goto(g, "compute") /\ UNCHANGED <<verdict, exited>>
    /\ UNCHANGED <<handler, filter, rec, output, calls, changes, seen>>

Compute(g) ==
    /\ At(g, "compute") /\ lock = ""
    /\ LET site == rec[g].site
           lvl == Evaluate(glog.patterns, site)
       IN /\ glog' = [glog EXCEPT !.siteCache = [s \in DOMAIN @ \cup {site} |-> IF s = site THEN lvl ELSE @[s]]]
          /\ Decide(g, Allows(lvl, rec[g]))
    /\ UNCHANGED <<handler, lock, flagged, rec, output, calls, changes, seen>>

-----------------------------------------------------------------------------
(* MultiHandler: the channel first, which blocks when it is full, then the *)
(* stream for the records the LvlFilterHandler lets through                *)

LvlFilter(r) == r.lvl <= StreamLvl
NextHandler(g) == IF LvlFilter(rec[g]) THEN Goto(g, "sync") /\ UNCHANGED exited ELSE Return(g)

Send(g) ==
    /\ At(g, "send") /\ Len(recs) < BufSize
    /\ recs' = Append(recs, rec[g])
    /\ NextHandler(g)
    /\ UNCHANGED <<handler, filter, rec, drain, sinks, mu, stream, calls, changes, seen, verdict, lost>>

Sync(g) == At(g, "sync") /\ mu = "" /\ mu' = g

StreamWrite(g) ==
    /\ Sync(g)
    /\ stream' = Append(stream, <<rec[g].id, "begin">>)
    /\ Goto(g, "stream")
    /\ UNCHANGED <<handler, filter, rec, recs, drain, sinks, exited, calls, changes, seen, verdict, lost>>

(* A mutant keeps the mutex *)
UnlockNever(g) == mu
Unlock(g) == ""

StreamEnd(g) ==
    /\ At(g, "stream")
    /\ stream' = Append(stream, <<rec[g].id, "end">>)
    /\ mu' = Unlock(g)
    /\ Return(g)
    /\ UNCHANGED <<handler, filter, rec, recs, drain, sinks, calls, changes, seen, verdict, lost>>

(* The goroutine of BufferedHandler, and FailoverHandler in it *)
Receive ==
    /\ ~ exited /\ drain.next = 0 /\ recs # <<>>
    /\ drain' = [rec |-> Head(recs), next |-> 1]
    /\ recs' = Tail(recs)
    /\ UNCHANGED <<handler, filter, pc, rec, sinks, mu, stream, exited, calls, changes, seen, verdict, lost>>

Resting == [rec |-> NoRecord, next |-> 0]

(* A mutant goes on to the next handler after one has written the record *)
AfterWriteNext(d) == IF d.next < Sinks THEN [d EXCEPT !.next = @ + 1] ELSE Resting
AfterWrite(d) == Resting

(* The next handler, or with the last one the next record *)
AfterFailure(d) == IF d.next < Sinks THEN [d EXCEPT !.next = @ + 1] ELSE Resting

SinkWrites ==
    /\ ~ exited /\ drain.next \in 1 .. Sinks
    /\ sinks' = [sinks EXCEPT ![drain.next] = Append(@, drain.rec)]
    /\ drain' = AfterWrite(drain)
    /\ UNCHANGED <<handler, filter, pc, rec, recs, mu, stream, exited, calls, changes, seen, verdict, lost>>

SinkFails ==
    /\ ~ exited /\ drain.next \in 1 .. Sinks
    /\ drain' = AfterFailure(drain)
    /\ lost' = IF drain.next = Sinks THEN lost \cup {drain.rec} ELSE lost
    /\ UNCHANGED <<handler, filter, pc, rec, recs, sinks, mu, stream, exited, calls, changes, seen, verdict>>

-----------------------------------------------------------------------------
Configure ==
    \/ \E level \in Verbosities : Verbosity(level)
    \/ \E ruleset \in RuleSets : Vmodule(ruleset)
    \/ \E location \in Locations : BacktraceAt(location)
    \/ \E h \in {"glog", "discard"} : SetHandler(h)

(* What a goroutine, the configuring one or the BufferedHandler's does on  *)
(* its own; the scheduler runs each of them                                *)
Step(g) ==
    \/ Backtrace(g) \/ Match(g) \/ Level(g) \/ Override(g) \/ Cache(g) \/ Compute(g)
    \/ Send(g) \/ StreamWrite(g) \/ StreamEnd(g)
Release == VmoduleFlag \/ BacktraceFlag
Drain == Receive \/ SinkWrites \/ SinkFails

Next ==
    \/ Configure \/ Release \/ Drain
    \/ \E g \in Goroutines : Step(g) \/ \E call \in Calls : Write(g, call)

-----------------------------------------------------------------------------
(* GlogHandler: a cached level is what the patterns in force say of the    *)
(* site, although it was computed after the lock was given up and taken    *)
(* again and Vmodule may have come between.                                *)
CacheCurrent == \A s \in DOMAIN glog.siteCache : glog.siteCache[s] = Evaluate(glog.patterns, s)

(* GlogHandler.Log: "emitting it if either allow it through". A record is  *)
(* emitted because of a level or of patterns in force at some time during  *)
(* the call, and dropped only if there were a level and patterns in force  *)
(* that both drop it; with no change during the call it is exact.          *)
VerdictJustified ==
    \A g \in Goroutines :
        LET r == rec[g]
        IN /\ verdict[g] = "emit" => \/ \E l \in seen[g].levels : l >= r.lvl
                                     \/ \E p \in seen[g].patterns : Evaluate(p, r.site) >= r.lvl
           /\ verdict[g] = "drop" => /\ \E l \in seen[g].levels : l < r.lvl
                                     /\ \E p \in seen[g].patterns : Evaluate(p, r.site) < r.lvl

(* SyncHandler: records on the stream are whole, no two are mixed.         *)
StreamWhole ==
    \A i \in DOMAIN stream :
        stream[i][2] = "end" => i > 1 /\ stream[i - 1] = <<stream[i][1], "begin">>

(* BufferedHandler and FailoverHandler: a record that was accepted is in   *)
(* one place, the channel, the goroutine, one sink or with the refused     *)
(* ones; and a sink has the records of a goroutine in their order.         *)
Held == {r \in {drain.rec} : r # NoRecord}
Places == <<ToSet(recs), Held, lost>> \o [i \in 1 .. Sinks |-> ToSet(sinks[i])]
OnePlace ==
    /\ \A i, j \in DOMAIN Places : i # j => Places[i] \cap Places[j] = {}
    /\ \A i \in 1 .. Sinks : \A m, n \in DOMAIN sinks[i] :
           m < n /\ sinks[i][m].by = sinks[i][n].by => sinks[i][m].id < sinks[i][n].id
    /\ \A g \in Goroutines : pc[g] = "idle" /\ verdict[g] = "emit" => \E i \in DOMAIN Places : rec[g] \in Places[i]

(* logger.Crit: when the process has ended by a Crit that went to the      *)
(* GlogHandler, its record is on the stream, the buffered ones may be lost;*)
(* but for a record at the location of BacktraceAt, whose level it lowers. *)
CritWritten ==
    \A g \in Goroutines :
        exited /\ pc[g] = "idle" /\ rec[g].crit /\ verdict[g] # "" /\ rec[g].site \notin seen[g].locations
        => \E i \in DOMAIN stream : stream[i] = <<rec[g].id, "end">>

(* GlogHandler.Log: the site cache follows Vmodule, and a record is let    *)
(* through or dropped by a configuration in force during its call.         *)
LogsVerdicts == CacheCurrent /\ VerdictJustified

(* BufferedHandler, FailoverHandler, SyncHandler and Crit: no record is    *)
(* lost, doubled, overtaken or mixed with another, and that of a Crit is   *)
(* out before the process ends.                                            *)
LogsRecords == OnePlace /\ StreamWhole /\ CritWritten
=============================================================================
