-------------------------- MODULE LogDispatchProofs --------------------------
(***************************************************************************)
(* Proofs about LogDispatch, for any goroutines, log calls, configurations *)
(* and bounds: the site cache is current, verdicts are justified, records  *)
(* are kept once and in order, lines are whole, and Crit is written.       *)
(***************************************************************************)
EXTENDS LogDispatch, FiniteSetTheorems, SequenceTheorems, TLAPS

Spec == Init /\ [][Next]_vars

Sites == {call.site : call \in Calls}
Records == [id : Nat, by : Goroutines, site : Sites, lvl : Nat, crit : BOOLEAN]

Filtering == {"backtrace", "match", "level", "override", "cache", "compute"}
Emitting == {"send", "sync", "stream"}
Positions == {"idle"} \cup Filtering \cup Emitting

Types ==
    /\ DOMAIN glog = {"level", "override", "backtrace", "patterns", "siteCache", "location"}
    /\ lock \in {"", "vmodule", "backtrace"}
    /\ pc \in [Goroutines -> Positions]
    /\ rec \in [Goroutines -> Records \cup {NoRecord}]
    /\ \A g \in Goroutines : rec[g] # NoRecord => rec[g].by = g /\ rec[g].id <= calls
    /\ \A g \in Goroutines : pc[g] # "idle" => rec[g] # NoRecord
    /\ verdict \in [Goroutines -> {"", "emit", "drop"}]
    /\ DOMAIN seen = Goroutines
    /\ calls \in Nat

\* The filters: level, override and patterns are arguments of Verbosity and
\* Vmodule, and the flag is the number of the patterns it was set with.
Filters ==
    /\ glog.level \in Nat
    /\ \E ruleset \in RuleSets : glog.patterns = Rules(ruleset)
    /\ \E ruleset \in RuleSets : flagged = Rules(ruleset)
    /\ glog.override = Cardinality(DOMAIN flagged)
    /\ lock # "vmodule" => flagged = glog.patterns

\* What is in force is among what was in force during the call.
Watched ==
    \A g \in Goroutines : pc[g] # "idle" =>
        /\ glog.level \in seen[g].levels
        /\ glog.patterns \in seen[g].patterns
        /\ flagged \in seen[g].patterns
        /\ glog.location \in seen[g].locations

\* What a goroutine knows of its record at each place of Log.
Decided(g) ==
    /\ pc[g] \in {"override", "cache", "compute"} =>
          rec[g].lvl > 0 /\ \E l \in seen[g].levels : l < rec[g].lvl
    /\ pc[g] \in Filtering => verdict[g] = ""
    /\ pc[g] \in Emitting => verdict[g] = "emit"
    /\ verdict[g] = "emit" => \/ \E l \in seen[g].levels : l >= rec[g].lvl
                              \/ \E p \in seen[g].patterns : Evaluate(p, rec[g].site) >= rec[g].lvl
    /\ verdict[g] = "drop" =>
          /\ rec[g].lvl > 0
          /\ \E l \in seen[g].levels : l < rec[g].lvl
          /\ \E p \in seen[g].patterns : Evaluate(p, rec[g].site) < rec[g].lvl
    /\ rec[g].crit /\ rec[g].lvl # LvlCrit => rec[g].site \in seen[g].locations

Verdicts == \A g \in Goroutines : Decided(g)

\* SyncHandler's mutex: who holds it has begun a line, and nothing follows it.
Lines ==
    /\ mu \in Goroutines \cup {""}
    /\ \A g \in Goroutines : pc[g] = "stream" <=> mu = g
    /\ stream \in Seq(Nat \X {"begin", "end"})
    /\ StreamWhole
    /\ mu # "" => Len(stream) > 0 /\ stream[Len(stream)] = <<rec[mu].id, "begin">>
    /\ \A g \in Goroutines :
          pc[g] = "idle" /\ verdict[g] = "emit" /\ LvlFilter(rec[g])
             => \E i \in DOMAIN stream : stream[i] = <<rec[g].id, "end">>

\* The channel, its goroutine and the sinks: of the records of one goroutine
\* those further on are older, and no record is with two sinks.
Older(r, s) == r.by = s.by => r.id < s.id

Queued(r) == \E n \in 1..Len(recs) : r = recs[n]
Delivering(r) == drain.next # 0 /\ r = drain.rec
Delivered(r) == r \in lost \/ \E i \in 1..Sinks : \E n \in 1..Len(sinks[i]) : r = sinks[i][n]

Order ==
    /\ recs \in Seq(Records)
    /\ drain \in [rec : Records \cup {NoRecord}, next : Nat]
    /\ drain.next = 0 <=> drain.rec = NoRecord
    /\ sinks \in [1..Sinks -> Seq(Records)]
    /\ lost \subseteq Records
    /\ \A m, n \in 1..Len(recs) : m < n => Older(recs[m], recs[n])
    /\ \A i \in 1..Sinks : \A m, n \in 1..Len(sinks[i]) : m < n => Older(sinks[i][m], sinks[i][n])
    /\ \A r, s \in Records : Delivering(r) /\ Queued(s) => Older(r, s)
    /\ \A r, s \in Records : Delivered(r) /\ (Delivering(s) \/ Queued(s)) => Older(r, s)
    /\ \A i \in 1..Sinks : \A m \in 1..Len(sinks[i]) :
          /\ sinks[i][m] \notin lost
          /\ \A j \in 1..Sinks : i # j =>
                \A n \in 1..Len(sinks[j]) : sinks[i][m] # sinks[j][n]

\* A record that was accepted is in one of these places, and it is the latest
\* one of its goroutine there.
InPlace(r) == Queued(r) \/ Delivering(r) \/ Delivered(r)

Accepted(g) == verdict[g] = "emit" /\ pc[g] # "send"

Kept ==
    /\ \A r \in Records : InPlace(r) =>
          /\ rec[r.by] # NoRecord /\ r.id <= rec[r.by].id
          /\ ~Accepted(r.by) => r.id < rec[r.by].id
    /\ \A g \in Goroutines : Accepted(g) => InPlace(rec[g])

Inv ==
    /\ Types
    /\ Filters
    /\ CacheCurrent
    /\ Watched
    /\ Verdicts
    /\ Lines
    /\ Order
    /\ Kept

-----------------------------------------------------------------------------
\* The level that patterns give a site is a number, and 0 without patterns.
LEMMA Evaluation ==
    ASSUME Arguments, NEW ruleset \in RuleSets, NEW p, p = Rules(ruleset), NEW site
    PROVE  /\ Evaluate(p, site) \in Nat
           /\ Cardinality(DOMAIN p) = 0 => Evaluate(p, site) = 0
           /\ Cardinality(DOMAIN p) \in Nat
<1>1. PICK n \in Nat : DOMAIN ruleset = 1..n
  BY DEF Arguments
<1>2. DOMAIN p \subseteq 1..n /\ \A i \in DOMAIN p : p[i].level \in Nat
  BY <1>1 DEF Rules, Arguments
<1>3. IsFiniteSet(DOMAIN p) /\ Cardinality(DOMAIN p) \in Nat
  <2>1. IsFiniteSet(1..n)
    BY FS_Interval
  <2>2. IsFiniteSet(DOMAIN p)
    BY <2>1, <1>2, FS_Subset
  <2>. QED
    BY <2>2, FS_CardinalityType
<1>4. PICK hits : hits = {i \in DOMAIN p : site \in p[i].sites}
  OBVIOUS
<1>5. PICK first : first = {i \in hits : \A j \in hits : i <= j}
  OBVIOUS
<1>6. Evaluate(p, site) = IF first = {} THEN 0 ELSE p[CHOOSE i \in first : TRUE].level
  BY <1>4, <1>5 DEF Evaluate
<1>7. first \subseteq DOMAIN p
  BY <1>4, <1>5
<1>8. Evaluate(p, site) \in Nat
  <2>1. CASE first = {}
    BY <2>1, <1>6
  <2>2. CASE first # {}
    <3>1. (CHOOSE i \in first : TRUE) \in first
      BY <2>2
    <3>. QED
      BY <2>2, <3>1, <1>2, <1>6, <1>7
  <2>. QED
    BY <2>1, <2>2
<1>9. Cardinality(DOMAIN p) = 0 => Evaluate(p, site) = 0
  <2>1. Cardinality(DOMAIN p) = 0 => DOMAIN p = {}
    BY <1>3, FS_EmptySet
  <2>. QED
    BY <2>1, <1>6, <1>7
<1>. QED
  BY <1>3, <1>8, <1>9

\* The program starts with no record anywhere.
LEMMA InitInv == ASSUME Arguments, Init PROVE Inv
<1>1. PICK ruleset \in RuleSets :
         glog = [level |-> 0, override |-> Cardinality(DOMAIN Rules(ruleset)), backtrace |-> FALSE,
                 patterns |-> Rules(ruleset), siteCache |-> [s \in {} |-> 0], location |-> ""]
  BY DEF Init
<1>2. Types
  BY <1>1 DEF Init, Types, Positions
<1>3. Filters
  BY <1>1 DEF Init, Filters
<1>4. CacheCurrent
  BY <1>1 DEF CacheCurrent
<1>5. Watched
  BY DEF Init, Watched
<1>6. Verdicts
  BY DEF Init, Verdicts, Decided, Filtering, Emitting, NoRecord
<1>7. Lines
  <2>1. stream = << >> /\ Len(stream) = 0
    BY DEF Init
  <2>2. stream \in Seq(Nat \X {"begin", "end"})
    BY <2>1, EmptySeq
  <2>3. DOMAIN stream = {}
    BY <2>1, <2>2, LenProperties
  <2>4. StreamWhole
    BY <2>3 DEF StreamWhole
  <2>. QED
    BY <2>1, <2>2, <2>4 DEF Init, Lines, Arguments
<1>8. /\ recs = << >> /\ Len(recs) = 0 /\ lost = {}
      /\ drain.next = 0 /\ drain.rec = NoRecord /\ drain = [rec |-> NoRecord, next |-> 0]
      /\ sinks = [i \in 1..Sinks |-> << >>] /\ \A i \in 1..Sinks : Len(sinks[i]) = 0
  BY DEF Init
<1>10. Order
  <2>1. recs \in Seq(Records)
    BY <1>8, EmptySeq
  <2>2. sinks \in [1..Sinks -> Seq(Records)]
    BY <1>8, EmptySeq
  <2>3. drain \in [rec : Records \cup {NoRecord}, next : Nat]
    BY <1>8
  <2>. QED
    BY <1>8, <2>1, <2>2, <2>3 DEF Order, Delivering, Queued, Delivered
<1>9. Kept
  <2>1. \A r : ~InPlace(r)
    BY <1>8 DEF InPlace, Queued, Delivering, Delivered
  <2>2. \A g \in Goroutines : ~Accepted(g)
    BY DEF Init, Accepted
  <2>. QED
    BY <2>1, <2>2 DEF Kept
<1>. QED
  BY <1>2, <1>3, <1>4, <1>5, <1>6, <1>7, <1>9, <1>10 DEF Inv

\* No call writes the record of a goroutine that has not called yet.
LEMMA NoRecordIs == ASSUME Arguments PROVE NoRecord \notin Records
<1>1. NoRecord.by = "" /\ \A r \in Records : r.by \in Goroutines
  BY DEF NoRecord, Records
<1>. QED
  BY <1>1 DEF Arguments

\* The fields keep their types.
LEMMA TypesStep ==
    ASSUME Arguments, Types, Next
    PROVE  Types'
<1>1. ASSUME NEW level \in Verbosities, Verbosity(level) PROVE Types'
  BY <1>1 DEF Verbosity, Types, Positions, Filtering, Emitting, Change, Watching
<1>2. ASSUME NEW ruleset \in RuleSets, Vmodule(ruleset) PROVE Types'
  BY <1>2 DEF Vmodule, Types, Positions, Filtering, Emitting, Change, Watching, SwapPatterns
<1>3. ASSUME NEW location \in Locations, BacktraceAt(location) PROVE Types'
  BY <1>3 DEF BacktraceAt, Types, Positions, Filtering, Emitting, Change, Watching
<1>4. ASSUME NEW h \in {"glog", "discard"}, SetHandler(h) PROVE Types'
  BY <1>4 DEF SetHandler, Types, Positions, Filtering, Emitting, Change, filter
<1>5. ASSUME VmoduleFlag PROVE Types'
  BY <1>5 DEF VmoduleFlag, Types, Positions, Filtering, Emitting
<1>6. ASSUME BacktraceFlag PROVE Types'
  BY <1>6 DEF BacktraceFlag, Types, Positions, Filtering, Emitting
<1>7. ASSUME Receive PROVE Types'
  BY <1>7 DEF Receive, Types, Positions, Filtering, Emitting, filter
<1>8. ASSUME SinkWrites PROVE Types'
  BY <1>8 DEF SinkWrites, Types, Positions, Filtering, Emitting, filter
<1>9. ASSUME SinkFails PROVE Types'
  BY <1>9 DEF SinkFails, Types, Positions, Filtering, Emitting, filter
<1>10. ASSUME NEW g \in Goroutines, Backtrace(g) PROVE Types'
  BY <1>10 DEF Backtrace, Types, Positions, Filtering, Emitting, filter, At, Goto
<1>11. ASSUME NEW g \in Goroutines, Match(g) PROVE Types'
  <2>1. PICK r : r = Raised(rec[g])
    OBVIOUS
  <2>2. rec[g] \in Records /\ rec[g].by = g /\ rec[g].id <= calls
    BY <1>11 DEF Match, At, Types
  <2>3. r \in Records /\ r.by = g /\ r.id <= calls
    BY <2>1, <2>2 DEF Raised, Records, LvlInfo
  <2>4. rec' = [rec EXCEPT ![g] = r] /\ pc' = [pc EXCEPT ![g] = "level"]
    BY <1>11, <2>1 DEF Match, Goto
  <2>5. rec' \in [Goroutines -> Records \cup {NoRecord}] /\ pc' \in [Goroutines -> Positions]
    BY <2>3, <2>4 DEF Types, Positions, Filtering
  <2>6. UNCHANGED <<glog, lock, verdict, seen, calls>>
    BY <1>11 DEF Match, filter
  <2>. QED
    BY <2>3, <2>4, <2>5, <2>6, NoRecordIs DEF Types
<1>12. ASSUME NEW g \in Goroutines, Level(g) PROVE Types'
  BY <1>12, ZenonT(90) DEF Level, Types, Positions, Filtering, Emitting, filter, Decide, Return, Goto, At
<1>13. ASSUME NEW g \in Goroutines, Override(g) PROVE Types'
  BY <1>13, ZenonT(90) DEF Override, Types, Positions, Filtering, Emitting, filter, Decide, Return, Goto, At
<1>14. ASSUME NEW g \in Goroutines, Cache(g) PROVE Types'
  <2>1. PICK p : pc' = [pc EXCEPT ![g] = p] /\ p \in {"compute", "send", "idle"} /\ pc[g] # "idle"
    BY <1>14 DEF Cache, At, Decide, Return, Goto
  <2>2. verdict' \in [Goroutines -> {"", "emit", "drop"}]
    BY <1>14 DEF Cache, Decide, Types
  <2>3. pc' \in [Goroutines -> Positions] /\ \A h \in Goroutines : pc'[h] # "idle" => rec[h] # NoRecord
    BY <2>1 DEF Types, Positions, Filtering, Emitting
  <2>4. UNCHANGED <<glog, lock, rec, seen, calls>>
    BY <1>14 DEF Cache, filter
  <2>. QED
    BY <2>2, <2>3, <2>4 DEF Types
<1>15. ASSUME NEW g \in Goroutines, Compute(g) PROVE Types'
  BY <1>15, ZenonT(90) DEF Compute, Types, Positions, Filtering, Emitting, Decide, Return, Goto, At
<1>16. ASSUME NEW g \in Goroutines, Send(g) PROVE Types'
  BY <1>16, ZenonT(90) DEF Send, Types, Positions, Filtering, Emitting, filter, NextHandler, Return, Goto, At
<1>17. ASSUME NEW g \in Goroutines, StreamWrite(g) PROVE Types'
  BY <1>17 DEF StreamWrite, Types, Positions, Filtering, Emitting, filter, Sync, Goto, At
<1>18. ASSUME NEW g \in Goroutines, StreamEnd(g) PROVE Types'
  BY <1>18 DEF StreamEnd, Types, Positions, Filtering, Emitting, filter, Return, Goto, At
<1>19. ASSUME NEW g \in Goroutines, NEW call \in Calls, Write(g, call) PROVE Types'
  <2>1. PICK c \in BOOLEAN : c = (call.lvl = LvlCrit)
    OBVIOUS
  <2>2. PICK r : r = [id |-> calls + 1, by |-> g, site |-> call.site, lvl |-> call.lvl, crit |-> c]
    OBVIOUS
  <2>3. call.site \in Sites
    BY DEF Sites
  <2>4. calls \in Nat /\ call.lvl \in Nat
    <3>1. calls \in Nat
      BY DEF Types
    <3>2. call.lvl \in Nat
      BY DEF Arguments
    <3>. QED
      BY <3>1, <3>2
  <2>5. r \in Records /\ r.by = g /\ r.id = calls + 1
    BY <2>2, <2>3, <2>4 DEF Records
  <2>6. rec' = [rec EXCEPT ![g] = r] /\ calls' = calls + 1
    BY <1>19, <2>1, <2>2 DEF Write
  <2>7. PICK p : pc' = [pc EXCEPT ![g] = p] /\ p \in {"backtrace", "idle"}
    BY <1>19 DEF Write, Goto
  <2>8. \A h \in Goroutines : rec[h] # NoRecord => rec[h].id \in Nat
    BY DEF Types, Records
  <2>9. rec' \in [Goroutines -> Records \cup {NoRecord}] /\ pc' \in [Goroutines -> Positions]
    BY <2>5, <2>6, <2>7 DEF Types, Positions, Filtering
  <2>10. verdict' \in [Goroutines -> {"", "emit", "drop"}] /\ DOMAIN seen' = Goroutines
    BY <1>19 DEF Write, Types
  <2>11. UNCHANGED <<glog, lock>>
    BY <1>19 DEF Write, filter
  <2>12. \A h \in Goroutines : rec'[h] # NoRecord => rec'[h].by = h /\ rec'[h].id <= calls'
    <3> TAKE h \in Goroutines
    <3>1. rec'[g] = r /\ h # g => rec'[h] = rec[h]
      BY <2>6 DEF Types
    <3>2. rec[h] # NoRecord => rec[h].by = h /\ rec[h].id <= calls
      BY DEF Types
    <3>. QED
      BY <3>1, <3>2, <2>5, <2>6, <2>8, <2>4
  <2>13. r # NoRecord
    BY <2>5, NoRecordIs
  <2>14. \A h \in Goroutines : pc'[h] # "idle" => rec'[h] # NoRecord
    BY <2>6, <2>7, <2>13 DEF Types
  <2>15. calls' \in Nat
    BY <2>6, <2>4
  <2>. QED
    BY <2>9, <2>10, <2>11, <2>12, <2>14, <2>15 DEF Types
<1>. QED
  BY <1>1, <1>2, <1>3, <1>4, <1>5, <1>6, <1>7, <1>8, <1>9, <1>10, <1>11, <1>12, <1>13, <1>14, <1>15, <1>16, <1>17, <1>18, <1>19
  DEF Next, Configure, Release, Drain, Step

-----------------------------------------------------------------------------
\* Only the configuring goroutine and a goroutine that computes the level of a
\* site change the filters.
LEMMA FilterSteps ==
    ASSUME Next
    PROVE  \/ UNCHANGED filter
           \/ \E level \in Verbosities : Verbosity(level)
           \/ \E ruleset \in RuleSets : Vmodule(ruleset)
           \/ \E location \in Locations : BacktraceAt(location)
           \/ VmoduleFlag
           \/ BacktraceFlag
           \/ \E g \in Goroutines : Compute(g)
<1>1. ASSUME NEW h \in {"glog", "discard"}, SetHandler(h) PROVE UNCHANGED filter
  BY <1>1 DEF SetHandler
<1>2. ASSUME Drain PROVE UNCHANGED filter
  BY <1>2 DEF Drain, Receive, SinkWrites, SinkFails
<1>3. ASSUME NEW g \in Goroutines, Step(g), ~Compute(g) PROVE UNCHANGED filter
  BY <1>3 DEF Step, Backtrace, Match, Level, Override, Cache, Send, StreamWrite, StreamEnd
<1>4. ASSUME NEW g \in Goroutines, NEW call \in Calls, Write(g, call) PROVE UNCHANGED filter
  BY <1>4 DEF Write
<1>. QED
  BY <1>1, <1>2, <1>3, <1>4 DEF Next, Configure, Release

\* Verbosity sets the level and nothing else.
LEMMA VerbosityFields ==
    ASSUME Types, NEW level, Verbosity(level)
    PROVE  /\ glog'.level = level
           /\ glog'.override = glog.override /\ glog'.patterns = glog.patterns
           /\ glog'.siteCache = glog.siteCache /\ glog'.location = glog.location
           /\ UNCHANGED <<lock, flagged, pc, rec, verdict>> /\ seen' = Watching
  BY DEF Types, Verbosity

\* Vmodule replaces the patterns and empties the cache, before it sets the flag.
LEMMA VmoduleFields ==
    ASSUME Types, NEW ruleset, Vmodule(ruleset)
    PROVE  /\ glog'.patterns = Rules(ruleset) /\ DOMAIN glog'.siteCache = {}
           /\ glog'.override = glog.override /\ glog'.level = glog.level
           /\ glog'.location = glog.location
           /\ lock = "" /\ lock' = "vmodule" /\ UNCHANGED <<flagged, pc, rec, verdict>>
           /\ seen' = Watching
  BY DEF Types, Vmodule, SwapPatterns

\* BacktraceAt sets the location.
LEMMA BacktraceAtFields ==
    ASSUME Types, NEW location, BacktraceAt(location)
    PROVE  /\ glog'.location = location
           /\ glog'.override = glog.override /\ glog'.patterns = glog.patterns
           /\ glog'.siteCache = glog.siteCache /\ glog'.level = glog.level
           /\ lock = "" /\ lock' = "backtrace" /\ UNCHANGED <<flagged, pc, rec, verdict>>
           /\ seen' = Watching
  BY DEF Types, BacktraceAt

\* The flag of Vmodule is the number of the patterns in force.
LEMMA VmoduleFlagFields ==
    ASSUME Types, VmoduleFlag
    PROVE  /\ glog'.override = Cardinality(DOMAIN glog.patterns) /\ flagged' = glog.patterns
           /\ glog'.level = glog.level /\ glog'.patterns = glog.patterns
           /\ glog'.siteCache = glog.siteCache /\ glog'.location = glog.location
           /\ lock = "vmodule" /\ lock' = "" /\ UNCHANGED <<pc, rec, verdict, seen>>
  BY DEF Types, VmoduleFlag

\* The flag of BacktraceAt changes no pattern and no level.
LEMMA BacktraceFlagFields ==
    ASSUME Types, BacktraceFlag
    PROVE  /\ glog'.override = glog.override /\ glog'.patterns = glog.patterns
           /\ glog'.siteCache = glog.siteCache /\ glog'.level = glog.level
           /\ glog'.location = glog.location
           /\ lock = "backtrace" /\ lock' = "" /\ UNCHANGED <<flagged, pc, rec, verdict, seen>>
  BY DEF Types, BacktraceFlag

\* A level is computed from the patterns in force and stored for the site.
LEMMA ComputeFields ==
    ASSUME Types, NEW g, Compute(g)
    PROVE  /\ glog'.siteCache = [s \in DOMAIN glog.siteCache \cup {rec[g].site} |->
             IF s = rec[g].site THEN Evaluate(glog.patterns, rec[g].site)
             ELSE glog.siteCache[s]]
           /\ glog'.override = glog.override /\ glog'.patterns = glog.patterns
           /\ glog'.level = glog.level /\ glog'.location = glog.location
           /\ UNCHANGED <<lock, flagged, rec, seen>>
  BY DEF Types, Compute

\* The number of patterns and the patterns in force agree, but for the moment
\* between the two writes of Vmodule.
LEMMA FiltersStep ==
    ASSUME Arguments, Types, Filters, Next
    PROVE  Filters'
<1>1. CASE UNCHANGED filter
  BY <1>1 DEF Filters, filter
<1>2. ASSUME NEW level \in Verbosities, Verbosity(level) PROVE Filters'
  BY <1>2, VerbosityFields DEF Filters, Arguments
<1>3. ASSUME NEW ruleset \in RuleSets, Vmodule(ruleset) PROVE Filters'
  BY <1>3, VmoduleFields DEF Filters
<1>4. ASSUME NEW location \in Locations, BacktraceAt(location) PROVE Filters'
  BY <1>4, BacktraceAtFields DEF Filters
<1>5. CASE VmoduleFlag
  BY <1>5, VmoduleFlagFields DEF Filters
<1>6. CASE BacktraceFlag
  BY <1>6, BacktraceFlagFields DEF Filters
<1>7. ASSUME NEW g \in Goroutines, Compute(g) PROVE Filters'
  BY <1>7, ComputeFields DEF Filters
<1>. QED
  BY <1>1, <1>2, <1>3, <1>4, <1>5, <1>6, <1>7, FilterSteps

\* The cache is emptied with the patterns, and a level is computed from the
\* patterns in force at the time.
LEMMA CacheStep ==
    ASSUME Types, CacheCurrent, Next
    PROVE  CacheCurrent'
<1>1. CASE UNCHANGED filter
  BY <1>1 DEF CacheCurrent, filter
<1>2. ASSUME NEW level \in Verbosities, Verbosity(level) PROVE CacheCurrent'
  BY <1>2, VerbosityFields DEF CacheCurrent
<1>3. ASSUME NEW ruleset \in RuleSets, Vmodule(ruleset) PROVE CacheCurrent'
  BY <1>3, VmoduleFields DEF CacheCurrent
<1>4. ASSUME NEW location \in Locations, BacktraceAt(location) PROVE CacheCurrent'
  BY <1>4, BacktraceAtFields DEF CacheCurrent
<1>5. CASE VmoduleFlag
  BY <1>5, VmoduleFlagFields DEF CacheCurrent
<1>6. CASE BacktraceFlag
  BY <1>6, BacktraceFlagFields DEF CacheCurrent
<1>7. ASSUME NEW g \in Goroutines, Compute(g) PROVE CacheCurrent'
  BY <1>7, ComputeFields, ZenonT(90) DEF CacheCurrent
<1>. QED
  BY <1>1, <1>2, <1>3, <1>4, <1>5, <1>6, <1>7, FilterSteps

-----------------------------------------------------------------------------
\* Nothing that was in force during the call is forgotten.
Grown(g) ==
    /\ seen[g].levels \subseteq seen'[g].levels
    /\ seen[g].patterns \subseteq seen'[g].patterns
    /\ seen[g].locations \subseteq seen'[g].locations

\* A change of the configuration is noted for every call that is under way.
LEMMA WatchingAll ==
    ASSUME Types, seen' = Watching, NEW g \in Goroutines
    PROVE  /\ Grown(g)
           /\ pc[g] # "idle" =>
                 /\ glog'.level \in seen'[g].levels
                 /\ glog'.patterns \in seen'[g].patterns
                 /\ glog'.location \in seen'[g].locations
<1>1. pc[g] = "idle" => seen'[g] = seen[g]
  BY DEF Watching
<1>2. pc[g] # "idle" =>
         /\ seen'[g].levels = seen[g].levels \cup {glog'.level}
         /\ seen'[g].patterns = seen[g].patterns \cup {glog'.patterns}
         /\ seen'[g].locations = seen[g].locations \cup {glog'.location}
  BY DEF Watching
<1>. QED
  BY <1>1, <1>2 DEF Grown

\* A goroutine's call goes on by steps of its own only.
LEMMA LocalSteps ==
    ASSUME Types, Next, NEW g \in Goroutines
    PROVE  \/ \E call \in Calls : Write(g, call)
           \/ Step(g) /\ Grown(g) /\ UNCHANGED seen
           \/ Grown(g) /\ pc'[g] = pc[g] /\ rec'[g] = rec[g] /\ verdict'[g] = verdict[g]
<1>1. CASE UNCHANGED seen
  <2>1. Grown(g)
    BY <1>1 DEF Grown
  <2>2. ASSUME NEW h \in Goroutines, Step(h), h # g
        PROVE  pc'[g] = pc[g] /\ rec'[g] = rec[g] /\ verdict'[g] = verdict[g]
    BY <2>2 DEF Step, Types, Backtrace, Match, Level, Override, Cache, Compute, Send, StreamWrite,
                StreamEnd, NextHandler, Decide, Return, Goto
  <2>3. ASSUME NEW h \in Goroutines, NEW call \in Calls, Write(h, call), h # g
        PROVE  pc'[g] = pc[g] /\ rec'[g] = rec[g] /\ verdict'[g] = verdict[g]
    BY <2>3 DEF Types, Write, Goto
  <2>4. ASSUME Configure \/ Release \/ Drain
        PROVE  UNCHANGED <<pc, rec, verdict>>
    BY <2>4 DEF Configure, Release, Drain, Verbosity, Vmodule, VmoduleFlag, BacktraceAt,
                BacktraceFlag, SetHandler, Receive, SinkWrites, SinkFails
  <2>. QED
    BY <1>1, <2>1, <2>2, <2>3, <2>4 DEF Next
<1>2. ASSUME NEW h \in Goroutines, NEW call \in Calls, Write(h, call), h # g
      PROVE  Grown(g) /\ pc'[g] = pc[g] /\ rec'[g] = rec[g] /\ verdict'[g] = verdict[g]
  BY <1>2 DEF Types, Write, Goto, Grown
<1>3. ASSUME Configure
      PROVE  UNCHANGED <<pc, rec, verdict>> /\ (seen' = Watching \/ UNCHANGED seen)
  BY <1>3 DEF Configure, Verbosity, Vmodule, BacktraceAt, SetHandler
<1>4. ASSUME Release \/ Drain \/ \E h \in Goroutines : Step(h)
      PROVE  UNCHANGED seen
  BY <1>4 DEF Release, Drain, VmoduleFlag, BacktraceFlag, Receive, SinkWrites, SinkFails, Step,
              Backtrace, Match, Level, Override, Cache, Compute, Send, StreamWrite, StreamEnd
<1>. QED
  BY <1>1, <1>2, <1>3, <1>4, WatchingAll DEF Next

\* A step of a call finds the goroutine in Log.
LEMMA StepIsBusy == ASSUME NEW g, Step(g) PROVE pc[g] # "idle"
  BY DEF Step, Backtrace, Match, Level, Override, Cache, Compute, Send, StreamWrite, Sync, StreamEnd, At

\* A call begins with what is in force.
LEMMA WriteFields ==
    ASSUME Types, NEW g \in Goroutines, NEW call \in Calls, Write(g, call)
    PROVE  /\ seen'[g] = [levels |-> {glog.level}, patterns |-> {glog.patterns, flagged},
                          locations |-> {glog.location}]
           /\ rec'[g] = [id |-> calls + 1, by |-> g, site |-> call.site, lvl |-> call.lvl,
                         crit |-> call.lvl = LvlCrit]
           /\ verdict'[g] = "" /\ pc[g] = "idle" /\ pc'[g] \in {"idle", "backtrace"}
           /\ UNCHANGED filter
  BY ZenonT(90) DEF Types, Write, At, Goto

\* What is in force during a call is seen by it.
LEMMA WatchedStep ==
    ASSUME Types, Filters, Watched, Next
    PROVE  Watched'
<1> SUFFICES ASSUME NEW g \in Goroutines, pc'[g] # "idle"
             PROVE  /\ glog'.level \in seen'[g].levels
                    /\ glog'.patterns \in seen'[g].patterns
                    /\ flagged' \in seen'[g].patterns
                    /\ glog'.location \in seen'[g].locations
  BY DEF Watched
<1>1. CASE \E call \in Calls : Write(g, call)
  <2>1. PICK call \in Calls : Write(g, call)
    BY <1>1
  <2>2. /\ seen'[g] = [levels |-> {glog.level}, patterns |-> {glog.patterns, flagged},
                       locations |-> {glog.location}]
        /\ glog' = glog /\ flagged' = flagged
    BY <2>1, WriteFields DEF filter
  <2>. QED
    BY <2>2
<1>2. CASE ~\E call \in Calls : Write(g, call)
  <2>1. pc[g] # "idle" /\ Grown(g)
    BY <1>2, LocalSteps, StepIsBusy
  <2>2. /\ glog.level \in seen'[g].levels /\ glog.patterns \in seen'[g].patterns
        /\ flagged \in seen'[g].patterns /\ glog.location \in seen'[g].locations
    BY <2>1 DEF Watched, Grown
  <2>3. CASE UNCHANGED filter
    BY <2>2, <2>3 DEF filter
  <2>4. ASSUME NEW level \in Verbosities, Verbosity(level) PROVE seen' = Watching /\ flagged' = flagged
    BY <2>4, VerbosityFields
  <2>5. ASSUME NEW ruleset \in RuleSets, Vmodule(ruleset) PROVE seen' = Watching /\ flagged' = flagged
    BY <2>5, VmoduleFields
  <2>6. ASSUME NEW location \in Locations, BacktraceAt(location)
        PROVE  seen' = Watching /\ flagged' = flagged
    BY <2>6, BacktraceAtFields
  <2>7. CASE seen' = Watching /\ flagged' = flagged
    BY <2>1, <2>2, <2>7, WatchingAll
  <2>8. CASE VmoduleFlag
    BY <2>2, <2>8, VmoduleFlagFields
  <2>9. CASE BacktraceFlag
    BY <2>2, <2>9, BacktraceFlagFields
  <2>10. ASSUME NEW h \in Goroutines, Compute(h)
         PROVE  /\ glog'.level = glog.level /\ glog'.patterns = glog.patterns
                /\ flagged' = flagged /\ glog'.location = glog.location
    BY <2>10, ComputeFields
  <2>. QED
    BY <2>2, <2>3, <2>4, <2>5, <2>6, <2>7, <2>8, <2>9, <2>10, FilterSteps
<1>. QED
  BY <1>1, <1>2

-----------------------------------------------------------------------------
\* What a goroutine knows stays true while others change the configuration.
LEMMA DecidedKept ==
    ASSUME NEW g, Decided(g), Grown(g),
           pc'[g] = pc[g], rec'[g] = rec[g], verdict'[g] = verdict[g]
    PROVE  Decided(g)'
  BY DEF Decided, Grown

\* A call that begins knows nothing, and its record has the level of a Crit if
\* it is one.
LEMMA DecidedWrite ==
    ASSUME Arguments, Types, NEW g \in Goroutines, NEW call \in Calls, Write(g, call)
    PROVE  Decided(g)'
<1>1. PICK c \in BOOLEAN : c = (call.lvl = LvlCrit)
  OBVIOUS
<1>2. rec'[g] = [id |-> calls + 1, by |-> g, site |-> call.site, lvl |-> call.lvl, crit |-> c]
  BY <1>1, WriteFields
<1>3. verdict'[g] = "" /\ pc'[g] \in {"idle", "backtrace"}
  BY WriteFields
<1>4. rec'[g].crit = c /\ rec'[g].lvl = call.lvl
  BY <1>2
<1>. QED
  BY <1>1, <1>3, <1>4 DEF Decided, Filtering, Emitting

\* The steps that do not decide.
LEMMA DecidedMoves ==
    ASSUME Types, Watched, NEW g \in Goroutines, Decided(g),
           Backtrace(g) \/ Match(g) \/ Send(g) \/ StreamWrite(g) \/ StreamEnd(g)
    PROVE  Decided(g)'
<1>1. CASE Backtrace(g)
  BY <1>1 DEF Types, Decided, Filtering, Emitting, Backtrace, At, Goto
<1>2. CASE Match(g)
  <2>1. /\ pc[g] = "match" /\ pc'[g] = "level" /\ rec'[g] = Raised(rec[g])
        /\ UNCHANGED <<verdict, seen>>
    BY <1>2 DEF Match, Types, At, Goto
  <2>2. glog.location \in seen[g].locations
    BY <2>1 DEF Watched
  <2>3. rec[g] \in Records
    BY <2>1, ZenonT(90) DEF Types
  <2>4. /\ Raised(rec[g]).crit = rec[g].crit /\ Raised(rec[g]).site = rec[g].site
        /\ Raised(rec[g]).lvl = rec[g].lvl \/ glog.location = rec[g].site
    BY <2>3 DEF Raised, Records
  <2>. QED
    BY <2>1, <2>2, <2>4 DEF Decided, Filtering, Emitting
<1>3. CASE Send(g)
  BY <1>3, ZenonT(90) DEF Types, Decided, Filtering, Emitting, Send, NextHandler, Return, At, Goto
<1>4. CASE StreamWrite(g)
  BY <1>4 DEF Types, Decided, Filtering, Emitting, StreamWrite, Sync, At, Goto
<1>5. CASE StreamEnd(g)
  BY <1>5 DEF Types, Decided, Filtering, Emitting, StreamEnd, Return, At, Goto
<1>. QED
  BY <1>1, <1>2, <1>3, <1>4, <1>5

\* The steps that decide: by the level, by the flag, by a cached level or by one
\* that is computed.
LEMMA DecidedVerdict ==
    ASSUME Arguments, Types, Filters, CacheCurrent, Watched, NEW g \in Goroutines, Decided(g),
           Level(g) \/ Override(g) \/ Cache(g) \/ Compute(g)
    PROVE  Decided(g)'
<1>1. /\ pc[g] \in {"level", "override", "cache", "compute"} /\ verdict[g] = ""
      /\ UNCHANGED <<rec, seen>>
  BY DEF Level, Override, Cache, Compute, At, Decided, Filtering
<1>2. rec[g] \in Records /\ rec[g].lvl \in Nat
  BY <1>1, ZenonT(90) DEF Types, Records
<1>3. /\ glog.level \in seen[g].levels /\ glog.patterns \in seen[g].patterns
      /\ flagged \in seen[g].patterns
  BY <1>1 DEF Watched
<1>4. /\ Evaluate(glog.patterns, rec[g].site) \in Nat
      /\ Evaluate(flagged, rec[g].site) \in Nat
      /\ glog.override = 0 => Evaluate(flagged, rec[g].site) = 0
  BY Evaluation DEF Filters
<1>5. rec[g].crit /\ rec[g].lvl # LvlCrit => rec[g].site \in seen[g].locations
  BY DEF Decided
<1>6. CASE Level(g)
  <2>1. glog.level \in Nat
    BY DEF Filters
  <2>2. CASE glog.level >= rec[g].lvl
    <3>1. pc'[g] = "send" /\ verdict'[g] = "emit"
      BY <1>6, <2>2 DEF Level, Decide, Goto, Types
    <3>. QED
      BY <3>1, <2>2, <1>1, <1>3, <1>5 DEF Decided, Filtering, Emitting
  <2>3. CASE ~(glog.level >= rec[g].lvl)
    <3>1. pc'[g] = "override" /\ verdict'[g] = ""
      BY <1>1, <1>6, <2>3 DEF Level, Goto, Types
    <3>2. glog.level < rec[g].lvl /\ rec[g].lvl > 0
      BY <2>1, <2>3, <1>2
    <3>. QED
      BY <3>1, <3>2, <1>1, <1>3, <1>5 DEF Decided, Filtering, Emitting
  <2>. QED
    BY <2>2, <2>3
<1>7. CASE Override(g)
  <2>1. rec[g].lvl > 0 /\ \E l \in seen[g].levels : l < rec[g].lvl
    BY <1>7 DEF Override, At, Decided
  <2>2. CASE glog.override = 0
    <3>1. pc'[g] = "idle" /\ verdict'[g] = "drop"
      BY <1>7, <2>2 DEF Override, Decide, Return, Goto, Types
    <3>2. Evaluate(flagged, rec[g].site) < rec[g].lvl
      BY <1>2, <1>4, <2>1, <2>2
    <3>. QED
      BY <3>1, <3>2, <2>1, <1>1, <1>3, <1>5 DEF Decided, Filtering, Emitting
  <2>3. CASE glog.override # 0
    <3>1. pc'[g] = "cache" /\ verdict'[g] = ""
      BY <1>1, <1>7, <2>3 DEF Override, Goto, Types
    <3>. QED
      BY <3>1, <2>1, <1>1, <1>5 DEF Decided, Filtering, Emitting
  <2>. QED
    BY <2>2, <2>3
<1>8. CASE Cache(g) \/ Compute(g)
  <2>1. rec[g].lvl > 0 /\ \E l \in seen[g].levels : l < rec[g].lvl
    BY <1>8 DEF Cache, Compute, At, Decided
  <2>2. PICK e : e = Evaluate(glog.patterns, rec[g].site)
    OBVIOUS
  <2>3. \/ pc'[g] = "compute" /\ verdict'[g] = ""
        \/ pc'[g] = "send" /\ verdict'[g] = "emit" /\ e >= rec[g].lvl
        \/ pc'[g] = "idle" /\ verdict'[g] = "drop" /\ ~(e >= rec[g].lvl)
    <3>1. CASE Compute(g)
      BY <3>1, <2>2 DEF Compute, Decide, Allows, Return, Goto, Types
    <3>2. CASE Cache(g) /\ rec[g].site \in DOMAIN glog.siteCache
      <4>1. glog.siteCache[rec[g].site] = e
        BY <2>2, <3>2 DEF CacheCurrent
      <4>. QED
        BY <3>2, <4>1 DEF Cache, Decide, Allows, Return, Goto, Types
    <3>3. CASE Cache(g) /\ rec[g].site \notin DOMAIN glog.siteCache
      BY <1>1, <3>3 DEF Cache, Goto, Types
    <3>. QED
      BY <1>8, <3>1, <3>2, <3>3
  <2>4. ~(e >= rec[g].lvl) => e < rec[g].lvl
    BY <2>2, <1>2, <1>4
  <2>. QED
    BY <2>1, <2>2, <2>3, <2>4, <1>1, <1>3, <1>5 DEF Decided, Filtering, Emitting
<1>. QED
  BY <1>6, <1>7, <1>8

\* No step of any goroutine invalidates what one knows.
LEMMA VerdictsStep ==
    ASSUME Arguments, Types, Filters, CacheCurrent, Watched, Verdicts, Next
    PROVE  Verdicts'
<1> SUFFICES ASSUME NEW g \in Goroutines PROVE Decided(g)'
  BY DEF Verdicts
<1>1. Decided(g)
  BY DEF Verdicts
<1>. QED
  BY <1>1, LocalSteps, DecidedKept, DecidedWrite, DecidedMoves, DecidedVerdict DEF Step

-----------------------------------------------------------------------------
\* Where the stream, its mutex and the goroutines at the stream stay, so do the
\* lines.
LEMMA LinesKept ==
    ASSUME Lines, UNCHANGED <<mu, stream>>,
           \A g \in Goroutines :
              /\ pc'[g] = "stream" <=> pc[g] = "stream"
              /\ pc[g] = "stream" => rec'[g] = rec[g]
              /\ pc'[g] = "idle" /\ verdict'[g] = "emit" /\ LvlFilter(rec'[g])
                    => pc[g] = "idle" /\ verdict[g] = "emit" /\ rec'[g] = rec[g]
    PROVE  Lines'
<1>1. mu # "" => rec'[mu] = rec[mu]
  BY DEF Lines
<1>2. StreamWhole'
  BY DEF Lines, StreamWhole
<1>3. ASSUME NEW g \in Goroutines, pc'[g] = "idle", verdict'[g] = "emit", LvlFilter(rec'[g])
      PROVE  \E i \in DOMAIN stream' : stream'[i] = <<rec'[g].id, "end">>
  <2>1. pc[g] = "idle" /\ verdict[g] = "emit" /\ rec'[g] = rec[g] /\ LvlFilter(rec[g])
    BY <1>3 DEF LvlFilter
  <2>. QED
    BY <2>1 DEF Lines
<1>4. \A g \in Goroutines : pc'[g] = "stream" <=> mu' = g
  BY DEF Lines
<1>. QED
  BY <1>1, <1>2, <1>3, <1>4 DEF Lines

\* Only StreamWrite and StreamEnd touch the stream.
LEMMA LinesOther ==
    ASSUME Types, Verdicts, Lines, Next,
           ~\E g \in Goroutines : StreamWrite(g) \/ StreamEnd(g)
    PROVE  Lines'
<1>1. UNCHANGED <<mu, stream>>
  <2>1. ASSUME NEW g \in Goroutines, Step(g), ~StreamWrite(g), ~StreamEnd(g)
        PROVE  UNCHANGED <<mu, stream>>
    BY <2>1 DEF Step, Backtrace, Match, Level, Override, Cache, Compute, Send, output
  <2>2. ASSUME NEW g \in Goroutines, NEW call \in Calls, Write(g, call)
        PROVE  UNCHANGED <<mu, stream>>
    BY <2>2 DEF Write, output
  <2>3. ASSUME Configure \/ Release \/ Drain
        PROVE  UNCHANGED <<mu, stream>>
    BY <2>3 DEF Configure, Release, Drain, Verbosity, Vmodule, VmoduleFlag, BacktraceAt,
                BacktraceFlag, SetHandler, Receive, SinkWrites, SinkFails, output
  <2>. QED
    BY <2>1, <2>2, <2>3 DEF Next
<1>2. ASSUME NEW g \in Goroutines
      PROVE  /\ pc'[g] = "stream" <=> pc[g] = "stream"
             /\ pc[g] = "stream" => rec'[g] = rec[g]
             /\ pc'[g] = "idle" /\ verdict'[g] = "emit" /\ LvlFilter(rec'[g])
                   => pc[g] = "idle" /\ verdict[g] = "emit" /\ rec'[g] = rec[g]
  <2>1. ASSUME NEW call \in Calls, Write(g, call)
        PROVE  pc[g] = "idle" /\ pc'[g] # "stream" /\ verdict'[g] = ""
    BY <2>1, WriteFields
  <2>2. ASSUME Backtrace(g) \/ Match(g)
        PROVE  pc[g] # "stream" /\ pc'[g] \notin {"idle", "stream"}
    BY <2>2 DEF Backtrace, Match, At, Goto, Types
  <2>3. ASSUME Level(g) \/ Override(g)
        PROVE  pc[g] # "stream" /\ pc'[g] # "stream" /\ (pc'[g] = "idle" => verdict'[g] = "drop")
    BY <2>3, ZenonT(90) DEF Level, Override, Decide, Return, At, Goto, Types
  <2>4. ASSUME Cache(g) \/ Compute(g)
        PROVE  pc[g] # "stream" /\ pc'[g] # "stream" /\ (pc'[g] = "idle" => verdict'[g] = "drop")
    BY <2>4, ZenonT(90) DEF Cache, Compute, Decide, Return, At, Goto, Types
  <2>5. ASSUME Send(g)
        PROVE  /\ pc[g] # "stream" /\ pc'[g] # "stream" /\ rec'[g] = rec[g]
               /\ pc'[g] = "idle" => ~LvlFilter(rec[g])
    BY <2>5 DEF Send, NextHandler, Return, At, Goto, Types
  <2>6. rec'[g] = rec[g] => (LvlFilter(rec'[g]) <=> LvlFilter(rec[g]))
    BY DEF LvlFilter
  <2>. QED
    BY <2>1, <2>2, <2>3, <2>4, <2>5, <2>6, LocalSteps DEF Step
<1>. QED
  BY <1>1, <1>2, LinesKept

\* Who locks the mutex finds whole lines and begins one.
LEMMA LinesBegin ==
    ASSUME Arguments, Types, Verdicts, Lines, NEW g \in Goroutines, StreamWrite(g)
    PROVE  Lines'
<1>1. /\ pc[g] = "sync" /\ mu = "" /\ mu' = g /\ pc' = [pc EXCEPT ![g] = "stream"]
      /\ stream' = Append(stream, <<rec[g].id, "begin">>) /\ UNCHANGED <<rec, verdict>>
  BY DEF StreamWrite, Sync, At, Goto
<1>2. stream \in Seq(Nat \X {"begin", "end"}) /\ Len(stream) \in Nat /\ DOMAIN stream = 1..Len(stream)
  BY LenProperties DEF Lines
<1>3. PICK line : line = <<rec[g].id, "begin">>
  OBVIOUS
<1>4. line \in Nat \X {"begin", "end"} /\ line[2] = "begin"
  <2>1. rec[g].id \in Nat
    BY <1>1 DEF Types, Records
  <2>. QED
    BY <2>1, <1>3
<1>5. /\ stream' \in Seq(Nat \X {"begin", "end"}) /\ Len(stream') = Len(stream) + 1
      /\ stream'[Len(stream) + 1] = line /\ DOMAIN stream' = 1..Len(stream) + 1
      /\ \A i \in 1..Len(stream) : i \in DOMAIN stream' /\ stream'[i] = stream[i]
  <2>1. stream' = Append(stream, line)
    BY <1>1, <1>3
  <2>2. /\ stream' \in Seq(Nat \X {"begin", "end"}) /\ Len(stream') = Len(stream) + 1
        /\ stream'[Len(stream) + 1] = line
        /\ \A i \in 1..Len(stream) : stream'[i] = stream[i]
    BY <2>1, <1>2, <1>4, AppendProperties
  <2>3. DOMAIN stream' = 1..Len(stream) + 1
    BY <2>2, LenProperties
  <2>. QED
    BY <2>2, <2>3, <1>2
<1>6. StreamWhole'
  <2> SUFFICES ASSUME NEW i \in 1..Len(stream) + 1, stream'[i][2] = "end"
               PROVE  i > 1 /\ stream'[i - 1] = <<stream'[i][1], "begin">>
    BY <1>5 DEF StreamWhole
  <2>1. i # Len(stream) + 1
    BY <1>4, <1>5
  <2>2. i \in 1..Len(stream) /\ stream'[i] = stream[i]
    BY <2>1, <1>2, <1>5
  <2>3. i > 1 /\ stream[i - 1] = <<stream[i][1], "begin">>
    BY <2>2, <1>2 DEF Lines, StreamWhole
  <2>4. i - 1 \in 1..Len(stream)
    BY <2>2, <2>3, <1>2
  <2>. QED
    BY <2>2, <2>3, <2>4, <1>5
<1>7. \A h \in Goroutines : pc'[h] = "stream" <=> mu' = h
  BY <1>1, ZenonT(90) DEF Lines, Types, Arguments
<1>8. ASSUME NEW h \in Goroutines, pc'[h] = "idle", verdict'[h] = "emit", LvlFilter(rec'[h])
      PROVE  \E i \in DOMAIN stream' : stream'[i] = <<rec'[h].id, "end">>
  <2>1. pc[h] = "idle" /\ verdict[h] = "emit" /\ LvlFilter(rec[h])
    BY <1>1, <1>8 DEF Types, LvlFilter
  <2>2. PICK i \in 1..Len(stream) : stream[i] = <<rec[h].id, "end">>
    BY <2>1, <1>2 DEF Lines
  <2>3. stream'[i] = <<rec'[h].id, "end">> /\ i \in DOMAIN stream'
    BY <2>2, <1>1, <1>5
  <2>. QED
    BY <2>3
<1>9. Len(stream') > 0 /\ stream'[Len(stream')] = <<rec'[mu'].id, "begin">>
  <2>1. <<rec'[mu'].id, "begin">> = line
    BY <1>1, <1>3
  <2>. QED
    BY <2>1, <1>2, <1>5
<1>. QED
  BY <1>1, <1>5, <1>6, <1>7, <1>8, <1>9 DEF Lines

\* The line that is ended is the one begun last.
LEMMA LinesEnd ==
    ASSUME Arguments, Types, Verdicts, Lines, NEW g \in Goroutines, StreamEnd(g)
    PROVE  Lines'
<1>1. /\ pc[g] = "stream" /\ mu = g /\ mu' = "" /\ pc' = [pc EXCEPT ![g] = "idle"]
      /\ stream' = Append(stream, <<rec[g].id, "end">>) /\ UNCHANGED <<rec, verdict>>
  BY DEF StreamEnd, Unlock, Return, At, Goto, Lines
<1>2. stream \in Seq(Nat \X {"begin", "end"}) /\ Len(stream) \in Nat /\ DOMAIN stream = 1..Len(stream)
  BY LenProperties DEF Lines
<1>3. PICK line : line = <<rec[g].id, "end">>
  OBVIOUS
<1>4. line \in Nat \X {"begin", "end"} /\ line[1] = rec[g].id
  <2>1. rec[g].id \in Nat
    BY <1>1 DEF Types, Records
  <2>. QED
    BY <2>1, <1>3
<1>5. /\ stream' \in Seq(Nat \X {"begin", "end"}) /\ Len(stream') = Len(stream) + 1
      /\ stream'[Len(stream) + 1] = line /\ DOMAIN stream' = 1..Len(stream) + 1
      /\ \A i \in 1..Len(stream) : i \in DOMAIN stream' /\ stream'[i] = stream[i]
  <2>1. stream' = Append(stream, line)
    BY <1>1, <1>3
  <2>2. /\ stream' \in Seq(Nat \X {"begin", "end"}) /\ Len(stream') = Len(stream) + 1
        /\ stream'[Len(stream) + 1] = line
        /\ \A i \in 1..Len(stream) : stream'[i] = stream[i]
    BY <2>1, <1>2, <1>4, AppendProperties
  <2>3. DOMAIN stream' = 1..Len(stream) + 1
    BY <2>2, LenProperties
  <2>. QED
    BY <2>2, <2>3, <1>2
<1>6. Len(stream) > 0 /\ stream[Len(stream)] = <<rec[g].id, "begin">>
  BY <1>1 DEF Lines, Arguments
<1>7. StreamWhole'
  <2> SUFFICES ASSUME NEW i \in 1..Len(stream) + 1, stream'[i][2] = "end"
               PROVE  i > 1 /\ stream'[i - 1] = <<stream'[i][1], "begin">>
    BY <1>5 DEF StreamWhole
  <2>1. CASE i = Len(stream) + 1
    BY <2>1, <1>2, <1>4, <1>5, <1>6
  <2>2. CASE i \in 1..Len(stream)
    <3>1. i > 1 /\ stream[i - 1] = <<stream[i][1], "begin">>
      BY <2>2, <1>2, <1>5 DEF Lines, StreamWhole
    <3>2. i - 1 \in 1..Len(stream)
      BY <3>1, <2>2, <1>2
    <3>. QED
      BY <3>1, <3>2, <2>2, <1>5
  <2>. QED
    BY <2>1, <2>2, <1>2
<1>8. \A h \in Goroutines : pc'[h] = "stream" <=> mu' = h
  BY <1>1 DEF Lines, Types, Arguments
<1>9. ASSUME NEW h \in Goroutines, pc'[h] = "idle", verdict'[h] = "emit", LvlFilter(rec'[h])
      PROVE  \E i \in DOMAIN stream' : stream'[i] = <<rec'[h].id, "end">>
  <2>1. CASE h = g
    <3>1. stream'[Len(stream) + 1] = <<rec'[h].id, "end">>
      BY <2>1, <1>1, <1>3, <1>5
    <3>. QED
      BY <3>1, <1>2, <1>5
  <2>2. CASE h # g
    <3>1. pc[h] = "idle" /\ verdict[h] = "emit" /\ LvlFilter(rec[h])
      BY <2>2, <1>1, <1>9 DEF Types, LvlFilter
    <3>2. PICK i \in 1..Len(stream) : stream[i] = <<rec[h].id, "end">>
      BY <3>1, <1>2 DEF Lines
    <3>3. stream'[i] = <<rec'[h].id, "end">> /\ i \in DOMAIN stream'
      BY <3>2, <1>1, <1>5
    <3>. QED
      BY <3>3
  <2>. QED
    BY <2>1, <2>2
<1>. QED
  BY <1>1, <1>5, <1>7, <1>8, <1>9 DEF Lines

\* Lines on the stream stay whole.
LEMMA LinesStep ==
    ASSUME Arguments, Types, Verdicts, Lines, Next
    PROVE  Lines'
  BY LinesOther, LinesBegin, LinesEnd

-----------------------------------------------------------------------------
\* Who is older is not younger.
LEMMA OlderIsStrict == ASSUME NEW r \in Records PROVE ~Older(r, r)
  BY DEF Older, Records

\* Where the channel, its goroutine and the sinks stay, so does their order.
LEMMA OrderKept ==
    ASSUME Order, UNCHANGED <<recs, drain, sinks, lost>>
    PROVE  Order' /\ \A r : InPlace(r)' <=> InPlace(r)
  BY DEF Order, InPlace, Queued, Delivering, Delivered

\* The types of the four.
LEMMA OrderTypes ==
    ASSUME Order
    PROVE  /\ recs \in Seq(Records) /\ Len(recs) \in Nat
           /\ \A n \in 1..Len(recs) : recs[n] \in Records
           /\ drain.next # 0 => drain.rec \in Records
           /\ drain.next \in Nat
           /\ \A i \in 1..Sinks : /\ sinks[i] \in Seq(Records) /\ Len(sinks[i]) \in Nat
                                  /\ \A n \in 1..Len(sinks[i]) : sinks[i][n] \in Records
           /\ \A r : InPlace(r) => r \in Records
<1>1. recs \in Seq(Records) /\ Len(recs) \in Nat /\ \A n \in 1..Len(recs) : recs[n] \in Records
  BY LenProperties, ElementOfSeq DEF Order
<1>2. (drain.next # 0 => drain.rec \in Records) /\ drain.next \in Nat
  BY DEF Order
<1>3. ASSUME NEW i \in 1..Sinks
      PROVE  /\ sinks[i] \in Seq(Records) /\ Len(sinks[i]) \in Nat
             /\ \A n \in 1..Len(sinks[i]) : sinks[i][n] \in Records
  <2>1. sinks[i] \in Seq(Records)
    BY DEF Order
  <2>. QED
    BY <2>1, LenProperties, ElementOfSeq
<1>4. lost \subseteq Records
  BY DEF Order
<1>. QED
  BY <1>1, <1>2, <1>3, <1>4 DEF InPlace, Queued, Delivering, Delivered

\* A record is sent after all older ones of its goroutine.
LEMMA OrderSend ==
    ASSUME Types, Order, Kept, NEW g \in Goroutines, Send(g)
    PROVE  Order' /\ \A r : InPlace(r)' <=> InPlace(r) \/ r = rec[g]
<1>1. /\ pc[g] = "send" /\ recs' = Append(recs, rec[g]) /\ UNCHANGED <<drain, sinks, lost>>
  BY DEF Send, At
<1>2. rec[g] \in Records /\ rec[g].by = g
  BY <1>1 DEF Types
<1>3. /\ recs' \in Seq(Records) /\ Len(recs') = Len(recs) + 1 /\ recs'[Len(recs) + 1] = rec[g]
      /\ \A n \in 1..Len(recs) : recs'[n] = recs[n]
  BY <1>1, <1>2, OrderTypes, AppendProperties
<1>4. Len(recs) \in Nat
  BY OrderTypes
<1>5. \A r : Queued(r)' <=> Queued(r) \/ r = rec[g]
  <2>1. \A n : n \in 1..Len(recs') <=> n \in 1..Len(recs) \/ n = Len(recs) + 1
    BY <1>3, <1>4
  <2>. QED
    BY <2>1, <1>3 DEF Queued
<1>6. \A r : (Delivering(r)' <=> Delivering(r)) /\ (Delivered(r)' <=> Delivered(r))
  BY <1>1 DEF Delivering, Delivered
<1>7. \A r : InPlace(r) => Older(r, rec[g])
  <2>1. ~Accepted(g)
    BY <1>1 DEF Accepted
  <2>. QED
    BY <2>1, <1>2, OrderTypes DEF Kept, Older
<1>8. \A m, n \in 1..Len(recs') : m < n => Older(recs'[m], recs'[n])
  <2> SUFFICES ASSUME NEW m \in 1..Len(recs'), NEW n \in 1..Len(recs'), m < n
               PROVE  Older(recs'[m], recs'[n])
    OBVIOUS
  <2>1. m \in 1..Len(recs) /\ recs'[m] = recs[m]
    BY <1>3, <1>4
  <2>2. CASE n \in 1..Len(recs)
    BY <2>1, <2>2, <1>3 DEF Order
  <2>3. CASE n = Len(recs) + 1
    BY <2>1, <2>3, <1>3, <1>7 DEF InPlace, Queued
  <2>. QED
    BY <2>2, <2>3, <1>3, <1>4
<1>9. \A r, s \in Records : Delivering(r)' /\ Queued(s)' => Older(r, s)
  BY <1>5, <1>6, <1>7 DEF Order, InPlace
<1>10. \A r, s \in Records : Delivered(r)' /\ (Delivering(s)' \/ Queued(s)') => Older(r, s)
  BY <1>5, <1>6, <1>7 DEF Order, InPlace
<1>11. /\ drain' \in [rec : Records \cup {NoRecord}, next : Nat]
       /\ drain'.next = 0 <=> drain'.rec = NoRecord
       /\ sinks' \in [1..Sinks -> Seq(Records)] /\ lost' \subseteq Records
  BY <1>1 DEF Order
<1>12. \A i \in 1..Sinks : \A m, n \in 1..Len(sinks'[i]) : m < n => Older(sinks'[i][m], sinks'[i][n])
  BY <1>1 DEF Order
<1>13. \A i \in 1..Sinks : \A m \in 1..Len(sinks'[i]) :
          /\ sinks'[i][m] \notin lost'
          /\ \A j \in 1..Sinks : i # j => \A n \in 1..Len(sinks'[j]) : sinks'[i][m] # sinks'[j][n]
  BY <1>1 DEF Order
<1>14. Order'
  BY <1>3, <1>8, <1>9, <1>10, <1>11, <1>12, <1>13 DEF Order
<1>. QED
  BY <1>5, <1>6, <1>14 DEF InPlace

\* The oldest record leaves the channel.
LEMMA OrderReceive ==
    ASSUME Arguments, Order, Receive
    PROVE  Order' /\ \A r : InPlace(r)' <=> InPlace(r)
<1>1. /\ drain.next = 0 /\ recs # << >> /\ drain' = [rec |-> Head(recs), next |-> 1]
      /\ recs' = Tail(recs) /\ UNCHANGED <<sinks, lost>>
  BY DEF Receive
<1>2. recs \in Seq(Records) /\ Len(recs) \in Nat /\ Len(recs) # 0
  BY <1>1, OrderTypes, EmptySeq
<1>3. PICK first : first = recs[1]
  OBVIOUS
<1>4. Head(recs) = first /\ first \in Records
  BY <1>2, <1>3, OrderTypes
<1>5. /\ recs' \in Seq(Records) /\ Len(recs') = Len(recs) - 1
      /\ \A n \in 1..Len(recs) - 1 : recs'[n] = recs[n + 1]
  BY <1>1, <1>2, HeadTailProperties
<1>6. /\ drain'.rec = first /\ drain'.next = 1
      /\ drain' \in [rec : Records \cup {NoRecord}, next : Nat]
  BY <1>1, <1>4
<1>7. \A r : Queued(r) <=> Queued(r)' \/ r = first
  <2>1. \A n \in 1..Len(recs') : n + 1 \in 1..Len(recs) /\ recs'[n] = recs[n + 1]
    BY <1>2, <1>5
  <2>2. \A n \in 1..Len(recs) : n = 1 \/ (n - 1 \in 1..Len(recs') /\ recs'[n - 1] = recs[n])
    BY <1>2, <1>5
  <2>3. 1 \in 1..Len(recs)
    BY <1>2
  <2>. QED
    BY <2>1, <2>2, <2>3, <1>3 DEF Queued
<1>8. \A r : Delivered(r)' <=> Delivered(r)
  BY <1>1 DEF Delivered
<1>9. \A r : (Delivering(r)' <=> r = first) /\ ~Delivering(r)
  BY <1>1, <1>6 DEF Delivering
<1>10. \A m, n \in 1..Len(recs') : m < n => Older(recs'[m], recs'[n])
  <2> SUFFICES ASSUME NEW m \in 1..Len(recs'), NEW n \in 1..Len(recs'), m < n
               PROVE  Older(recs'[m], recs'[n])
    OBVIOUS
  <2>1. /\ m + 1 \in 1..Len(recs) /\ n + 1 \in 1..Len(recs) /\ m + 1 < n + 1
        /\ recs'[m] = recs[m + 1] /\ recs'[n] = recs[n + 1]
    BY <1>2, <1>5
  <2>. QED
    BY <2>1 DEF Order
<1>11. \A s : Queued(s)' => Older(first, s)
  <2> SUFFICES ASSUME NEW n \in 1..Len(recs') PROVE Older(first, recs'[n])
    BY DEF Queued
  <2>1. 1 \in 1..Len(recs) /\ n + 1 \in 1..Len(recs) /\ 1 < n + 1 /\ recs'[n] = recs[n + 1]
    BY <1>2, <1>5
  <2>. QED
    BY <2>1, <1>3 DEF Order
<1>12. \A r, s \in Records : Delivered(r)' /\ (Delivering(s)' \/ Queued(s)') => Older(r, s)
  BY <1>7, <1>8, <1>9 DEF Order
<1>13. \A r, s \in Records : Delivering(r)' /\ Queued(s)' => Older(r, s)
  BY <1>9, <1>11
<1>14. drain'.next = 0 <=> drain'.rec = NoRecord
  BY <1>4, <1>6, NoRecordIs
<1>15. Order'
  BY <1>1, <1>5, <1>6, <1>10, <1>12, <1>13, <1>14 DEF Order
<1>. QED
  BY <1>7, <1>8, <1>9, <1>15 DEF InPlace

\* A sink writes the record that was delivered last.
LEMMA OrderWritten ==
    ASSUME Order, SinkWrites
    PROVE  Order' /\ \A r : InPlace(r)' <=> InPlace(r)
<1>1. PICK k : k = drain.next
  OBVIOUS
<1>2. PICK d : d = drain.rec
  OBVIOUS
<1>3. /\ k \in 1..Sinks /\ sinks' = [sinks EXCEPT ![k] = Append(@, d)]
      /\ drain' = [rec |-> NoRecord, next |-> 0] /\ UNCHANGED <<recs, lost>>
  BY <1>1, <1>2 DEF SinkWrites, AfterWrite, Resting
<1>4. k # 0 /\ d \in Records
  BY <1>1, <1>2, <1>3, OrderTypes
<1>5. PICK old : old = sinks[k]
  OBVIOUS
<1>6. old \in Seq(Records) /\ Len(old) \in Nat
  BY <1>3, <1>5, OrderTypes
<1>7. PICK new : new = Append(old, d)
  OBVIOUS
<1>8. /\ new \in Seq(Records) /\ Len(new) = Len(old) + 1 /\ new[Len(old) + 1] = d
      /\ \A n \in 1..Len(old) : new[n] = old[n]
  BY <1>4, <1>6, <1>7, AppendProperties
<1>9. /\ sinks' = [sinks EXCEPT ![k] = new] /\ sinks \in [1..Sinks -> Seq(Records)]
      /\ sinks' \in [1..Sinks -> Seq(Records)]
      /\ sinks'[k] = new /\ \A i \in 1..Sinks : i # k => sinks'[i] = sinks[i]
  BY <1>3, <1>5, <1>7, <1>8 DEF Order
<1>10. \A n : n \in 1..Len(new) <=> n \in 1..Len(old) \/ n = Len(old) + 1
  BY <1>6, <1>8
<1>11. \A r : Delivered(r)' <=> Delivered(r) \/ r = d
  <2>1. \A r : (\E n \in 1..Len(new) : r = new[n]) <=> (\E n \in 1..Len(old) : r = old[n]) \/ r = d
    BY <1>8, <1>10
  <2>2. ASSUME NEW r, NEW i \in 1..Sinks
        PROVE  (\E n \in 1..Len(sinks'[i]) : r = sinks'[i][n])
                 <=> (\E n \in 1..Len(sinks[i]) : r = sinks[i][n]) \/ (i = k /\ r = d)
    <3>1. CASE i = k
      <4>1. sinks'[i] = new /\ sinks[i] = old
        BY <3>1, <1>5, <1>9
      <4>. QED
        BY <2>1, <3>1, <4>1, ZenonT(90)
    <3>2. CASE i # k
      BY <3>2, <1>9
    <3>. QED
      BY <3>1, <3>2
  <2>3. ASSUME NEW r
        PROVE  (\E i \in 1..Sinks : \E n \in 1..Len(sinks'[i]) : r = sinks'[i][n])
                 <=> (\E i \in 1..Sinks : \E n \in 1..Len(sinks[i]) : r = sinks[i][n]) \/ r = d
    BY <2>2, <1>3, SMTT(60)
  <2>4. lost' = lost
    BY <1>3
  <2>5. ASSUME NEW r PROVE Delivered(r)' <=> Delivered(r) \/ r = d
    BY <2>3, <2>4 DEF Delivered
  <2>. QED
    BY <2>5
<1>12. \A r : (Queued(r)' <=> Queued(r)) /\ ~Delivering(r)' /\ (Delivering(r) <=> r = d)
  BY <1>1, <1>2, <1>3, <1>4 DEF Queued, Delivering
<1>13. \A r \in Records : Delivered(r) => Older(r, d)
  BY <1>4, <1>12 DEF Order
<1>14. ~Delivered(d)
  BY <1>4, <1>13, OlderIsStrict
<1>15. \A i \in 1..Sinks : \A n \in 1..Len(sinks[i]) : sinks[i][n] \in Records /\ Delivered(sinks[i][n])
  BY OrderTypes DEF Delivered
<1>16. \A i \in 1..Sinks : \A m, n \in 1..Len(sinks'[i]) : m < n => Older(sinks'[i][m], sinks'[i][n])
  <2> SUFFICES ASSUME NEW i \in 1..Sinks, NEW m \in 1..Len(sinks'[i]), NEW n \in 1..Len(sinks'[i]), m < n
               PROVE  Older(sinks'[i][m], sinks'[i][n])
    OBVIOUS
  <2>1. CASE i # k
    BY <2>1, <1>9 DEF Order
  <2>2. CASE i = k
    <3>1. m \in 1..Len(old) /\ new[m] = old[m]
      BY <2>2, <1>6, <1>8, <1>9
    <3>2. CASE n \in 1..Len(old)
      <4>1. Older(old[m], old[n])
        BY <3>1, <3>2, <1>3, <1>5 DEF Order
      <4>. QED
        BY <4>1, <3>1, <3>2, <2>2, <1>8, <1>9
    <3>3. CASE n = Len(old) + 1
      <4>1. Older(old[m], d)
        BY <3>1, <1>3, <1>5, <1>13, <1>15
      <4>. QED
        BY <4>1, <3>1, <3>3, <2>2, <1>8, <1>9
    <3>. QED
      BY <3>2, <3>3, <2>2, <1>9, <1>10
  <2>. QED
    BY <2>1, <2>2
<1>17. \A i \in 1..Sinks : \A m \in 1..Len(sinks'[i]) :
          \/ m \in 1..Len(sinks[i]) /\ sinks'[i][m] = sinks[i][m]
          \/ i = k /\ sinks'[i][m] = d
  BY <1>5, <1>8, <1>9, <1>10
<1>18. \A i \in 1..Sinks : \A m \in 1..Len(sinks'[i]) :
          /\ sinks'[i][m] \notin lost'
          /\ \A j \in 1..Sinks : i # j => \A n \in 1..Len(sinks'[j]) : sinks'[i][m] # sinks'[j][n]
  <2> SUFFICES ASSUME NEW i \in 1..Sinks, NEW m \in 1..Len(sinks'[i])
               PROVE  /\ sinks'[i][m] \notin lost
                      /\ \A j \in 1..Sinks : i # j =>
                            \A n \in 1..Len(sinks'[j]) : sinks'[i][m] # sinks'[j][n]
    BY <1>3
  <2>1. sinks'[i][m] \notin lost
    BY <1>14, <1>17 DEF Order, Delivered
  <2>2. ASSUME NEW j \in 1..Sinks, i # j, NEW n \in 1..Len(sinks'[j])
        PROVE  sinks'[i][m] # sinks'[j][n]
    <3>1. CASE i = k /\ sinks'[i][m] = d
      <4>1. n \in 1..Len(sinks[j]) /\ sinks'[j][n] = sinks[j][n]
        BY <2>2, <3>1, <1>17
      <4>. QED
        BY <3>1, <4>1, <1>14, <1>15
    <3>2. CASE j = k /\ sinks'[j][n] = d
      <4>1. m \in 1..Len(sinks[i]) /\ sinks'[i][m] = sinks[i][m]
        BY <2>2, <3>2, <1>17
      <4>. QED
        BY <3>2, <4>1, <1>14, <1>15
    <3>3. CASE /\ m \in 1..Len(sinks[i]) /\ sinks'[i][m] = sinks[i][m]
               /\ n \in 1..Len(sinks[j]) /\ sinks'[j][n] = sinks[j][n]
      BY <2>2, <3>3 DEF Order
    <3>. QED
      BY <3>1, <3>2, <3>3, <1>17
  <2>. QED
    BY <2>1, <2>2
<1>19. drain' \in [rec : Records \cup {NoRecord}, next : Nat] /\ (drain'.next = 0 <=> drain'.rec = NoRecord)
  BY <1>3
<1>20. \A r, s \in Records : Delivered(r)' /\ (Delivering(s)' \/ Queued(s)') => Older(r, s)
  BY <1>11, <1>12 DEF Order
<1>21. Order'
  BY <1>3, <1>9, <1>12, <1>16, <1>18, <1>19, <1>20 DEF Order
<1>. QED
  BY <1>11, <1>12, <1>21 DEF InPlace

\* A record that a sink refuses goes to the next one, and after the last is lost.
LEMMA OrderRefused ==
    ASSUME Arguments, Order, SinkFails
    PROVE  Order' /\ \A r : InPlace(r)' <=> InPlace(r)
<1>1. drain.next # 0 /\ drain.rec \in Records /\ UNCHANGED <<recs, sinks>>
  BY OrderTypes DEF SinkFails
<1>2. CASE drain.next < Sinks
  <2>1. drain'.rec = drain.rec /\ drain'.next = drain.next + 1 /\ lost' = lost
    BY <1>2 DEF SinkFails, AfterFailure, Order
  <2>2. drain' \in [rec : Records \cup {NoRecord}, next : Nat] /\ drain'.next # 0
    BY <1>2, <2>1, OrderTypes DEF SinkFails, AfterFailure, Order
  <2>3. \A r : /\ Queued(r)' <=> Queued(r)
               /\ Delivering(r)' <=> Delivering(r)
               /\ Delivered(r)' <=> Delivered(r)
    BY <1>1, <2>1, <2>2 DEF Queued, Delivering, Delivered
  <2>4. Order'
    BY <1>1, <2>1, <2>2, <2>3 DEF Order
  <2>. QED
    BY <2>3, <2>4 DEF InPlace
<1>3. CASE ~(drain.next < Sinks)
  <2>1. drain' = [rec |-> NoRecord, next |-> 0] /\ lost' = lost \cup {drain.rec}
    <3>1. drain.next \in 1..Sinks /\ Sinks \in Nat
      BY DEF SinkFails, Arguments
    <3>2. drain.next = Sinks
      BY <3>1, <1>3
    <3>. QED
      BY <1>3, <3>2 DEF SinkFails, AfterFailure, Resting
  <2>2. PICK d : d = drain.rec
    OBVIOUS
  <2>3. \A r : /\ Queued(r)' <=> Queued(r)
               /\ ~Delivering(r)' /\ (Delivering(r) <=> r = d)
               /\ Delivered(r)' <=> Delivered(r) \/ r = d
    BY <1>1, <2>1, <2>2 DEF Queued, Delivering, Delivered
  <2>4. ~Delivered(d)
    BY <1>1, <2>2, <2>3, OlderIsStrict DEF Order
  <2>5. \A i \in 1..Sinks : \A m \in 1..Len(sinks[i]) : sinks[i][m] \notin lost'
    BY <2>1, <2>2, <2>4 DEF Order, Delivered
  <2>6. \A r, s \in Records : Delivered(r)' /\ (Delivering(s)' \/ Queued(s)') => Older(r, s)
    BY <2>3 DEF Order
  <2>7. drain' \in [rec : Records \cup {NoRecord}, next : Nat] /\ (drain'.next = 0 <=> drain'.rec = NoRecord)
    BY <2>1
  <2>8. lost' \subseteq Records
    BY <1>1, <2>1 DEF Order
  <2>9. /\ recs' \in Seq(Records) /\ sinks' \in [1..Sinks -> Seq(Records)]
        /\ \A m, n \in 1..Len(recs') : m < n => Older(recs'[m], recs'[n])
    BY <1>1 DEF Order
  <2>10. \A i \in 1..Sinks : \A m, n \in 1..Len(sinks'[i]) : m < n => Older(sinks'[i][m], sinks'[i][n])
    BY <1>1 DEF Order
  <2>11. \A i \in 1..Sinks : \A m \in 1..Len(sinks'[i]) :
            /\ sinks'[i][m] \notin lost'
            /\ \A j \in 1..Sinks : i # j => \A n \in 1..Len(sinks'[j]) : sinks'[i][m] # sinks'[j][n]
    <3>1. \A i \in 1..Sinks : \A m \in 1..Len(sinks[i]) : \A j \in 1..Sinks : i # j =>
             \A n \in 1..Len(sinks[j]) : sinks[i][m] # sinks[j][n]
      BY DEF Order
    <3>2. sinks' = sinks
      BY <1>1
    <3>. QED
      BY <2>5, <3>1, <3>2
  <2>12. Order'
    BY <2>3, <2>6, <2>7, <2>8, <2>9, <2>10, <2>11 DEF Order
  <2>. QED
    BY <2>3, <2>12 DEF InPlace
<1>. QED
  BY <1>2, <1>3

\* The other steps leave the four alone.
LEMMA OrderStep ==
    ASSUME Arguments, Types, Order, Kept, Next
    PROVE  /\ Order'
           /\ \/ \A r : InPlace(r)' <=> InPlace(r)
              \/ \E g \in Goroutines : Send(g) /\ \A r : InPlace(r)' <=> InPlace(r) \/ r = rec[g]
<1>1. ASSUME NEW g \in Goroutines, Send(g)
      PROVE  Order' /\ \A r : InPlace(r)' <=> InPlace(r) \/ r = rec[g]
  BY <1>1, OrderSend
<1>2. CASE Drain
  <2>1. Order' /\ \A r : InPlace(r)' <=> InPlace(r)
    BY <1>2, OrderReceive, OrderWritten, OrderRefused DEF Drain
  <2>. QED
    BY <2>1
<1>3. CASE UNCHANGED <<recs, drain, sinks, lost>>
  <2>1. Order' /\ \A r : InPlace(r)' <=> InPlace(r)
    BY <1>3, OrderKept
  <2>. QED
    BY <2>1
<1>4. Configure \/ Release => UNCHANGED <<recs, drain, sinks, lost>>
  BY DEF Configure, Release, Verbosity, Vmodule, VmoduleFlag, BacktraceAt, BacktraceFlag, SetHandler, output
<1>5. \A g \in Goroutines : Step(g) => Send(g) \/ UNCHANGED <<recs, drain, sinks, lost>>
  BY DEF Step, Backtrace, Match, Level, Override, Cache, Compute, StreamWrite, StreamEnd, output
<1>6. \A g \in Goroutines, call \in Calls : Write(g, call) => UNCHANGED <<recs, drain, sinks, lost>>
  BY DEF Write, output
<1>. QED
  BY <1>1, <1>2, <1>3, <1>4, <1>5, <1>6 DEF Next

\* What a step does to the record of a goroutine: it begins one, it accepts it,
\* or it leaves it what it is, accepted or not.
LEMMA RecordMoves ==
    ASSUME Arguments, Types, Verdicts, Next, NEW g \in Goroutines
    PROVE  \/ \E call \in Calls : Write(g, call)
           \/ Send(g) /\ rec'[g] = rec[g] /\ rec[g] # NoRecord /\ Accepted(g)'
           \/ /\ rec'[g].id = rec[g].id
              /\ rec[g] # NoRecord => rec'[g] # NoRecord
              /\ Accepted(g)' <=> Accepted(g)
              /\ Accepted(g) => rec'[g] = rec[g]
<1>1. Decided(g)
  BY DEF Verdicts
<1>2. CASE pc'[g] = pc[g] /\ rec'[g] = rec[g] /\ verdict'[g] = verdict[g]
  BY <1>2 DEF Accepted
<1>3. CASE Match(g)
  <2>1. /\ pc[g] = "match" /\ rec'[g] = Raised(rec[g]) /\ verdict' = verdict
    BY <1>3 DEF Match, Types, At
  <2>2. rec[g] \in Records /\ rec[g].by = g
    BY <2>1 DEF Types
  <2>3. Raised(rec[g]).id = rec[g].id /\ Raised(rec[g]).site = rec[g].site /\ Raised(rec[g]).by = g
    BY <2>2 DEF Raised, Records
  <2>4. rec'[g] # NoRecord
    <3>1. NoRecord.by = "" /\ g # ""
      BY DEF NoRecord, Arguments
    <3>. QED
      BY <3>1, <2>1, <2>3
  <2>5. ~Accepted(g) /\ ~Accepted(g)'
    BY <2>1, <1>1 DEF Accepted, Decided, Filtering
  <2>. QED
    BY <2>1, <2>3, <2>4, <2>5
<1>4. CASE Send(g)
  <2>1. /\ pc[g] = "send" /\ pc'[g] \in {"sync", "idle"} /\ UNCHANGED <<rec, verdict>>
    BY <1>4 DEF Send, NextHandler, Return, At, Goto, Types
  <2>. QED
    BY <2>1, <1>1, <1>4 DEF Accepted, Decided, Emitting, Types
<1>5. CASE Backtrace(g) \/ Level(g) \/ Override(g) \/ Cache(g) \/ Compute(g)
  <2>1. pc[g] \in Filtering /\ UNCHANGED rec
    BY <1>5 DEF Backtrace, Level, Override, Cache, Compute, At, Filtering
  <2>2. ~Accepted(g)
    BY <2>1, <1>1 DEF Accepted, Decided
  <2>3. verdict'[g] = "emit" => pc'[g] = "send"
    BY <1>5, <2>1, <1>1, ZenonT(90) DEF Backtrace, Level, Override, Cache, Compute, Decide, Return, Goto, Types, Decided
  <2>. QED
    BY <2>1, <2>2, <2>3 DEF Accepted
<1>6. CASE StreamWrite(g) \/ StreamEnd(g)
  <2>1. /\ pc[g] \in {"sync", "stream"} /\ pc'[g] \in {"stream", "idle"} /\ UNCHANGED <<rec, verdict>>
    BY <1>6 DEF StreamWrite, StreamEnd, Sync, Return, At, Goto, Types
  <2>. QED
    BY <2>1 DEF Accepted
<1>. QED
  BY <1>2, <1>3, <1>4, <1>5, <1>6, LocalSteps DEF Step

\* A goroutine's accepted records stay where one of them is, the latest last.
LEMMA KeptStep ==
    ASSUME Arguments, Types, Verdicts, Order, Kept, Next
    PROVE  Kept'
<1>1. ASSUME NEW g \in Goroutines, NEW call \in Calls, Write(g, call)
      PROVE  rec'[g].id = calls + 1 /\ rec'[g] # NoRecord /\ ~Accepted(g)'
  <2>1. PICK c \in BOOLEAN : c = (call.lvl = LvlCrit)
    OBVIOUS
  <2>2. rec'[g] = [id |-> calls + 1, by |-> g, site |-> call.site, lvl |-> call.lvl, crit |-> c]
    BY <1>1, <2>1, WriteFields
  <2>3. rec'[g].id = calls + 1 /\ rec'[g].by = g
    BY <2>2
  <2>4. verdict'[g] = ""
    BY <1>1, WriteFields
  <2>5. ~Accepted(g)'
    BY <2>4 DEF Accepted
  <2>6. NoRecord.by = "" /\ g # ""
    BY DEF NoRecord, Arguments
  <2>. QED
    BY <2>3, <2>5, <2>6
<1>2. ASSUME NEW r \in Records, InPlace(r)'
      PROVE  /\ rec'[r.by] # NoRecord /\ r.id <= rec'[r.by].id
             /\ ~Accepted(r.by)' => r.id < rec'[r.by].id
  <2>1. r.by \in Goroutines /\ r.id \in Nat
    BY DEF Records
  <2>2. PICK g \in Goroutines : g = r.by
    BY <2>1
  <2>3. InPlace(r) \/ (Send(g) /\ r = rec[g])
    <3>1. ASSUME NEW h \in Goroutines, Send(h), r = rec[h] PROVE h = g
      BY <3>1, <2>2 DEF Send, At, Types
    <3>. QED
      BY <1>2, <3>1, OrderStep
  <2>4. CASE InPlace(r)
    <3>1. rec[g] # NoRecord /\ r.id <= rec[g].id /\ (~Accepted(g) => r.id < rec[g].id)
      BY <2>2, <2>4 DEF Kept
    <3>2. rec[g].id \in Nat /\ rec[g].id <= calls /\ calls \in Nat
      BY <3>1 DEF Types, Records
    <3>3. CASE \E call \in Calls : Write(g, call)
      <4>1. rec'[g].id = calls + 1 /\ rec'[g] # NoRecord
        BY <3>3, <1>1
      <4>2. r.id < calls + 1
        BY <3>1, <3>2, <2>1
      <4>. QED
        BY <4>1, <4>2, <3>2, <2>1, <2>2
    <3>4. CASE ~\E call \in Calls : Write(g, call)
      <4>1. rec'[g].id = rec[g].id /\ rec'[g] # NoRecord /\ (~Accepted(g)' => ~Accepted(g))
        BY <3>1, <3>4, RecordMoves
      <4>. QED
        BY <4>1, <3>1, <2>2
    <3>. QED
      BY <3>3, <3>4
  <2>5. CASE Send(g) /\ r = rec[g]
    <3>1. UNCHANGED rec /\ rec[g] # NoRecord /\ Accepted(g)'
      <4>1. ~\E call \in Calls : Write(g, call)
        BY <2>5, StepIsBusy, WriteFields DEF Step
      <4>2. ~Accepted(g) /\ UNCHANGED rec /\ rec[g] # NoRecord
        BY <2>5 DEF Send, At, Accepted, Types
      <4>3. Decided(g) /\ pc[g] = "send" /\ UNCHANGED verdict /\ pc'[g] \in {"sync", "idle"}
        BY <2>5 DEF Verdicts, Send, NextHandler, Return, At, Goto, Types
      <4>. QED
        BY <4>2, <4>3 DEF Decided, Emitting, Accepted
    <3>. QED
      BY <3>1, <2>1, <2>2, <2>5
  <2>. QED
    BY <2>3, <2>4, <2>5
<1>3. ASSUME NEW g \in Goroutines, Accepted(g)' PROVE InPlace(rec[g])'
  <2>1. PICK r : r = rec'[g]
    OBVIOUS
  <2>2. InPlace(r) => InPlace(r)'
    BY OrderStep
  <2>3. CASE Send(g) /\ rec'[g] = rec[g]
    <3>1. InPlace(r)'
      BY <2>1, <2>3, OrderSend
    <3>. QED
      BY <2>1, <3>1
  <2>4. CASE Accepted(g) /\ rec'[g] = rec[g]
    <3>1. InPlace(r)
      BY <2>1, <2>4 DEF Kept
    <3>. QED
      BY <2>1, <2>2, <3>1
  <2>. QED
    BY <1>1, <1>3, <2>3, <2>4, RecordMoves
<1>. QED
  BY <1>2, <1>3 DEF Kept

-----------------------------------------------------------------------------
\* Every step keeps the invariant.
LEMMA NextInv == ASSUME Arguments, Inv, [Next]_vars PROVE Inv'
<1>1. CASE Next
  <2>1. Types' /\ Filters' /\ CacheCurrent'
    BY <1>1, TypesStep, FiltersStep, CacheStep DEF Inv
  <2>2. Watched' /\ Verdicts' /\ Lines'
    BY <1>1, WatchedStep, VerdictsStep, LinesStep DEF Inv
  <2>3. Order' /\ Kept'
    BY <1>1, OrderStep, KeptStep DEF Inv
  <2>. QED
    BY <2>1, <2>2, <2>3 DEF Inv
<1>2. CASE UNCHANGED vars
  <2>1. Types' /\ Filters' /\ CacheCurrent' /\ Watched'
    BY <1>2 DEF Inv, vars, Types, Filters, CacheCurrent, Watched
  <2>2. Verdicts' /\ Lines'
    BY <1>2 DEF Inv, vars, Verdicts, Decided, Lines, StreamWhole
  <2>3. Order' /\ \A r : InPlace(r)' <=> InPlace(r)
    BY <1>2, OrderKept DEF Inv, vars
  <2>4. Kept'
    BY <1>2, <2>3 DEF Inv, vars, Kept, Accepted
  <2>. QED
    BY <2>1, <2>2, <2>3, <2>4 DEF Inv
<1>. QED
  BY <1>1, <1>2

\* Invariance of the inductive invariant: what holds of the filters, of the
\* calls under way, of the stream and of the records between any two steps.
THEOREM Invariance == ASSUME Arguments PROVE Spec => []Inv
<1>1. Init => Inv
  BY InitInv
<1>2. Inv /\ [Next]_vars => Inv'
  BY NextInv
<1>. QED
  BY <1>1, <1>2, PTL DEF Spec

\* A level that is cached for a call site is what the patterns in force say of
\* it, whenever Vmodule comes between the look-up and the computation.
THEOREM CacheIsCurrent == ASSUME Arguments PROVE Spec => []CacheCurrent
<1>1. Inv => CacheCurrent
  BY DEF Inv
<1>. QED
  BY <1>1, Invariance, PTL

\* A record is emitted because of a level or of patterns that were in force
\* during its call, and dropped only if there were some of both that drop it.
THEOREM VerdictsAreJustified == ASSUME Arguments PROVE Spec => []VerdictJustified
<1>1. Inv => VerdictJustified
  BY DEF Inv, Verdicts, Decided, VerdictJustified
<1>. QED
  BY <1>1, Invariance, PTL

\* Lines on the stream are whole: whoever ends one began it just before.
THEOREM LinesAreWhole == ASSUME Arguments PROVE Spec => []StreamWhole
<1>1. Inv => StreamWhole
  BY DEF Inv, Lines
<1>. QED
  BY <1>1, Invariance, PTL

\* The record of a Crit that ended the process is on the stream, but for one at
\* the location of BacktraceAt.
THEOREM CritIsWritten == ASSUME Arguments PROVE Spec => []CritWritten
<1>1. ASSUME Inv, NEW g \in Goroutines, pc[g] = "idle", rec[g].crit, verdict[g] # "",
             rec[g].site \notin seen[g].locations
      PROVE  \E i \in DOMAIN stream : stream[i] = <<rec[g].id, "end">>
  <2>1. rec[g].lvl = 0 /\ StreamLvl \in Nat
    BY <1>1 DEF Inv, Verdicts, Decided, LvlCrit, Arguments
  <2>2. verdict[g] = "emit"
    <3>1. verdict[g] \in {"", "emit", "drop"}
      BY <1>1 DEF Inv, Types
    <3>2. verdict[g] = "drop" => rec[g].lvl > 0
      BY <1>1 DEF Inv, Verdicts, Decided
    <3>3. verdict[g] # "drop"
      BY <2>1, <3>2
    <3>4. verdict[g] # ""
      BY <1>1
    <3>. QED
      BY <3>1, <3>3, <3>4
  <2>3. LvlFilter(rec[g])
    BY <2>1 DEF LvlFilter
  <2>. QED
    BY <1>1, <2>2, <2>3 DEF Inv, Lines
<1>2. Inv => CritWritten
  BY <1>1 DEF CritWritten
<1>. QED
  BY <1>2, Invariance, PTL

\* The places a record can be in, by what is in them.
LEMMA PlacesAre ==
    ASSUME Arguments, Order
    PROVE  /\ Len(Places) = 3 + Sinks /\ DOMAIN Places = 1..3 + Sinks
           /\ \A r : /\ r \in Places[1] <=> Queued(r)
                     /\ r \in Places[2] <=> Delivering(r)
                     /\ r \in Places[3] <=> r \in lost
           /\ \A i \in 1..Sinks : \A r :
                 r \in Places[3 + i] <=> \E n \in 1..Len(sinks[i]) : r = sinks[i][n]
<1>1. PICK a : a = <<ToSet(recs), Held, lost>>
  OBVIOUS
<1>2. PICK b : b = [i \in 1..Sinks |-> ToSet(sinks[i])]
  OBVIOUS
<1>3. Sinks \in Nat
  BY DEF Arguments
<1>4. PICK S : ToSet(recs) \in S /\ Held \in S /\ lost \in S /\ \A i \in 1..Sinks : ToSet(sinks[i]) \in S
  <2>1. PICK T : T = {ToSet(recs), Held, lost} \cup {ToSet(sinks[i]) : i \in 1..Sinks}
    OBVIOUS
  <2>. QED
    BY <2>1
<1>5. a \in Seq(S) /\ Len(a) = 3 /\ a[1] = ToSet(recs) /\ a[2] = Held /\ a[3] = lost
  BY <1>1, <1>4
<1>6. b \in Seq(S) /\ Len(b) = Sinks /\ \A i \in 1..Sinks : b[i] = ToSet(sinks[i])
  <2>1. b \in [1..Sinks -> S] /\ DOMAIN b = 1..Sinks
    BY <1>2, <1>4
  <2>2. b \in Seq(S)
    BY <2>1, <1>3, SeqDef
  <2>. QED
    BY <2>1, <2>2, <1>2, <1>3, LenProperties
<1>7. PICK p : p = a \o b
  OBVIOUS
<1>8. Places = p
  BY <1>1, <1>2, <1>7 DEF Places
<1>9. p \in Seq(S) /\ Len(p) = 3 + Sinks /\ \A i \in 1..3 + Sinks : p[i] = IF i <= 3 THEN a[i] ELSE b[i - 3]
  <2>1. /\ p \in Seq(S) /\ Len(p) = Len(a) + Len(b)
        /\ \A i \in 1..Len(a) + Len(b) : p[i] = IF i <= Len(a) THEN a[i] ELSE b[i - Len(a)]
    BY <1>5, <1>6, <1>7, ConcatProperties
  <2>. QED
    BY <2>1, <1>5, <1>6
<1>10. DOMAIN p = 1..3 + Sinks
  BY <1>9, LenProperties
<1>11. p[1] = ToSet(recs) /\ p[2] = Held /\ p[3] = lost
  BY <1>3, <1>5, <1>9
<1>12. \A i \in 1..Sinks : p[3 + i] = ToSet(sinks[i])
  BY <1>3, <1>6, <1>9
<1>13. \A r : r \in ToSet(recs) <=> Queued(r)
  <2>1. DOMAIN recs = 1..Len(recs)
    BY OrderTypes, LenProperties
  <2>. QED
    BY <2>1 DEF ToSet, Queued
<1>14. \A r : r \in Held <=> Delivering(r)
  BY DEF Held, Delivering, Order
<1>15. ASSUME NEW i \in 1..Sinks, NEW r
       PROVE  r \in ToSet(sinks[i]) <=> \E n \in 1..Len(sinks[i]) : r = sinks[i][n]
  <2>1. DOMAIN sinks[i] = 1..Len(sinks[i])
    BY OrderTypes, LenProperties
  <2>. QED
    BY <2>1 DEF ToSet
<1>. QED
  <2>1. Len(Places) = 3 + Sinks /\ DOMAIN Places = 1..3 + Sinks
    BY <1>8, <1>9, <1>10
  <2>2. /\ Places[1] = ToSet(recs) /\ Places[2] = Held /\ Places[3] = lost
        /\ \A i \in 1..Sinks : Places[3 + i] = ToSet(sinks[i])
    BY <1>8, <1>11, <1>12
  <2>3. ASSUME NEW r
        PROVE  /\ r \in Places[1] <=> Queued(r)
               /\ r \in Places[2] <=> Delivering(r)
               /\ r \in Places[3] <=> r \in lost
    BY <2>2, <1>13, <1>14
  <2>4. ASSUME NEW i \in 1..Sinks, NEW r
        PROVE  r \in Places[3 + i] <=> \E n \in 1..Len(sinks[i]) : r = sinks[i][n]
    BY <2>2, <1>15
  <2>. QED
    BY <2>1, <2>3, <2>4

\* A record that was accepted is in the channel, with its goroutine, with one sink
\* or with the records every sink refused, and in one of them only; and a sink
\* has the records of a goroutine in the order of its calls.
THEOREM RecordsAreKept == ASSUME Arguments PROVE Spec => []OnePlace
<1>1. ASSUME Inv, NEW i \in DOMAIN Places, NEW j \in DOMAIN Places, i < j, NEW r
      PROVE  ~(r \in Places[i] /\ r \in Places[j])
  <2> DEFINE InSink(k, s) == \E n \in 1..Len(sinks[k]) : s = sinks[k][n]
  <2>1. Order /\ Sinks \in Nat
    BY <1>1 DEF Inv, Arguments
  <2>2. i \in 1..3 \/ i - 3 \in 1..Sinks
    BY <2>1, PlacesAre
  <2>3. j = 2 \/ j = 3 \/ j - 3 \in 1..Sinks
    BY <1>1, <2>1, PlacesAre
  <2>4. /\ r \in Places[1] => Queued(r)
        /\ r \in Places[2] => Delivering(r)
        /\ r \in Places[3] => Delivered(r)
    BY <2>1, PlacesAre DEF Delivered
  <2>5. ASSUME NEW k \in DOMAIN Places, k - 3 \in 1..Sinks, r \in Places[k]
        PROVE  InSink(k - 3, r) /\ Delivered(r) /\ r \notin lost
    <3>1. 3 + (k - 3) = k
      BY <2>1, PlacesAre
    <3>2. InSink(k - 3, r)
      BY <2>1, <2>5, <3>1, PlacesAre
    <3>. QED
      BY <2>1, <2>5, <3>2 DEF Delivered, Order
  <2>6. ~(Queued(r) /\ Delivering(r)) /\ ~(Delivered(r) /\ (Queued(r) \/ Delivering(r)))
    <3>1. InPlace(r) => r \in Records
      BY <2>1, OrderTypes
    <3>. QED
      BY <2>1, <3>1, OlderIsStrict DEF InPlace, Order
  <2>7. ASSUME i - 3 \in 1..Sinks, j - 3 \in 1..Sinks
        PROVE  ~(InSink(i - 3, r) /\ InSink(j - 3, r))
    <3>1. i - 3 # j - 3
      BY <1>1, <2>1, PlacesAre
    <3>. QED
      BY <2>1, <2>7, <3>1 DEF Order
  <2>8. r \in Places[3] => r \in lost
    BY <2>1, PlacesAre
  <2>. QED
    BY <1>1, <2>2, <2>3, <2>4, <2>5, <2>6, <2>7, <2>8
<1>2. ASSUME Inv PROVE \A i, j \in DOMAIN Places : i # j => Places[i] \cap Places[j] = {}
  <2>1. DOMAIN Places \subseteq Nat
    <3>1. DOMAIN Places = 1..3 + Sinks /\ Sinks \in Nat
      BY <1>2, PlacesAre DEF Inv, Arguments
    <3>. QED
      BY <3>1
  <2>2. \A i, j \in DOMAIN Places : i # j => i < j \/ j < i
    BY <2>1
  <2>. QED
    BY <1>1, <1>2, <2>2
<1>3. ASSUME Inv, NEW i \in 1..Sinks, NEW m \in DOMAIN sinks[i], NEW n \in DOMAIN sinks[i],
             m < n, sinks[i][m].by = sinks[i][n].by
      PROVE  sinks[i][m].id < sinks[i][n].id
  <2>1. DOMAIN sinks[i] = 1..Len(sinks[i])
    BY <1>3, OrderTypes, LenProperties DEF Inv
  <2>. QED
    BY <1>3, <2>1 DEF Inv, Order, Older
<1>4. ASSUME Inv, NEW g \in Goroutines, pc[g] = "idle", verdict[g] = "emit"
      PROVE  \E i \in DOMAIN Places : rec[g] \in Places[i]
  <2>1. PICK r : r = rec[g]
    OBVIOUS
  <2>2. InPlace(r)
    BY <1>4, <2>1 DEF Inv, Kept, Accepted
  <2>3. Order /\ Sinks \in Nat
    BY <1>4 DEF Inv, Arguments
  <2>4. \A i \in 1..Sinks : 3 + i \in 1..3 + Sinks
    BY <2>3
  <2>5. 1 \in 1..3 + Sinks /\ 2 \in 1..3 + Sinks /\ 3 \in 1..3 + Sinks
    BY <2>3
  <2>6. \E i \in DOMAIN Places : r \in Places[i]
    BY <2>2, <2>3, <2>4, <2>5, PlacesAre DEF InPlace, Delivered
  <2>. QED
    BY <2>1, <2>6
<1>5. Inv => OnePlace
  BY <1>2, <1>3, <1>4 DEF OnePlace
<1>. QED
  BY <1>5, Invariance, PTL

\* What the filters do: the site cache is current, and every verdict is due to
\* a configuration in force during the call.
THEOREM LogsVerdictsHold == Spec => []LogsVerdicts
<1>1. Arguments
  BY LogConstants
<1>2. CacheCurrent /\ VerdictJustified => LogsVerdicts
  BY DEF LogsVerdicts
<1>. QED
  BY <1>1, <1>2, CacheIsCurrent, VerdictsAreJustified, PTL

\* What becomes of the records: each is in one place and in order, lines are
\* whole, and the record of a Crit is out before the process ends.
THEOREM LogsRecordsHold == Spec => []LogsRecords
<1>1. Arguments
  BY LogConstants
<1>2. OnePlace /\ StreamWhole /\ CritWritten => LogsRecords
  BY DEF LogsRecords
<1>. QED
  BY <1>1, <1>2, RecordsAreKept, LinesAreWhole, CritIsWritten, PTL
=============================================================================
