------------------------------ MODULE LogFiles ------------------------------
(***************************************************************************)
(* RotatingFileHandler of package log: records are appended to files named *)
(* after the time of their first record. A file may fail to open, a write  *)
(* may stop in the middle (the disk is full), and the process may crash    *)
(* anywhere, in a write too, and is started again on what is there.        *)
(* One goroutine logs: the handler does not synchronise the rotation.      *)
(***************************************************************************)
EXTENDS Integers, Sequences, FiniteSetsExt

CONSTANTS
    Limit,       \* bytes after which a file is left
    Lengths,     \* lengths a formatted record can have, the newline included
    MaxRecords,  \* bound: records
    MaxTime,     \* bound: the clock, in the unit of file names
    MaxFaults    \* bound: crashes, files that cannot be opened, short writes

ASSUME FileConstants ==
    /\ Limit \in Nat /\ MaxRecords \in Nat /\ MaxTime \in Nat /\ MaxFaults \in Nat
    /\ Lengths \subseteq Nat \ {0} /\ \E most \in Lengths : \A length \in Lengths : length <= most

VARIABLES
    files,       \* the directory: name -> bytes
    proc,        \* "up", "down", or "refused": the handler was not created
    counter,     \* countingWriter: the file w (or None) and the count
    writing,     \* the record Log is about to write, <<>> when it is idle
    now,         \* the clock
    records,     \* records formatted so far
    acked,       \* history: the records Log returned nil for
    torn,        \* history: the records whose write stopped with an error
    opens,       \* history: how often a file was opened by the rotation
    faults       \* how many of MaxFaults there were

fileVars == <<files, proc, counter, writing, now, records, acked, torn, opens, faults>>
None == -1

(* The bytes of record r: each knows its place, the last one is the newline *)
Format(r, length) == [k \in 1 .. length |-> [rec |-> r, at |-> k, newline |-> k = length]]

(* A mutant keeps the cut line when it is short *)
prepFileKeeps(bytes) ==
    LET ends == {i \in DOMAIN bytes : bytes[i].newline}
    IN [ok |-> ends # {}, bytes |-> IF ends = {} \/ Max(ends) = Len(bytes) - 1 THEN bytes ELSE SubSeq(bytes, 1, Max(ends))]

(* prepFile looks for the last newline from the end and cuts behind it. It *)
(* fails when it seeks before the start: the file is empty or has none.    *)
prepFile(bytes) ==
    LET ends == {i \in DOMAIN bytes : bytes[i].newline}
    IN [ok |-> ends # {}, bytes |-> IF ends = {} THEN bytes ELSE SubSeq(bytes, 1, Max(ends))]

(* The directory is read in the order of names, which is that of times *)
Newest == IF DOMAIN files = {} THEN None ELSE Max(DOMAIN files)

FilesInit ==
    /\ files = [t \in {} |-> <<>>]
    /\ proc = "up" /\ counter = [w |-> None, count |-> 0]
    /\ writing = <<>> /\ now = 0 /\ records = 0 /\ acked = {} /\ torn = {} /\ faults = 0
    /\ opens = [t \in 0 .. MaxTime |-> 0]

Continued(bytes) == [w |-> Newest, count |-> Len(bytes)]

(* RotatingFileHandler: the last file is continued while it is below the   *)
(* limit. An error of prepFile is the caller's; one of the disk leaves the *)
(* program without the handler, and everything as it is.                   *)
Start ==
    /\ proc = "down"
    /\ LET prepared == prepFile(files[Newest])
       IN IF Newest # None /\ Len(files[Newest]) < Limit
          THEN IF prepared.ok
               THEN /\ files' = [files EXCEPT ![Newest] = prepared.bytes]
                    /\ counter' = Continued(prepared.bytes)
                    /\ proc' = "up"
               ELSE proc' = "refused" /\ UNCHANGED <<files, counter>>
          ELSE proc' = "up" /\ counter' = [w |-> None, count |-> 0] /\ UNCHANGED files
    /\ UNCHANGED <<writing, now, records, acked, torn, opens, faults>>

(* O_CREATE and O_APPEND: the file is created, or continued where it ends *)
Opened == [t \in DOMAIN files \cup {now} |-> IF t \in DOMAIN files THEN files[t] ELSE <<>>]

Full == counter.count > Limit
Idle == proc = "up" /\ writing = <<>>

(* Log up to the write: a full file is closed, and the file named after    *)
(* the record's time is created or continued                               *)
Log(length) ==
    /\ Idle /\ records < MaxRecords
    /\ Full => counter.w # None
    /\ IF Full \/ counter.w = None
       THEN /\ files' = Opened
            /\ counter' = [w |-> now, count |-> 0]
            /\ opens' = [opens EXCEPT ![now] = @ + 1]
       ELSE UNCHANGED <<files, counter, opens>>
    /\ records' = records + 1
    /\ writing' = Format(records + 1, length)
    /\ UNCHANGED <<proc, now, acked, torn, faults>>

(* Log returns the error of OpenFile: the full file is closed already, and *)
(* the count is still the one of that file                                 *)
OpenFails ==
    /\ Idle /\ faults < MaxFaults
    /\ Full => counter.w # None
    /\ Full \/ counter.w = None
    /\ counter' = [counter EXCEPT !.w = None]
    /\ faults' = faults + 1
    /\ UNCHANGED <<files, proc, writing, now, records, acked, torn, opens>>

(* The next Log finds that count and closes the file again, which is nil:  *)
(* it panics. A program that recovers is where it was, and panics again.   *)
LogPanics ==
    /\ Idle /\ Full /\ counter.w = None /\ now < MaxTime
    /\ proc' = "down" /\ now' = now + 1 /\ counter' = [w |-> None, count |-> 0]
    /\ UNCHANGED <<files, writing, records, acked, torn, opens, faults>>

(* countingWriter.Write: n bytes of the record are written and counted     *)
WriteBytes(n) ==
    /\ proc = "up" /\ writing # <<>>
    /\ files' = [files EXCEPT ![counter.w] = @ \o SubSeq(writing, 1, n)]
    /\ counter' = [counter EXCEPT !.count = @ + n]
    /\ writing' = <<>>
    /\ UNCHANGED <<proc, now, records, opens>>

(* All of them, and Log returns; or fewer, and Log returns the error: the  *)
(* bytes stay in the file                                                  *)
CountingWrite ==
    \/ /\ WriteBytes(Len(writing))
       /\ acked' = acked \cup {writing[1].rec}
       /\ UNCHANGED <<torn, faults>>
    \/ /\ faults < MaxFaults
       /\ \E n \in 0 .. Len(writing) - 1 : WriteBytes(n)
       /\ torn' = torn \cup {writing[1].rec}
       /\ faults' = faults + 1
       /\ UNCHANGED acked

(* The process ends, with any part of a write that was under way in the    *)
(* file. It is not up again within one unit of the clock.                  *)
Crash ==
    /\ proc = "up" /\ faults < MaxFaults /\ now < MaxTime
    /\ \E n \in 0 .. Len(writing) :
           files' = IF counter.w = None THEN files ELSE [files EXCEPT ![counter.w] = @ \o SubSeq(writing, 1, n)]
    /\ proc' = "down" /\ faults' = faults + 1 /\ now' = now + 1
    /\ writing' = <<>> /\ counter' = [w |-> None, count |-> 0]
    /\ UNCHANGED <<records, acked, torn, opens>>

Tick == proc = "up" /\ now < MaxTime /\ now' = now + 1 /\ UNCHANGED <<files, proc, counter, writing, records, acked, torn, opens, faults>>

FilesNext ==
    \/ Start
    \/ \E length \in Lengths : Log(length)
    \/ OpenFails
    \/ LogPanics
    \/ CountingWrite
    \/ Crash
    \/ Tick

-----------------------------------------------------------------------------
(* RotatingFileHandler over crashes, restarts and failed writes: the bytes *)
(* of a record follow each other; it starts a file, follows a newline, or  *)
(* follows the part of a record whose Log returned an error. Any other     *)
(* part of a record is at the end of a file.                               *)
LinesWhole ==
    \A t \in DOMAIN files : \A i \in DOMAIN files[t] :
        LET before == files[t][i - 1]
            byte == files[t][i]
        IN IF byte.at = 1 THEN i = 1 \/ before.newline \/ before.rec \in torn
           ELSE i > 1 /\ before.rec = byte.rec /\ before.at = byte.at - 1

(* prepFile: "every line ended by '\n' contains a valid log record": no    *)
(* line holds bytes of two records. A short write breaks it: the next      *)
(* record goes into the line of the part.                                  *)
LinesValid ==
    \A t \in DOMAIN files : \A i \in DOMAIN files[t] :
        i > 1 => files[t][i - 1].newline \/ files[t][i - 1].rec = files[t][i].rec

(* RotatingFileHandler: "When a file's size reaches the limit, the handler *)
(* creates a new file": nothing is written to a file of that size. The     *)
(* code compares with >, so a file of exactly the limit gets one more.     *)
LeftAtLimit == writing # <<>> => counter.count < Limit

Newlines(t) == {i \in DOMAIN files[t] : files[t][i].newline}

(* RotatingFileHandler over crashes and restarts: a record whose Log       *)
(* returned is in the files once, and the records, read file by file, are  *)
(* in the order they were logged.                                          *)
RecordsKept ==
    /\ \A t, u \in DOMAIN files : \A i \in Newlines(t), j \in Newlines(u) :
           t < u \/ (t = u /\ i < j) => files[t][i].rec < files[u][j].rec
    /\ \A r \in acked : \E t \in DOMAIN files : \E i \in Newlines(t) : files[t][i].rec = r

(* RotatingFileHandler: a file is left once it is above the limit (a file  *)
(* of exactly the limit is not, see LeftAtLimit), so that it exceeds it by *)
(* one record at most, for each time the rotation opened it: a rotation    *)
(* within one unit of the clock comes back to the same file with a count   *)
(* of 0. Parts of records count.                                           *)
SizeBounded == \A t \in DOMAIN files : Len(files[t]) <= opens[t] * (Limit + Max(Lengths))

(* prepFile: the handler cannot be created only when the file to continue  *)
(* holds no whole record, after a crash or a short write within its first. *)
RefusesOnlyEmpty == proc = "refused" => \A i \in DOMAIN files[Newest] : ~ files[Newest][i].newline

(* RotatingFileHandler, over crashes, restarts and failures of the disk:   *)
(* records are in one piece, those whose Log returned are kept once and in *)
(* order, files are bounded, and a start is refused only for want of a     *)
(* whole record.                                                           *)
FilesKept == LinesWhole /\ RecordsKept /\ SizeBounded /\ RefusesOnlyEmpty
=============================================================================
