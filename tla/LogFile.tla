------------------------------- MODULE LogFile -------------------------------
(***************************************************************************)
(* The raw log file of MagAO-X (libMagAOX/logger/logFileRaw.hpp): entries  *)
(* are appended to an open file, and a new file is started for size, for   *)
(* time, or on request of an INDI callback that runs concurrently with     *)
(* the log thread.                                                         *)
(*                                                                         *)
(* Data abstraction.  Time is counted in units of the file-name stamp      *)
(* (nanoseconds in the code), and a file is its stamp; every reading of    *)
(* the clock is later than the one before.  An entry is its time stamp and *)
(* its size, together with what the properties need to know of the moment  *)
(* it was written.  How many bytes a failing write leaves behind is not    *)
(* modelled.                                                               *)
(***************************************************************************)
EXTENDS Integers, Sequences, SequencesExt

CONSTANTS
    MaxLogSize,   \* m_maxLogSize
    Sizes,        \* sizes of the entries
    Periods,      \* values of m_maxLogTime; 0 turns rotation by time off
    MaxAhead,     \* bound: how far ahead of the clock a time stamp can be
    MaxClock,     \* bound: the clock stops here
    MaxEntries,   \* bound: entries written in a behaviour
    MaxRequests,  \* bound: rotations requested and interval changes
    MayFail       \* whether creating or writing a file can fail

ASSUME LogFileAssumption ==
    /\ MaxLogSize \in Nat /\ Sizes \subseteq Nat \ {0} /\ Periods \subseteq Nat
    /\ MaxAhead \in Nat /\ MaxClock \in Nat /\ MaxEntries \in Nat /\ MaxRequests \in Nat
    /\ MayFail \in BOOLEAN

NoFile == -1

VARIABLES
    fout,             \* m_fout: the stamp of the open file, or NoFile
    currFileSize,     \* m_currFileSize
    currFileStart,    \* m_currFileStartSec
    rotateRequested,  \* m_rotateRequested
    maxLogTime,       \* m_maxLogTime
    pc,               \* where the log thread is in writeLog
    entry,            \* the entry it is writing
    name,             \* nameTs: the stamp for a new file
    disk,             \* the files, by stamp, with the entries in them
    clock,
    written,          \* history: how many entries were begun
    failed,           \* history: creating or writing a file has failed
    requests          \* history: how many rotations were requested

fileVars == << fout, currFileSize, currFileStart >>
confVars == << rotateRequested, maxLogTime, requests >>
vars == << fileVars, confVars, pc, entry, name, disk, clock, written,
           failed >>

NoEntry == [ ts |-> 0, size |-> 0, at |-> 0, period |-> 0, epoch |-> 0 ]
Exists(f) == f \in DOMAIN disk

Init ==
    /\ fout = NoFile /\ currFileSize = 0 /\ currFileStart = 0
    /\ rotateRequested = FALSE /\ maxLogTime \in Periods
    /\ pc = "idle" /\ entry = NoEntry /\ name = 0
    /\ disk = << >> /\ clock = 0
    /\ written = 0 /\ requests = 0 /\ failed = FALSE

\* gettime: some time has passed since the clock was last read.
ReadClock == clock' \in clock + 1 .. MaxClock

----------------------------------------------------------------------------
\* Variants with a fault: time never starts a new file; the size of the entry is
\* not counted; a file is named from an entry of the future; a request is left standing.
NeverNewInterval(ts, now) == FALSE
FitsBefore(n) == currFileSize < MaxLogSize
NameFromEntry(ts, now) == ts
LeaveRequest == UNCHANGED rotateRequested

\* The entry falls in a later interval than the file, but not in a later one than
\* the clock.
NewInterval(ts, now) ==
    /\ maxLogTime # 0
    /\ ts \div maxLogTime > currFileStart \div maxLogTime
    /\ ts \div maxLogTime <= now \div maxLogTime

Fits(n) == currFileSize + n <= MaxLogSize

\* A file is never named after a time that is still to come.
NameFor(ts, now) == IF ts > now THEN now ELSE ts

\* The flag is read and cleared in one step (exchange).
TakeRequest == rotateRequested' = FALSE

\* writeLog: the request flag is taken, the clock is read, and it is decided
\* whether the entry needs a new file.
WriteBegin ==
    /\ pc = "idle" /\ written < MaxEntries
    /\ TakeRequest
    /\ ReadClock
    /\ \E ts \in 0 .. clock' + MaxAhead, n \in Sizes :
          /\ entry' = [ ts |-> ts, size |-> n, at |-> clock',
                        period |-> maxLogTime, epoch |-> requests ]
          /\ IF fout = NoFile \/ rotateRequested \/ NewInterval(ts, clock') \/ ~Fits(n)
               THEN pc' = "create" /\ name' = NameFor(ts, clock')
               ELSE pc' = "write" /\ UNCHANGED name
    /\ written' = written + 1
    /\ UNCHANGED << fileVars, maxLogTime, requests, disk, failed >>

\* The open file is closed and the new one is opened, empty, with mode "wb".
OpenNew(f) ==
    /\ fout' = f /\ currFileSize' = 0 /\ currFileStart' = f
    /\ disk' = [ g \in DOMAIN disk \cup {f} |-> IF g = f THEN << >> ELSE disk[g] ]
    /\ pc' = "write"

\* Variant with a fault: the name is not checked.
CreateFileUnchecked ==
    /\ pc = "create"
    /\ OpenNew(name)
    /\ UNCHANGED << confVars, entry, name, clock, written, failed >>

\* createFile: a name that is taken is refused before anything is closed.
CreateFile ==
    /\ pc = "create"
    /\ IF Exists(name)
         THEN pc' = "retry" /\ UNCHANGED << fileVars, disk >>
         ELSE OpenNew(name)
    /\ UNCHANGED << confVars, entry, name, clock, written, failed >>

\* The second attempt is named from the current time; a name that is taken again
\* is an error, which stops the log thread.
CreateRetry ==
    /\ pc = "retry"
    /\ ReadClock
    /\ name' = clock'
    /\ IF Exists(name')
         THEN pc' = "eexist" /\ UNCHANGED << fileVars, disk >>
         ELSE OpenNew(name')
    /\ UNCHANGED << confVars, entry, written, failed >>

\* Creating fails for another reason, before or after the old file was closed.
CreateError ==
    /\ MayFail /\ pc \in { "create", "retry" }
    /\ fout' \in { fout, NoFile }
    /\ pc' = "failed" /\ failed' = TRUE
    /\ UNCHANGED << currFileSize, currFileStart, confVars, entry, name, disk,
                    clock, written >>

\* The entry is written.
Write ==
    /\ pc = "write"
    /\ disk' = [ disk EXCEPT ![fout] = Append(@, entry) ]
    /\ currFileSize' = currFileSize + entry.size
    /\ pc' = "idle"
    /\ UNCHANGED << fout, currFileStart, confVars, entry, name, clock, written,
                    failed >>

WriteError ==
    /\ MayFail /\ pc = "write"
    /\ pc' = "failed" /\ failed' = TRUE
    /\ UNCHANGED << fileVars, confVars, entry, name, disk, clock, written >>

\* The log thread has ended; the destructor of the log manager calls writeLog again.
Again ==
    /\ pc = "failed"
    /\ pc' = "idle"
    /\ UNCHANGED << fileVars, confVars, entry, name, disk, clock, written,
                    failed >>

\* closeIfIntervalElapsed, between two batches.
CloseIfIntervalElapsed ==
    /\ pc = "idle" /\ fout # NoFile /\ maxLogTime # 0
    /\ ReadClock
    /\ fout' = IF clock' \div maxLogTime # currFileStart \div maxLogTime
               THEN NoFile ELSE fout
    /\ UNCHANGED << currFileSize, currFileStart, confVars, pc, entry, name,
                    disk, written, failed >>

\* newCallBack_rotateLogs, on the INDI thread.
RequestRotation ==
    /\ requests < MaxRequests
    /\ rotateRequested' = TRUE
    /\ requests' = requests + 1
    /\ UNCHANGED << fileVars, maxLogTime, pc, entry, name, disk, clock, written,
                    failed >>

\* newCallBack_maxLogTime, on the INDI thread.
SetMaxLogTime ==
    /\ maxLogTime' \in Periods \ { maxLogTime }
    /\ UNCHANGED << fileVars, rotateRequested, requests, pc, entry, name, disk,
                    clock, written, failed >>

LogThread == WriteBegin \/ CreateFile \/ CreateRetry \/ CreateError \/ Write
             \/ WriteError \/ Again \/ CloseIfIntervalElapsed
Callbacks == RequestRotation \/ SetMaxLogTime

Next == LogThread \/ Callbacks

Spec == Init /\ [][Next]_vars

----------------------------------------------------------------------------
Entries == [ ts : Nat, size : Nat, at : Nat, period : Nat, epoch : Nat ]

\* Every member and local has its type; the file being written to exists.
TypeOK ==
    /\ fout \in Nat \cup {NoFile} /\ currFileSize \in Nat /\ currFileStart \in Nat
    /\ rotateRequested \in BOOLEAN /\ maxLogTime \in Periods
    /\ pc \in { "idle", "create", "retry", "eexist", "write", "failed" }
    /\ entry \in Entries
    /\ name \in Nat /\ clock \in Nat /\ written \in Nat /\ requests \in Nat
    /\ failed \in BOOLEAN
    /\ DOMAIN disk \subseteq Nat
    /\ \A f \in DOMAIN disk : disk[f] \in Seq(Entries)
    /\ fout # NoFile => Exists(fout)
    /\ pc = "write" => fout # NoFile

\* A name that is taken never stops the log thread: the current time, which
\* writeLog falls back to, is later than the name of every file, because no file is
\* named after a time that was still to come when it was created.
CollisionResolved == pc # "eexist"

\* No file is ever emptied or removed: fopen with mode "wb" only meets names that
\* are free, whatever time stamps the entries carry.
FilesKept ==
    [][ \A f \in DOMAIN disk :
          f \in DOMAIN disk' /\ IsPrefix(disk[f], disk'[f]) ]_vars

\* The bytes of a file.
Bytes(s) ==
    LET sum[n \in 0 .. Len(s)] == IF n = 0 THEN 0 ELSE sum[n - 1] + s[n].size
    IN sum[Len(s)]

\* A file is larger than m_maxLogSize only if a single entry is, through every
\* rotation, collision and interval change (m_currFileSize is reset with the file).
SizeBackstop ==
    \A f \in DOMAIN disk : Bytes(disk[f]) > MaxLogSize => Len(disk[f]) = 1

\* The entry is not of a later interval than file f, or claimed a time to come.
NotLater(e, f) ==
    e.period # 0 => \/ e.ts \div e.period <= f \div e.period
                    \/ e.ts \div e.period > e.at \div e.period

\* A rotation request is never lost: entries whose writing began before it and after
\* it are in different files, also when it comes while an entry is being written.  (A
\* request whose file cannot be created is spent: the error ends the log thread.)
RequestsSeparate ==
    ~failed => \A f \in DOMAIN disk : \A i, j \in 1 .. Len(disk[f]) :
                   disk[f][i].epoch = disk[f][j].epoch

\* Nor is it applied twice: the open file is left only for an entry that does not fit,
\* that is of a later interval, or that a request separates from all entries in it.
LeftForCause ==
    pc \in { "create", "retry" } /\ fout # NoFile =>
        \/ ~Fits(entry.size)
        \/ ~NotLater(entry, fout)
        \/ \A i \in 1 .. Len(disk[fout]) : disk[fout][i].epoch # entry.epoch

\* Every rotation request of the INDI callback starts one new file, wherever it falls
\* between the steps of writeLog on the log thread.
RotationSeparates == RequestsSeparate /\ LeftForCause

\* A file holds entries of its own interval, late entries of earlier ones, and
\* entries that claimed a time still to come, but no entry of a later interval.
IntervalsSeparate ==
    \A f \in DOMAIN disk : \A i \in 1 .. Len(disk[f]) : NotLater(disk[f][i], f)
=============================================================================
