---------------------------- MODULE LoggingProofs ----------------------------
(***************************************************************************)
(* Proofs about logging: the raw log file, for every size limit, every set *)
(* of intervals and of entry sizes and every number of entries, and the    *)
(* log manager, for every number of threads and of entries, both with and  *)
(* without failures.                                                       *)
(*                                                                         *)
(* That a name taken twice is impossible is not inductive: it needs that   *)
(* no file, and no name about to be used, is later than the last reading   *)
(* of the clock, so that the next reading is a free name (IndInv).  How    *)
(* the entries are split needs to know what the log thread has decided     *)
(* about the entry in its hands (SplitInv).  That no entry is lost needs   *)
(* the numbering of the list to go on where the file ends (ManagerInv).    *)
(***************************************************************************)
EXTENDS LogFile, LogManager, WellFoundedInduction, SequenceTheorems, TLAPS

----------------------------------------------------------------------------
(***************************************************************************)
(* The names of the files.                                                 *)
(***************************************************************************)

\* No file is from the future, and neither is a name about to be used.
NamesPast ==
    /\ \A f \in DOMAIN disk : f <= clock
    /\ pc = "create" => name <= clock

IndInv == TypeOK /\ NamesPast /\ CollisionResolved

----------------------------------------------------------------------------
\* The invariant holds when the application starts.
LEMMA InitInv == Init => IndInv
<1> SUFFICES ASSUME Init PROVE IndInv
  OBVIOUS
<1>1. rotateRequested \in BOOLEAN /\ failed \in BOOLEAN
  BY Zenon DEF Init
<1>2. DOMAIN disk = {}
  BY DEF Init
<1>3. entry \in Entries
  BY DEF Init, NoEntry, Entries
<1>4. TypeOK
  BY <1>1, <1>2, <1>3 DEF Init, TypeOK, NoFile
<1> QED
  BY <1>2, <1>4 DEF Init, IndInv, NamesPast, CollisionResolved

\* What OpenNew does to the files: one more, empty, and the others as they are.
LEMMA OpenNewFacts ==
  ASSUME TypeOK, NEW f \in Nat, ~Exists(f), OpenNew(f)
  PROVE  /\ DOMAIN disk' = DOMAIN disk \cup {f}
         /\ \A g \in DOMAIN disk : disk'[g] = disk[g]
         /\ disk'[f] = << >>
         /\ fout' = f /\ currFileSize' = 0 /\ currFileStart' = f /\ pc' = "write"
  BY DEF OpenNew, Exists

\* Writing needs a file and keeps the types.
LEMMA WriteBeginInv == IndInv /\ WriteBegin => IndInv'
<1> SUFFICES ASSUME IndInv, WriteBegin PROVE IndInv'
  OBVIOUS
<1>1. clock' \in Nat /\ clock' > clock
  BY LogFileAssumption DEF WriteBegin, ReadClock, IndInv, TypeOK
<1>2. PICK ts \in 0 .. clock' + MaxAhead, n \in Sizes :
        /\ entry' = [ ts |-> ts, size |-> n, at |-> clock',
                      period |-> maxLogTime, epoch |-> requests ]
        /\ IF fout = NoFile \/ rotateRequested \/ NewInterval(ts, clock') \/ ~Fits(n)
             THEN pc' = "create" /\ name' = NameFor(ts, clock')
             ELSE pc' = "write" /\ UNCHANGED name
  BY DEF WriteBegin
<1>3. ts \in Nat /\ n \in Nat /\ maxLogTime \in Nat
  BY <1>1, LogFileAssumption DEF IndInv, TypeOK
<1>4. entry' \in Entries
  BY <1>1, <1>2, <1>3 DEF Entries, IndInv, TypeOK
<1>5. NameFor(ts, clock') \in Nat /\ NameFor(ts, clock') <= clock'
  BY <1>1, <1>3 DEF NameFor
<1>6. /\ pc' \in { "create", "write" } /\ name' \in Nat
      /\ pc' = "create" => name' <= clock'
      /\ pc' = "write" => fout # NoFile
  BY <1>2, <1>5 DEF IndInv, TypeOK
<1>7. rotateRequested' \in BOOLEAN
  BY Zenon DEF WriteBegin, TakeRequest
<1>8. UNCHANGED << fout, currFileSize, currFileStart, maxLogTime, requests, disk,
                   failed >>
      /\ written' \in Nat
  BY DEF WriteBegin, fileVars, IndInv, TypeOK
<1>9. TypeOK'
  BY <1>1, <1>4, <1>6, <1>7, <1>8 DEF IndInv, TypeOK, Exists
<1>10. NamesPast' /\ CollisionResolved'
  BY <1>1, <1>6, <1>8 DEF IndInv, TypeOK, NamesPast, CollisionResolved
<1> QED
  BY <1>9, <1>10 DEF IndInv

\* Opening a free name that is not later than the clock keeps the invariant.
LEMMA OpenNewInv ==
  ASSUME IndInv, NEW f \in Nat, ~Exists(f), OpenNew(f), clock' \in Nat, clock' >= clock,
         f <= clock', name' \in Nat, UNCHANGED << confVars, entry, written, failed >>
  PROVE  IndInv'
<1>1. /\ DOMAIN disk' = DOMAIN disk \cup {f}
      /\ \A g \in DOMAIN disk : disk'[g] = disk[g]
      /\ disk'[f] = << >>
      /\ fout' = f /\ currFileSize' = 0 /\ currFileStart' = f /\ pc' = "write"
  BY OpenNewFacts DEF IndInv
<1>2. \A g \in DOMAIN disk' : disk'[g] \in Seq(Entries)
  <2> SUFFICES ASSUME NEW g \in DOMAIN disk' PROVE disk'[g] \in Seq(Entries)
    OBVIOUS
  <2>1. CASE g = f
    BY <1>1, <2>1
  <2>2. CASE g # f
    BY <1>1, <2>2 DEF IndInv, TypeOK
  <2> QED
    BY <2>1, <2>2
<1>3. TypeOK'
  BY <1>1, <1>2 DEF IndInv, TypeOK, Exists, confVars, NoFile
<1>4. NamesPast' /\ CollisionResolved'
  BY <1>1 DEF IndInv, TypeOK, NamesPast, CollisionResolved
<1> QED
  BY <1>3, <1>4 DEF IndInv

\* The first attempt to create a file.
LEMMA CreateFileInv == IndInv /\ CreateFile => IndInv'
<1> SUFFICES ASSUME IndInv, CreateFile PROVE IndInv'
  OBVIOUS
<1>1. CASE Exists(name)
  BY <1>1 DEF CreateFile, IndInv, TypeOK, NamesPast, CollisionResolved, confVars,
              fileVars, Exists
<1>2. CASE ~Exists(name)
  BY <1>2, OpenNewInv DEF CreateFile, IndInv, TypeOK, NamesPast
<1> QED
  BY <1>1, <1>2

\* The second attempt always meets a free name: the clock is past every file.
LEMMA CreateRetryInv == IndInv /\ CreateRetry => IndInv'
<1> SUFFICES ASSUME IndInv, CreateRetry PROVE IndInv'
  OBVIOUS
<1>1. clock' \in Nat /\ clock' > clock
  BY LogFileAssumption DEF CreateRetry, ReadClock, IndInv, TypeOK
<1>2. PICK now \in Nat : now = clock'
  BY <1>1
<1>3. ~Exists(now)
  BY <1>1, <1>2 DEF IndInv, NamesPast, TypeOK, Exists
<1>4. OpenNew(now) /\ name' = now /\ UNCHANGED << confVars, entry, written, failed >>
  BY <1>2, <1>3 DEF CreateRetry
<1> QED
  BY <1>1, <1>2, <1>3, <1>4, OpenNewInv DEF IndInv, TypeOK

\* An entry is appended to the open file.
LEMMA WriteInv == IndInv /\ Write => IndInv'
<1> SUFFICES ASSUME IndInv, Write PROVE IndInv'
  OBVIOUS
<1>1. fout \in DOMAIN disk /\ fout \in Nat /\ entry \in Entries
  BY DEF Write, IndInv, TypeOK, Exists
<1>2. /\ DOMAIN disk' = DOMAIN disk
      /\ disk'[fout] = Append(disk[fout], entry)
      /\ \A f \in DOMAIN disk : f # fout => disk'[f] = disk[f]
  BY <1>1 DEF Write
<1>3. \A f \in DOMAIN disk' : disk'[f] \in Seq(Entries)
  <2>1. \A f \in DOMAIN disk : disk[f] \in Seq(Entries)
    BY DEF IndInv, TypeOK
  <2>2. Append(disk[fout], entry) \in Seq(Entries)
    BY <1>1, <2>1
  <2> QED
    BY <1>2, <2>1, <2>2
<1>4. entry.size \in Nat
  BY <1>1 DEF Entries
<1>5. TypeOK'
  BY <1>1, <1>2, <1>3, <1>4 DEF Write, IndInv, TypeOK, Exists, confVars
<1>6. NamesPast' /\ CollisionResolved'
  BY <1>2 DEF Write, IndInv, NamesPast, CollisionResolved
<1> QED
  BY <1>5, <1>6 DEF IndInv

\* Every other step leaves the files alone, and moves the clock only forward.
LEMMA OtherStepsInv ==
  IndInv /\ (CreateError \/ WriteError \/ Again \/ CloseIfIntervalElapsed
             \/ RequestRotation \/ SetMaxLogTime \/ UNCHANGED vars) => IndInv'
<1> SUFFICES ASSUME IndInv PROVE
      (CreateError \/ WriteError \/ Again \/ CloseIfIntervalElapsed
        \/ RequestRotation \/ SetMaxLogTime \/ UNCHANGED vars) => IndInv'
  OBVIOUS
<1> USE DEF IndInv, TypeOK, NamesPast, CollisionResolved, Exists, fileVars, confVars,
            NoFile
<1>1. CreateError \/ WriteError => IndInv'
  <2>1. CreateError \/ WriteError => failed' \in BOOLEAN
    BY Zenon DEF CreateError, WriteError
  <2> QED
    BY <2>1 DEF CreateError, WriteError
<1>2. Again => IndInv'
  BY DEF Again
<1>3. CloseIfIntervalElapsed => IndInv'
  BY LogFileAssumption DEF CloseIfIntervalElapsed, ReadClock
<1>4. RequestRotation => IndInv'
  <2> SUFFICES ASSUME RequestRotation PROVE IndInv'
    OBVIOUS
  <2>1. rotateRequested' \in BOOLEAN
    BY Zenon DEF RequestRotation
  <2> QED
    BY <2>1 DEF RequestRotation
<1>5. SetMaxLogTime => IndInv'
  BY DEF SetMaxLogTime
<1>6. UNCHANGED vars => IndInv'
  BY DEF vars
<1> QED
  BY <1>1, <1>2, <1>3, <1>4, <1>5, <1>6

\* The inductive invariant of the log file: no file and no name about to be used is
\* later than the clock.
THEOREM LogFileInvariance == Spec => []IndInv
<1>1. IndInv /\ [Next]_vars => IndInv'
  BY WriteBeginInv, CreateFileInv, CreateRetryInv, WriteInv, OtherStepsInv
     DEF Next, LogThread, Callbacks
<1> QED
  BY InitInv, <1>1, PTL DEF Spec

\* Types: in particular the log thread never writes without an open file.
THEOREM LogFileTypes == Spec => []TypeOK
<1>1. IndInv => TypeOK
  BY DEF IndInv
<1> QED
  BY <1>1, LogFileInvariance, PTL

\* The second name that writeLog tries is always free.
THEOREM NoNameTakenTwice == Spec => []CollisionResolved
<1>1. IndInv => CollisionResolved
  BY DEF IndInv
<1> QED
  BY <1>1, LogFileInvariance, PTL

\* An append keeps what was there.
LEMMA AppendIsPrefix ==
  ASSUME NEW S, NEW s \in Seq(S), NEW e \in S
  PROVE  IsPrefix(s, Append(s, e))
  BY DEF IsPrefix

\* A file is never emptied or removed: the only file that fopen creates had a free
\* name, and the only one that changes is appended to.
THEOREM NoFileLost == Spec => FilesKept
<1> DEFINE Kept == \A f \in DOMAIN disk :
                     f \in DOMAIN disk' /\ IsPrefix(disk[f], disk'[f])
<1>1. ASSUME NEW S, NEW s \in Seq(S) PROVE IsPrefix(s, s)
  BY DEF IsPrefix
<1>2. IndInv /\ UNCHANGED disk => Kept
  BY <1>1 DEF IndInv, TypeOK
<1>3. ASSUME IndInv, NEW f \in Nat, ~Exists(f), OpenNew(f) PROVE Kept
  <2>1. /\ DOMAIN disk' = DOMAIN disk \cup {f}
        /\ \A g \in DOMAIN disk : disk'[g] = disk[g]
    BY <1>3, OpenNewFacts DEF IndInv
  <2> QED
    BY <1>1, <1>3, <2>1 DEF IndInv, TypeOK
<1>4. IndInv /\ CreateFile => Kept
  BY <1>2, <1>3 DEF CreateFile, IndInv, TypeOK
<1>5. IndInv /\ CreateRetry => Kept
  <2> SUFFICES ASSUME IndInv, CreateRetry PROVE Kept
    OBVIOUS
  <2>1. PICK now \in Nat : now = clock' /\ now > clock
    BY LogFileAssumption DEF CreateRetry, ReadClock, IndInv, TypeOK
  <2>2. ~Exists(now)
    BY <2>1 DEF IndInv, NamesPast, TypeOK, Exists
  <2>3. OpenNew(now)
    BY <2>1, <2>2 DEF CreateRetry
  <2> QED
    BY <1>3, <2>2, <2>3
<1>6. IndInv /\ Write => Kept
  <2> SUFFICES ASSUME IndInv, Write, NEW f \in DOMAIN disk
               PROVE  f \in DOMAIN disk' /\ IsPrefix(disk[f], disk'[f])
    OBVIOUS
  <2>1. fout \in DOMAIN disk /\ entry \in Entries /\ disk[f] \in Seq(Entries)
    BY DEF Write, IndInv, TypeOK, Exists
  <2>2. /\ DOMAIN disk' = DOMAIN disk
        /\ disk'[f] = IF f = fout THEN Append(disk[f], entry) ELSE disk[f]
    BY <2>1 DEF Write
  <2>3. CASE f = fout
    BY <2>1, <2>2, <2>3, AppendIsPrefix
  <2>4. CASE f # fout
    BY <1>1, <2>1, <2>2, <2>4
  <2> QED
    BY <2>2, <2>3, <2>4
<1>7. [Next]_vars /\ ~CreateFile /\ ~CreateRetry /\ ~Write => UNCHANGED disk
  BY DEF Next, LogThread, Callbacks, WriteBegin, CreateError, WriteError, Again,
         CloseIfIntervalElapsed, RequestRotation, SetMaxLogTime, vars
<1>8. IndInv /\ [Next]_vars => Kept
  BY <1>2, <1>4, <1>5, <1>6, <1>7
<1> QED
  BY <1>8, LogFileInvariance, PTL DEF Spec, FilesKept

----------------------------------------------------------------------------
(***************************************************************************)
(* The bytes of a file.                                                    *)
(***************************************************************************)

\* Induction over the natural numbers, for a set: what is not in T would have a least
\* member, and the number before that is in T.
LEMMA NatSetInduction ==
    ASSUME NEW T, 0 \in T, \A n \in Nat : n \in T => n + 1 \in T
    PROVE  Nat \subseteq T
<1> DEFINE R == { p \in Nat \X Nat : p[1] < p[2] }
           Rest == Nat \ T
<1> SUFFICES ASSUME Rest # {} PROVE FALSE
  OBVIOUS
<1>1. IsWellFoundedOn(R, Nat)
  BY NatLessThanWellFounded DEF OpToRel
<1>2. PICK x \in Rest : \A y \in Rest : ~(<< y, x >> \in R)
  <2> HIDE DEF R
  <2> QED BY <1>1, WFMin
<1>3. x \in Nat /\ x # 0
  OBVIOUS
<1>4. PICK y \in Nat : x = y + 1
  <2>1. x - 1 \in Nat /\ x = (x - 1) + 1
    BY <1>3
  <2> QED BY <2>1
<1>5. << y, x >> \in R
  BY <1>3, <1>4
<1>6. y \in T
  BY <1>2, <1>5
<1> QED
  BY <1>3, <1>4, <1>6

\* g adds up the sizes of the first k entries of s.
Adds(g, s, k) ==
    /\ g \in [ 0 .. k -> Nat ] /\ g[0] = 0
    /\ \A n \in 1 .. k : g[n] = g[n - 1] + s[n].size

\* There is such a function for every prefix of a file.
LEMMA SumExists ==
    ASSUME NEW s \in Seq(Entries)
    PROVE  \E g : Adds(g, s, Len(s))
<1> DEFINE T == { k \in Nat : k <= Len(s) => \E g : Adds(g, s, k) }
<1>1. 0 \in T
  <2> DEFINE z == [ n \in 0 .. 0 |-> 0 ]
  <2>1. Adds(z, s, 0)
    BY DEF Adds
  <2> QED
    BY <2>1
<1>2. ASSUME NEW k \in Nat, k \in T, k + 1 <= Len(s)
      PROVE  \E g : Adds(g, s, k + 1)
  <2>1. PICK g : Adds(g, s, k)
    BY <1>2
  <2>2. s[k + 1] \in Entries
    BY <1>2
  <2>3. s[k + 1].size \in Nat
    BY <2>2 DEF Entries
  <2> DEFINE h == [ n \in 0 .. k + 1 |-> IF n <= k THEN g[n] ELSE g[k] + s[k + 1].size ]
  <2>4. h \in [ 0 .. k + 1 -> Nat ] /\ h[0] = 0
    BY <2>1, <2>3 DEF Adds
  <2>5. ASSUME NEW n \in 1 .. k + 1 PROVE h[n] = h[n - 1] + s[n].size
    <3>1. CASE n <= k
      BY <2>1, <3>1 DEF Adds
    <3>2. CASE n = k + 1
      BY <3>2
    <3> QED
      BY <3>1, <3>2
  <2> HIDE DEF h
  <2> QED
    BY <2>4, <2>5 DEF Adds
<1>3. Nat \subseteq T
  <2>1. \A k \in Nat : k \in T => k + 1 \in T
    BY <1>2
  <2> HIDE DEF T
  <2> QED
    BY <1>1, <2>1, NatSetInduction
<1> QED
  BY <1>3

\* Two such functions agree where both are defined.
LEMMA SumUnique ==
    ASSUME NEW s \in Seq(Entries), NEW g, NEW h, NEW m \in Nat, NEW l \in Nat, m <= l,
           Adds(g, s, m), Adds(h, s, l)
    PROVE  g[m] = h[m]
<1> DEFINE T == { k \in Nat : k <= m => g[k] = h[k] }
<1>1. 0 \in T
  BY DEF Adds
<1>2. ASSUME NEW k \in Nat, k \in T PROVE k + 1 \in T
  <2> SUFFICES ASSUME k + 1 <= m PROVE g[k + 1] = h[k + 1]
    OBVIOUS
  <2>1. /\ g[k + 1] = g[(k + 1) - 1] + s[k + 1].size
        /\ h[k + 1] = h[(k + 1) - 1] + s[k + 1].size
    BY DEF Adds
  <2>2. g[k] = h[k] /\ (k + 1) - 1 = k
    BY <1>2
  <2> QED
    BY <2>1, <2>2
<1>3. Nat \subseteq T
  <2> HIDE DEF T
  <2> QED
    BY <1>1, <1>2, NatSetInduction
<1> QED
  BY <1>3

\* The recursive function in Bytes is such a function.
LEMMA BytesAdds ==
    ASSUME NEW s \in Seq(Entries), NEW g, Adds(g, s, Len(s))
    PROVE  Bytes(s) = g[Len(s)]
<1> DEFINE IsSum(f) == f = [ n \in 0 .. Len(s) |-> IF n = 0 THEN 0 ELSE f[n - 1] + s[n].size ]
<1>1. IsSum(g)
  BY DEF Adds
<1> DEFINE c == CHOOSE f : IsSum(f)
<1>2. IsSum(c)
  BY <1>1
<1>3. Bytes(s) = c[Len(s)]
  BY DEF Bytes
<1> DEFINE T == { k \in Nat : k <= Len(s) => g[k] = c[k] }
<1> HIDE DEF c
<1>4. 0 \in T
  BY <1>1, <1>2
<1>5. ASSUME NEW k \in Nat, k \in T PROVE k + 1 \in T
  <2> SUFFICES ASSUME k + 1 <= Len(s) PROVE g[k + 1] = c[k + 1]
    OBVIOUS
  <2>1. /\ g[k + 1] = g[k] + s[k + 1].size
        /\ c[k + 1] = c[k] + s[k + 1].size
    BY <1>1, <1>2
  <2> QED
    BY <1>5, <2>1
<1>6. Nat \subseteq T
  <2> HIDE DEF T
  <2> QED
    BY <1>4, <1>5, NatSetInduction
<1> QED
  BY <1>3, <1>6

\* An empty file has no bytes.
LEMMA BytesEmpty == Bytes(<< >>) = 0
<1> DEFINE z == [ n \in 0 .. 0 |-> 0 ]
<1>1. Adds(z, << >>, 0)
  BY DEF Adds
<1>2. << >> \in Seq(Entries) /\ Len(<< >>) = 0
  OBVIOUS
<1>3. Bytes(<< >>) = z[0]
  BY <1>1, <1>2, BytesAdds
<1> QED
  BY <1>3

\* An entry adds its size.
LEMMA BytesAppend ==
    ASSUME NEW s \in Seq(Entries), NEW e \in Entries
    PROVE  Bytes(Append(s, e)) = Bytes(s) + e.size
<1> DEFINE t == Append(s, e)
<1>1. /\ t \in Seq(Entries) /\ Len(t) = Len(s) + 1 /\ t[Len(s) + 1] = e
      /\ \A n \in 1 .. Len(s) : t[n] = s[n]
  OBVIOUS
<1> HIDE DEF t
<1>2. PICK h : Adds(h, t, Len(t))
  BY <1>1, SumExists
<1>3. PICK g : Adds(g, s, Len(s))
  BY SumExists
<1>4. Adds(g, t, Len(s))
  BY <1>1, <1>3 DEF Adds
<1>5. g[Len(s)] = h[Len(s)]
  <2>1. Len(s) \in Nat /\ Len(t) \in Nat /\ Len(s) <= Len(t) /\ t \in Seq(Entries)
    BY <1>1
  <2> QED
    <3>1. ASSUME NEW m \in Nat, NEW l \in Nat, m <= l, Adds(g, t, m), Adds(h, t, l)
          PROVE  g[m] = h[m]
      BY <2>1, <3>1, SumUnique
    <3> QED
      BY <1>2, <1>4, <2>1, <3>1
<1>6. h[Len(s) + 1] = h[Len(s)] + e.size
  BY <1>1, <1>2 DEF Adds
<1>7. Bytes(t) = h[Len(s) + 1] /\ Bytes(s) = g[Len(s)]
  BY <1>1, <1>2, <1>3, BytesAdds
<1> QED
  BY <1>5, <1>6, <1>7 DEF t

----------------------------------------------------------------------------
(***************************************************************************)
(* How the entries are split into files.                                   *)
(***************************************************************************)

\* The open file is named after m_currFileStartSec.  An entry about to be written
\* belongs in the open file, one that waits for a new file in the file of the
\* name it has, or in any that is named later than the entry was begun.
IntervalInv ==
    /\ IntervalsSeparate
    /\ fout # NoFile => currFileStart = fout
    /\ pc = "write" => NotLater(entry, fout)
    /\ pc = "create" => NotLater(entry, name)
    /\ pc \in { "create", "retry" } => entry.at <= clock

\* As long as nothing has failed: while no request is waiting, the entries of the
\* open file were begun after the last request, and so was the one being written.
EpochInv ==
    ~failed =>
        /\ RequestsSeparate /\ pc # "failed"
        /\ pc = "idle" /\ fout # NoFile /\ ~rotateRequested =>
              \A i \in 1 .. Len(disk[fout]) : disk[fout][i].epoch = requests
        /\ pc = "write" =>
              \A i \in 1 .. Len(disk[fout]) : disk[fout][i].epoch = entry.epoch
        /\ pc \in { "create", "retry", "write" } /\ ~rotateRequested =>
              entry.epoch = requests

\* Nothing in the open file, nor the entry under way, was begun after the last
\* request, and nothing of it after a request that is still waiting.
BegunBefore(e) == e.epoch <= requests /\ (rotateRequested => e.epoch < requests)
CauseInv ==
    /\ LeftForCause
    /\ fout # NoFile => \A i \in 1 .. Len(disk[fout]) : BegunBefore(disk[fout][i])
    /\ pc \in { "create", "retry", "write" } => BegunBefore(entry)

\* m_currFileSize is the size of the open file, and an entry that does not fit in
\* it is written to an empty one.
SizeInv ==
    /\ SizeBackstop
    /\ fout # NoFile => currFileSize = Bytes(disk[fout])
    /\ pc = "write" => \/ disk[fout] = << >>
                       \/ currFileSize + entry.size <= MaxLogSize

SplitInv == IntervalInv /\ EpochInv /\ CauseInv /\ SizeInv

\* Division is monotone.
LEMMA DivMonotone ==
  ASSUME NEW a \in Nat, NEW b \in Nat, NEW p \in Nat \ {0}, a <= b
  PROVE  a \div p \in Nat /\ b \div p \in Nat /\ a \div p <= b \div p
<1> DEFINE q == a \div p
           r == b \div p
<1>1. /\ q \in Nat /\ r \in Nat
      /\ q * p <= a /\ b < r * p + p
  BY SMT
<1> HIDE DEF q, r
<1>2. SUFFICES ASSUME r + 1 <= q PROVE FALSE
  BY <1>1 DEF q, r
<1>3. (r + 1) * p <= q * p
  BY <1>1, <1>2, SMT
<1>4. (r + 1) * p = r * p + p
  BY <1>1, SMT
<1> QED
  BY <1>1, <1>3, <1>4, SMT

\* Opening a file leaves the others alone and adds an empty one.
LEMMA SplitOpenNew ==
  ASSUME IndInv, SplitInv, NEW f \in Nat, ~Exists(f), OpenNew(f), NotLater(entry, f),
         pc \in { "create", "retry" }, UNCHANGED << confVars, entry, failed >>
  PROVE  SplitInv'
<1>1. /\ DOMAIN disk' = DOMAIN disk \cup {f}
      /\ \A g \in DOMAIN disk : disk'[g] = disk[g]
      /\ disk'[f] = << >> /\ Len(disk'[f]) = 0
      /\ fout' = f /\ currFileSize' = 0 /\ currFileStart' = f /\ pc' = "write"
  <2>1. Len(<< >>) = 0
    OBVIOUS
  <2> QED
    BY <2>1, OpenNewFacts, Zenon DEF IndInv
<1>2. UNCHANGED << rotateRequested, requests, entry, failed >>
  BY DEF confVars
<1>3. IntervalInv'
  BY <1>1, <1>2 DEF SplitInv, IntervalInv, IntervalsSeparate, NotLater
<1>4. EpochInv'
  BY <1>1, <1>2 DEF SplitInv, EpochInv, RequestsSeparate
<1>5. CauseInv'
  BY <1>1, <1>2 DEF SplitInv, CauseInv, LeftForCause, BegunBefore
<1>6. SizeInv'
  <2>1. Bytes(disk'[f]) = 0 /\ 0 <= MaxLogSize
    BY <1>1, BytesEmpty, LogFileAssumption
  <2>2. SizeBackstop'
    <3> SUFFICES ASSUME NEW g \in DOMAIN disk', Bytes(disk'[g]) > MaxLogSize
                 PROVE  Len(disk'[g]) = 1
      BY DEF SizeBackstop
    <3>1. CASE g = f
      BY <2>1, <3>1, LogFileAssumption
    <3>2. CASE g # f
      BY <1>1, <3>2 DEF SplitInv, SizeInv, SizeBackstop
    <3> QED
      BY <3>1, <3>2
  <2> QED
    BY <1>1, <2>1, <2>2 DEF SizeInv
<1> QED
  BY <1>3, <1>4, <1>5, <1>6 DEF SplitInv

\* The decision of writeLog: an entry stays in the open file only if it belongs there.
LEMMA SplitWriteBegin == IndInv /\ SplitInv /\ WriteBegin => SplitInv'
<1> SUFFICES ASSUME IndInv, SplitInv, WriteBegin PROVE SplitInv'
  OBVIOUS
<1>1. PICK now \in Nat : now = clock' /\ now > clock
  BY LogFileAssumption DEF WriteBegin, ReadClock, IndInv, TypeOK
<1>2. PICK ts \in 0 .. now + MaxAhead, n \in Sizes :
        /\ entry' = [ ts |-> ts, size |-> n, at |-> now,
                      period |-> maxLogTime, epoch |-> requests ]
        /\ IF fout = NoFile \/ rotateRequested \/ NewInterval(ts, now) \/ ~Fits(n)
             THEN pc' = "create" /\ name' = NameFor(ts, now)
             ELSE pc' = "write" /\ UNCHANGED name
  BY <1>1 DEF WriteBegin
<1>3. ts \in Nat /\ n \in Nat /\ maxLogTime \in Nat
  BY <1>1, LogFileAssumption DEF IndInv, TypeOK
<1>4. UNCHANGED << fout, currFileSize, currFileStart, requests, disk, failed >>
  BY DEF WriteBegin, fileVars
<1>5. /\ entry'.ts = ts /\ entry'.at = now /\ entry'.period = maxLogTime
      /\ entry'.size = n /\ entry'.epoch = requests
  BY <1>2
<1>6. maxLogTime # 0 =>
        /\ ts \div maxLogTime \in Nat /\ now \div maxLogTime \in Nat
        /\ currFileStart \div maxLogTime \in Nat
  <2> SUFFICES ASSUME maxLogTime # 0
               PROVE  /\ ts \div maxLogTime \in Nat /\ now \div maxLogTime \in Nat
                      /\ currFileStart \div maxLogTime \in Nat
    OBVIOUS
  <2>1. maxLogTime \in Nat \ {0} /\ currFileStart \in Nat
    BY <1>3 DEF IndInv, TypeOK
  <2>2. ts <= ts /\ now <= now /\ currFileStart <= currFileStart
    BY <1>3, <2>1
  <2> QED
    BY <1>3, <2>1, <2>2, DivMonotone
<1>7. IntervalInv'
  <2>1. CASE pc' = "create"
    <3>1. NotLater(entry', NameFor(ts, now))
      BY <1>3, <1>5, <1>6 DEF NotLater, NameFor
    <3>2. name' = NameFor(ts, now)
      BY <1>2, <2>1
    <3>3. NotLater(entry', name')
      BY <3>1, <3>2
    <3> QED
      BY <1>1, <1>4, <1>5, <2>1, <3>3 DEF SplitInv, IntervalInv, IntervalsSeparate, NotLater
  <2>2. CASE pc' = "write"
    <3>1. fout # NoFile /\ ~NewInterval(ts, now)
      BY <1>2, <2>2
    <3>2. NotLater(entry', fout)
      BY <1>5, <1>6, <3>1 DEF NotLater, NewInterval, SplitInv, IntervalInv
    <3> QED
      BY <1>1, <1>4, <1>5, <2>2, <3>2 DEF SplitInv, IntervalInv, IntervalsSeparate, NotLater
  <2> QED
    BY <1>2, <2>1, <2>2
<1>8. EpochInv'
  <2> SUFFICES ASSUME ~failed' PROVE EpochInv'
    BY DEF EpochInv
  <2>1. ~failed /\ pc = "idle" /\ pc' \in { "create", "write" }
    BY <1>2, <1>4 DEF WriteBegin, TakeRequest
  <2>2. pc' = "write" => fout # NoFile /\ ~rotateRequested
    BY <1>2
  <2>3. RequestsSeparate'
    BY <1>4, <2>1 DEF SplitInv, EpochInv, RequestsSeparate
  <2>4. pc' = "write" => \A i \in 1 .. Len(disk'[fout']) : disk'[fout'][i].epoch = entry'.epoch
    BY <1>4, <1>5, <2>1, <2>2 DEF SplitInv, EpochInv
  <2> QED
    BY <1>4, <1>5, <2>1, <2>3, <2>4 DEF EpochInv
<1>9. SizeInv'
  <2>1. pc' = "write" => fout # NoFile /\ Fits(n)
    BY <1>2
  <2> QED
    BY <1>4, <1>5, <2>1 DEF SplitInv, SizeInv, SizeBackstop, Fits
<1>10. CauseInv'
  <2>1. ~rotateRequested' /\ requests \in Nat
    BY DEF WriteBegin, TakeRequest, IndInv, TypeOK
  <2>2. fout # NoFile => \A i \in 1 .. Len(disk[fout]) : BegunBefore(disk[fout][i])
    BY DEF SplitInv, CauseInv
  <2>3. ASSUME fout # NoFile, NEW i \in 1 .. Len(disk[fout])
        PROVE  disk[fout][i].epoch \in Nat
    <3>1. disk[fout] \in Seq(Entries)
      BY <2>3 DEF IndInv, TypeOK, Exists
    <3>2. disk[fout][i] \in Entries
      BY <2>3, <3>1
    <3> QED
      BY <3>2 DEF Entries
  <2>4. LeftForCause'
    <3> SUFFICES ASSUME pc' = "create", fout # NoFile
                 PROVE  \/ ~Fits(n)
                        \/ ~NotLater(entry', fout)
                        \/ \A i \in 1 .. Len(disk[fout]) : disk[fout][i].epoch # requests
      BY <1>2, <1>4, <1>5 DEF LeftForCause, Fits, NotLater
    <3>1. rotateRequested \/ NewInterval(ts, now) \/ ~Fits(n)
      BY <1>2
    <3>2. CASE rotateRequested
      BY <2>1, <2>2, <2>3, <3>2 DEF BegunBefore
    <3>3. CASE NewInterval(ts, now)
      <4>1. currFileStart = fout
        BY DEF SplitInv, IntervalInv
      <4> QED
        BY <1>5, <1>6, <3>3, <4>1 DEF NewInterval, NotLater
    <3> QED
      BY <3>1, <3>2, <3>3
  <2> QED
    BY <1>4, <1>5, <2>1, <2>2, <2>4 DEF CauseInv, BegunBefore
<1> QED
  BY <1>7, <1>8, <1>9, <1>10 DEF SplitInv

LEMMA SplitCreateFile == IndInv /\ SplitInv /\ CreateFile => SplitInv'
<1> SUFFICES ASSUME IndInv, SplitInv, CreateFile PROVE SplitInv'
  OBVIOUS
<1>1. CASE Exists(name)
  <2>1. /\ UNCHANGED << fout, currFileSize, currFileStart, disk, rotateRequested, requests,
                        entry, clock, failed >>
        /\ pc = "create" /\ pc' = "retry"
    BY <1>1 DEF CreateFile, fileVars, confVars
  <2>2. IntervalInv'
    BY <2>1 DEF SplitInv, IntervalInv, IntervalsSeparate, NotLater
  <2>3. EpochInv'
    BY <2>1 DEF SplitInv, EpochInv, RequestsSeparate
  <2>4. CauseInv'
    BY <2>1 DEF SplitInv, CauseInv, LeftForCause, BegunBefore, Fits, NotLater
  <2>5. SizeInv'
    BY <2>1 DEF SplitInv, SizeInv, SizeBackstop
  <2> QED
    BY <2>2, <2>3, <2>4, <2>5 DEF SplitInv
<1>2. CASE ~Exists(name)
  BY <1>2, SplitOpenNew DEF CreateFile, IndInv, TypeOK, SplitInv, IntervalInv
<1> QED
  BY <1>1, <1>2

\* The second name is later than the entry, so that the entry belongs there too.
LEMMA SplitCreateRetry == IndInv /\ SplitInv /\ CreateRetry => SplitInv'
<1> SUFFICES ASSUME IndInv, SplitInv, CreateRetry PROVE SplitInv'
  OBVIOUS
<1>1. PICK now \in Nat : now = clock' /\ now > clock
  BY LogFileAssumption DEF CreateRetry, ReadClock, IndInv, TypeOK
<1>2. ~Exists(now)
  BY <1>1 DEF IndInv, NamesPast, TypeOK, Exists
<1>3. OpenNew(now) /\ pc = "retry" /\ UNCHANGED << confVars, entry, failed >>
  BY <1>1, <1>2 DEF CreateRetry
<1>4. /\ entry.ts \in Nat /\ entry.at \in Nat /\ entry.period \in Nat /\ clock \in Nat
      /\ entry.at <= clock
  BY <1>3 DEF IndInv, TypeOK, Entries, SplitInv, IntervalInv
<1>5. NotLater(entry, now)
  <2> SUFFICES ASSUME entry.period # 0
               PROVE  \/ entry.ts \div entry.period <= now \div entry.period
                      \/ entry.ts \div entry.period > entry.at \div entry.period
    BY DEF NotLater
  <2>1. /\ entry.at \div entry.period \in Nat /\ now \div entry.period \in Nat
        /\ entry.at \div entry.period <= now \div entry.period
    <3>1. entry.period \in Nat \ {0} /\ entry.at <= now
      BY <1>1, <1>4
    <3> QED
      BY <1>4, <3>1, DivMonotone
  <2>2. entry.ts \div entry.period \in Nat
    BY <1>4, DivMonotone
  <2> QED
    BY <2>1, <2>2
<1> QED
  BY <1>2, <1>3, <1>5, SplitOpenNew

\* The entry is appended to the open file.
LEMMA SplitWrite == IndInv /\ SplitInv /\ Write => SplitInv'
<1> SUFFICES ASSUME IndInv, SplitInv, Write PROVE SplitInv'
  OBVIOUS
<1>1. /\ fout \in DOMAIN disk /\ fout # NoFile /\ entry \in Entries
      /\ disk[fout] \in Seq(Entries) /\ pc = "write"
  BY DEF Write, IndInv, TypeOK, Exists
<1>2. /\ DOMAIN disk' = DOMAIN disk
      /\ disk'[fout] = Append(disk[fout], entry)
      /\ \A f \in DOMAIN disk : f # fout => disk'[f] = disk[f]
  BY <1>1 DEF Write
<1>3. /\ UNCHANGED << fout, currFileStart, rotateRequested, requests, entry, failed >>
      /\ currFileSize' = currFileSize + entry.size /\ pc' = "idle"
  BY DEF Write, confVars
<1>4. /\ Len(disk'[fout]) = Len(disk[fout]) + 1 /\ Len(disk[fout]) \in Nat
      /\ \A i \in 1 .. Len(disk[fout]) : disk'[fout][i] = disk[fout][i]
      /\ disk'[fout][Len(disk[fout]) + 1] = entry
  BY <1>1, <1>2
<1>5. \A i \in 1 .. Len(disk'[fout]) :
         disk'[fout][i] = entry \/ (i \in 1 .. Len(disk[fout]) /\ disk'[fout][i] = disk[fout][i])
  BY <1>4
<1>6. IntervalInv'
  <2>1. ASSUME NEW f \in DOMAIN disk, NEW i \in 1 .. Len(disk'[f])
        PROVE  NotLater(disk'[f][i], f)
    <3>1. CASE f = fout
      BY <1>1, <1>5, <3>1 DEF SplitInv, IntervalInv, IntervalsSeparate
    <3>2. CASE f # fout
      BY <1>2, <3>2 DEF SplitInv, IntervalInv, IntervalsSeparate
    <3> QED
      BY <3>1, <3>2
  <2>2. IntervalsSeparate'
    BY <1>2, <2>1 DEF IntervalsSeparate, NotLater
  <2> QED
    BY <1>3, <2>2 DEF SplitInv, IntervalInv
<1>7. EpochInv'
  <2> SUFFICES ASSUME ~failed' PROVE EpochInv'
    BY DEF EpochInv
  <2>1. ~failed
    BY <1>3
  <2>2. \A i \in 1 .. Len(disk'[fout]) : disk'[fout][i].epoch = entry.epoch
    BY <1>1, <1>5, <2>1 DEF SplitInv, EpochInv
  <2>3. RequestsSeparate'
    <3> SUFFICES ASSUME NEW f \in DOMAIN disk, NEW i \in 1 .. Len(disk'[f]),
                        NEW j \in 1 .. Len(disk'[f])
                 PROVE  disk'[f][i].epoch = disk'[f][j].epoch
      BY <1>2 DEF RequestsSeparate
    <3>1. CASE f = fout
      BY <2>2, <3>1
    <3>2. CASE f # fout
      BY <1>2, <2>1, <3>2 DEF SplitInv, EpochInv, RequestsSeparate
    <3> QED
      BY <3>1, <3>2
  <2>4. ~rotateRequested => entry.epoch = requests
    BY <1>1, <2>1 DEF SplitInv, EpochInv
  <2> QED
    BY <1>3, <2>2, <2>3, <2>4 DEF EpochInv
<1>8. SizeInv'
  <2>1. Bytes(disk'[fout]) = currFileSize + entry.size
    BY <1>1, <1>2, BytesAppend DEF SplitInv, SizeInv
  <2>2. SizeBackstop'
    <3> SUFFICES ASSUME NEW f \in DOMAIN disk, Bytes(disk'[f]) > MaxLogSize
                 PROVE  Len(disk'[f]) = 1
      BY <1>2 DEF SizeBackstop
    <3>1. CASE f = fout
      <4>1. disk[fout] = << >>
        <5>1. currFileSize + entry.size \in Nat
          BY <1>1 DEF IndInv, TypeOK, Entries
        <5> QED
          BY <1>1, <2>1, <3>1, <5>1, LogFileAssumption DEF SplitInv, SizeInv
      <4> QED
        BY <1>4, <3>1, <4>1
    <3>2. CASE f # fout
      BY <1>2, <3>2 DEF SplitInv, SizeInv, SizeBackstop
    <3> QED
      BY <3>1, <3>2
  <2> QED
    BY <1>3, <2>1, <2>2 DEF SizeInv
<1>9. CauseInv'
  BY <1>1, <1>3, <1>5 DEF SplitInv, CauseInv, LeftForCause, BegunBefore
<1> QED
  BY <1>6, <1>7, <1>8, <1>9 DEF SplitInv

\* The steps that leave the files alone; a request only ever adds to the waiting one.
LEMMA SplitOther ==
  IndInv /\ SplitInv
    /\ (CreateError \/ WriteError \/ Again \/ CloseIfIntervalElapsed
        \/ RequestRotation \/ SetMaxLogTime \/ UNCHANGED vars) => SplitInv'
<1> SUFFICES ASSUME IndInv, SplitInv,
                    CreateError \/ WriteError \/ Again \/ CloseIfIntervalElapsed
                      \/ RequestRotation \/ SetMaxLogTime \/ UNCHANGED vars
             PROVE  SplitInv'
  OBVIOUS
<1> USE DEF CreateError, WriteError, Again, CloseIfIntervalElapsed, RequestRotation,
            SetMaxLogTime, vars, fileVars, confVars
<1>1. /\ UNCHANGED << disk, currFileSize, currFileStart, entry, name >>
      /\ fout' \in { fout, NoFile } /\ (pc' = "write" => fout' = fout)
      /\ pc' \in { pc, "failed" } \/ (pc = "failed" /\ pc' = "idle")
  <2>1. pc = "failed" => pc # "write"
    OBVIOUS
  <2> QED
    BY DEF NoFile
<1>2. clock' >= clock /\ clock \in Nat /\ clock' \in Nat
  BY LogFileAssumption DEF ReadClock, IndInv, TypeOK
<1>3. entry.at \in Nat
  BY DEF IndInv, TypeOK, Entries
<1>4. IntervalInv'
  BY <1>1, <1>2, <1>3 DEF SplitInv, IntervalInv, IntervalsSeparate, NotLater
<1>5. EpochInv'
  <2>1. CASE CreateError \/ WriteError
    BY <2>1 DEF EpochInv
  <2>2. CASE Again
    BY <2>2 DEF SplitInv, EpochInv
  <2>3. CASE CloseIfIntervalElapsed \/ SetMaxLogTime \/ UNCHANGED vars
    <3>1. UNCHANGED << rotateRequested, requests, failed, pc >>
      BY <2>3
    <3> QED
      BY <1>1, <3>1 DEF SplitInv, EpochInv, RequestsSeparate
  <2>4. CASE RequestRotation
    <3>1. rotateRequested' /\ UNCHANGED << failed, pc, fout >>
      BY <2>4
    <3> QED
      BY <1>1, <3>1 DEF SplitInv, EpochInv, RequestsSeparate
  <2> QED
    BY <2>1, <2>2, <2>3, <2>4
<1>6. CauseInv'
  <2>1. /\ requests \in Nat
        /\ fout' # NoFile => fout' = fout
        /\ pc' \in { "create", "retry", "write" } => pc' = pc
    BY <1>1 DEF IndInv, TypeOK
  <2>2. LeftForCause'
    BY <1>1, <2>1 DEF SplitInv, CauseInv, LeftForCause, Fits, NotLater
  <2>3. CASE RequestRotation
    <3>1. requests' = requests + 1 /\ rotateRequested'
      BY <2>3
    <3>2. entry.epoch \in Nat
      BY DEF IndInv, TypeOK, Entries
    <3>3. ASSUME fout # NoFile, NEW i \in 1 .. Len(disk[fout])
          PROVE  disk[fout][i].epoch \in Nat
      <4>1. disk[fout] \in Seq(Entries)
        BY <3>3 DEF IndInv, TypeOK, Exists
      <4>2. disk[fout][i] \in Entries
        BY <3>3, <4>1
      <4> QED
        BY <4>2 DEF Entries
    <3>4. /\ fout # NoFile => \A i \in 1 .. Len(disk[fout]) : disk[fout][i].epoch <= requests
          /\ pc \in { "create", "retry", "write" } => entry.epoch <= requests
      BY DEF SplitInv, CauseInv, BegunBefore
    <3>5. fout' # NoFile => \A i \in 1 .. Len(disk'[fout']) : BegunBefore(disk[fout][i])'
      BY <1>1, <2>1, <3>1, <3>3, <3>4 DEF BegunBefore
    <3>6. pc' \in { "create", "retry", "write" } => BegunBefore(entry)'
      BY <1>1, <2>1, <3>1, <3>2, <3>4 DEF BegunBefore
    <3> QED
      BY <1>1, <2>1, <2>2, <3>5, <3>6 DEF CauseInv
  <2>4. CASE ~RequestRotation
    <3>1. UNCHANGED << rotateRequested, requests >>
      BY <2>4
    <3> QED
      BY <1>1, <2>1, <2>2, <3>1 DEF SplitInv, CauseInv, BegunBefore
  <2> QED
    BY <2>3, <2>4
<1>7. SizeInv'
  BY <1>1 DEF SplitInv, SizeInv, SizeBackstop
<1> QED
  BY <1>4, <1>5, <1>6, <1>7 DEF SplitInv

\* The files are split where they must be: the invariant that says so is inductive.
THEOREM SplitInvariance == Spec => []SplitInv
<1>1. Init => SplitInv
  <2> SUFFICES ASSUME Init PROVE SplitInv
    OBVIOUS
  <2>1. DOMAIN disk = {}
    BY DEF Init
  <2> QED
    BY <2>1 DEF Init, SplitInv, IntervalInv, EpochInv, CauseInv, SizeInv, IntervalsSeparate,
                RequestsSeparate, LeftForCause, SizeBackstop, NoFile
<1>2. IndInv /\ SplitInv /\ [Next]_vars => SplitInv'
  BY SplitWriteBegin, SplitCreateFile, SplitCreateRetry, SplitWrite, SplitOther
     DEF Next, LogThread, Callbacks
<1> QED
  BY <1>1, <1>2, LogFileInvariance, PTL DEF Spec

\* No file is larger than m_maxLogSize unless a single entry is.
THEOREM SizeIsLimited == Spec => []SizeBackstop
<1>1. SplitInv => SizeBackstop
  BY DEF SplitInv, SizeInv
<1> QED
  BY <1>1, SplitInvariance, PTL

\* A rotation request is neither lost nor applied twice, whenever the callback runs: it
\* separates the entries, and no file is left without a cause.
THEOREM RequestsHonoured == Spec => []RotationSeparates
<1>1. SplitInv => RotationSeparates
  BY DEF SplitInv, EpochInv, CauseInv, RotationSeparates, RequestsSeparate
<1> QED
  BY <1>1, SplitInvariance, PTL

\* No file holds an entry of a later interval, for any interval and changes of it.
THEOREM IntervalsHonoured == Spec => []IntervalsSeparate
<1>1. SplitInv => IntervalsSeparate
  BY DEF SplitInv, IntervalInv
<1> QED
  BY <1>1, SplitInvariance, PTL

----------------------------------------------------------------------------
(***************************************************************************)
(* The log manager, for any number of threads and of entries.              *)
(***************************************************************************)

\* How many entries at the head of the list are in the file already.
Overlap == IF HeadWritten THEN 1 ELSE 0

\* The file holds the entries in order, and the list goes on where the file ends, but
\* for the entry that is written and not yet erased.
Numbered ==
    /\ \A i \in 1 .. Len(stored) : stored[i] = i
    /\ \A j \in 1 .. Len(logQueue) : logQueue[j] = Len(stored) - Overlap + j
    /\ Len(stored) - Overlap + Len(logQueue) = logged

\* The iterator points to the head of the list, or to the entry after the one being
\* erased, although others push meanwhile.
IteratorValid ==
    /\ logPc = "write" => logQueue # << >> /\ it = logQueue[1]
    /\ logPc \in { "lock", "erase" } /\ it # 0 => Len(logQueue) > 1 /\ it = logQueue[2]

\* Once the destructor runs nobody else logs, and when the second run over the list
\* has ended nothing is left of it, unless a write failed.
DestructorAlone ==
    /\ signalled = "handling" => interrupted # "none"
    /\ destructor # "no" => qMutex \in { "none", "log" } /\ signalled # "handling"
    /\ destructor = "draining" /\ logPc = "ended" => logQueue = << >> \/ drainFailed
    /\ destructor = "done" => logPc = "ended" /\ (logQueue = << >> \/ drainFailed)

ManagerInv == ManagerTypeOK /\ Numbered /\ IteratorValid /\ DestructorAlone

\* ManagerInit establishes the invariant.
LEMMA ManagerInitInv == ManagerInit => ManagerInv
<1> SUFFICES ASSUME ManagerInit PROVE ManagerInv
  OBVIOUS
<1>1. /\ logShutdown \in BOOLEAN /\ logThreadRunning \in BOOLEAN /\ drainFailed \in BOOLEAN
  BY Zenon DEF ManagerInit
<1> QED
  BY <1>1 DEF ManagerInit, ManagerInv, ManagerTypeOK, Numbered, IteratorValid,
              DestructorAlone, Overlap, HeadWritten, LogLabels, Threads

\* What a push does to the list.
LEMMA PushFacts ==
  ASSUME ManagerInv, Push
  PROVE  /\ logQueue' \in Seq(Nat) /\ logged' \in Nat /\ logged' = logged + 1
         /\ Len(logQueue') = Len(logQueue) + 1 /\ logQueue' # << >>
         /\ \A j \in 1 .. Len(logQueue) : logQueue'[j] = logQueue[j]
         /\ logQueue'[Len(logQueue) + 1] = logged + 1
  BY DEF Push, ManagerInv, ManagerTypeOK

\* A push keeps the numbering and does not disturb the iterator.
LEMMA PushInv ==
  ASSUME ManagerInv, Push, UNCHANGED << stored, it >>, Overlap' = Overlap,
         logPc' = logPc \/ (logPc = "message" /\ logPc' = "advance")
  PROVE  Numbered' /\ IteratorValid'
<1>1. /\ logged' = logged + 1 /\ Len(logQueue') = Len(logQueue) + 1
      /\ \A j \in 1 .. Len(logQueue) : logQueue'[j] = logQueue[j]
      /\ logQueue'[Len(logQueue) + 1] = logged + 1 /\ logQueue' # << >>
  BY PushFacts
<1>2. /\ Len(logQueue) \in Nat /\ Len(stored) \in Nat /\ Overlap \in Int /\ logged \in Nat
      /\ (logQueue # << >> => Len(logQueue) > 0)
  BY DEF ManagerInv, ManagerTypeOK, Overlap
<1>3. Numbered'
  BY <1>1, <1>2 DEF ManagerInv, Numbered
<1>4. IteratorValid'
  BY <1>1, <1>2 DEF ManagerInv, IteratorValid
<1> QED
  BY <1>3, <1>4

\* log(), on any thread that is not the log thread.
LEMMA ProducerInv ==
  ASSUME ManagerInv, NEW p \in Producers, Producer(p)
  PROVE  ManagerInv'
<1>0. p # "none" /\ p # "log"
  BY LogManagerAssumption
<1>1. CASE LogLock(p)
  BY <1>0, <1>1 DEF LogLock, ManagerInv, ManagerTypeOK, Numbered, IteratorValid,
         DestructorAlone, Overlap, HeadWritten, Threads, threadVars, historyVars, signalVars
<1>2. CASE LogPush(p)
  <2>1. /\ UNCHANGED << logThreadRunning, logPc, it, stored, drainFailed, flushed, batch,
                        interrupted, signalled, logShutdown, destructor >>
        /\ Push /\ qMutex = p /\ qMutex' = "none"
    BY <1>2 DEF LogPush, threadVars, historyVars, signalVars
  <2>2. Numbered' /\ IteratorValid'
    BY <2>1, PushInv DEF Overlap, HeadWritten
  <2>3. ManagerTypeOK'
    BY <2>1, PushFacts DEF ManagerInv, ManagerTypeOK, HeadWritten
  <2>4. destructor = "no"
    BY <1>0, <2>1 DEF ManagerInv, ManagerTypeOK, DestructorAlone
  <2>5. DestructorAlone'
    BY <2>1, <2>4 DEF ManagerInv, DestructorAlone
  <2> QED
    BY <2>2, <2>3, <2>5 DEF ManagerInv
<1> QED
  BY <1>1, <1>2 DEF Producer

\* The signal handler: the destructor waits for it.
LEMMA SignalsInv ==
  ASSUME ManagerInv, Signals
  PROVE  ManagerInv'
<1>1. ASSUME NEW t \in Threads, Signal(t) PROVE ManagerInv'
  <2>1. t # "none"
    BY LogManagerAssumption DEF Threads
  <2> QED
    BY <1>1, <2>1 DEF Signal, ManagerInv, ManagerTypeOK, Numbered, IteratorValid,
         DestructorAlone, Overlap, HeadWritten, queueVars, threadVars, historyVars
<1>2. CASE SignalLogs
  <2>1. /\ UNCHANGED << qMutex, logThreadRunning, logPc, it, stored, drainFailed, flushed,
                        batch, logShutdown, destructor >>
        /\ Push /\ signalled = "handling" /\ signalled' = "logged" /\ interrupted' = "none"
    BY <1>2 DEF SignalLogs, threadVars, historyVars
  <2>2. Numbered' /\ IteratorValid'
    BY <2>1, PushInv DEF Overlap, HeadWritten
  <2>3. ManagerTypeOK'
    BY <2>1, PushFacts DEF ManagerInv, ManagerTypeOK, HeadWritten
  <2>4. destructor = "no"
    BY <2>1 DEF ManagerInv, DestructorAlone
  <2>5. DestructorAlone'
    BY <2>1, <2>4 DEF ManagerInv, DestructorAlone
  <2> QED
    BY <2>2, <2>3, <2>5 DEF ManagerInv
<1>3. CASE InstallHandlers
  BY <1>3 DEF InstallHandlers, ManagerInv, ManagerTypeOK, Numbered, IteratorValid,
       DestructorAlone, Overlap, HeadWritten, queueVars, threadVars, historyVars
<1> QED
  BY <1>1, <1>2, <1>3 DEF Signals

\* The destructor touches neither the list nor the file.
LEMMA DestructorInv ==
  ASSUME ManagerInv, Destructor
  PROVE  ManagerInv'
<1> USE DEF ManagerInv, ManagerTypeOK, Numbered, IteratorValid, DestructorAlone, Overlap,
            HeadWritten, LogLabels, queueVars, threadVars, historyVars, signalVars
<1>1. CASE DestructorBegin
  <2>1. logShutdown' \in BOOLEAN
    BY <1>1, Zenon DEF DestructorBegin
  <2> QED
    BY <1>1, <2>1 DEF DestructorBegin
<1>2. CASE DestructorJoined
  BY <1>2 DEF DestructorJoined
<1>3. CASE DestructorDrained
  BY <1>3 DEF DestructorDrained
<1>4. CASE Ended
  BY <1>4 DEF Ended, managerVars
<1> QED
  BY <1>1, <1>2, <1>3, <1>4 DEF Destructor

\* The log thread, and the destructor when it runs logThreadExec again.
LEMMA ThreadStepInv ==
  ASSUME ManagerInv, ThreadStep
  PROVE  ManagerInv'
<1> USE DEF ManagerInv, LogLabels, queueVars, threadVars, historyVars, signalVars
<1>0. /\ logQueue \in Seq(Nat) /\ stored \in Seq(Nat) /\ it \in Nat /\ logged \in Nat
      /\ Len(logQueue) \in Nat /\ Len(stored) \in Nat
      /\ (logQueue # << >> => Len(logQueue) > 0 /\ logQueue[1] \in Nat)
      /\ (Len(logQueue) > 1 => logQueue[2] \in Nat)
  BY DEF ManagerTypeOK
<1>1. CASE ThreadStart \/ ThreadEnd
  <2>1. logThreadRunning' \in BOOLEAN
    BY <1>1, Zenon DEF ThreadStart, ThreadEnd
  <2>2. UNCHANGED << logQueue, stored, it, logged, destructor, qMutex, signalled,
                     interrupted, drainFailed >>
    BY <1>1 DEF ThreadStart, ThreadEnd
  <2>3. /\ logPc \in { "start", "top" } /\ logPc' \in { "top", "ended" }
        /\ logPc' = "ended" => logQueue = << >>
    BY <1>1 DEF ThreadStart, ThreadEnd, MoreToDo
  <2>4. ManagerTypeOK'
    BY <1>1, <2>1, <2>3 DEF ThreadStart, ThreadEnd, ManagerTypeOK, HeadWritten
  <2>5. Numbered' /\ IteratorValid' /\ DestructorAlone'
    BY <2>2, <2>3 DEF Numbered, Overlap, HeadWritten, IteratorValid, DestructorAlone
  <2> QED
    BY <2>4, <2>5
<1>2. CASE BatchBegin
  <2>1. batch' \subseteq Nat
    <3>1. batch' = { logQueue[i] : i \in DOMAIN logQueue }
      BY <1>2 DEF BatchBegin, ToSet
    <3> QED
      BY <1>0, <3>1
  <2>2. /\ logPc = "top" /\ it' \in Nat /\ logPc' \in { "flush", "write" }
        /\ logPc' = "write" => logQueue # << >> /\ it' = logQueue[1]
    BY <1>0, <1>2 DEF BatchBegin
  <2>3. UNCHANGED << logQueue, stored, logged, destructor, qMutex, signalled,
                     interrupted, drainFailed >>
    BY <1>2 DEF BatchBegin
  <2>4. ManagerTypeOK'
    BY <1>2, <2>1, <2>2 DEF BatchBegin, ManagerTypeOK, HeadWritten
  <2>5. Numbered' /\ IteratorValid' /\ DestructorAlone'
    BY <2>2, <2>3 DEF Numbered, Overlap, HeadWritten, IteratorValid, DestructorAlone
  <2> QED
    BY <2>4, <2>5
<1>3. CASE WriteLog
  <2>1. /\ UNCHANGED << logQueue, logged, it, destructor, qMutex, signalled, interrupted,
                        drainFailed, logThreadRunning, logShutdown, flushed, batch >>
        /\ stored' = Append(stored, it) /\ logPc = "write" /\ logPc' = "message"
    BY <1>3 DEF WriteLog
  <2>2. /\ stored' \in Seq(Nat) /\ Len(stored') = Len(stored) + 1
        /\ \A i \in 1 .. Len(stored) : stored'[i] = stored[i]
        /\ stored'[Len(stored) + 1] = it
    BY <1>0, <2>1
  <2>3. logQueue # << >> /\ it = logQueue[1] /\ Overlap = 0 /\ Overlap' = 1
    BY <2>1 DEF IteratorValid, Overlap, HeadWritten
  <2>4. it = Len(stored) + 1
    BY <1>0, <2>3 DEF Numbered
  <2>5. Numbered'
    BY <1>0, <2>1, <2>2, <2>3, <2>4 DEF Numbered
  <2>6. ManagerTypeOK' /\ IteratorValid' /\ DestructorAlone'
    BY <2>1, <2>2, <2>3 DEF ManagerTypeOK, HeadWritten, IteratorValid, DestructorAlone
  <2> QED
    BY <2>5, <2>6
<1>4. CASE WriteLogError
  <2>1. /\ UNCHANGED << logQueue, logged, stored, it, destructor, qMutex, signalled,
                        interrupted, logShutdown, flushed, batch >>
        /\ logPc = "write" /\ logPc' = "ended"
    BY <1>4 DEF WriteLogError
  <2>2. logThreadRunning' \in BOOLEAN /\ drainFailed' \in BOOLEAN
    BY <1>4, Zenon DEF WriteLogError
  <2>3. destructor = "draining" => drainFailed'
    BY <1>4 DEF WriteLogError
  <2>4. ManagerTypeOK'
    BY <2>1, <2>2 DEF ManagerTypeOK, HeadWritten
  <2>5. Numbered' /\ IteratorValid' /\ DestructorAlone'
    BY <2>1, <2>3 DEF Numbered, Overlap, HeadWritten, IteratorValid, DestructorAlone
  <2> QED
    BY <2>4, <2>5
<1>5. CASE LogMessage
  <2>1. /\ UNCHANGED << logThreadRunning, it, stored, drainFailed, flushed, batch,
                        interrupted, signalled, logShutdown, destructor, qMutex >>
        /\ logPc = "message" /\ logPc' = "advance"
        /\ UNCHANGED << logQueue, logged >> \/ Push
    BY <1>5 DEF LogMessage
  <2>2. DestructorAlone' /\ destructor # "done"
    BY <2>1 DEF DestructorAlone
  <2>3. CASE UNCHANGED << logQueue, logged >>
    BY <2>1, <2>2, <2>3 DEF ManagerTypeOK, Numbered, IteratorValid, Overlap, HeadWritten
  <2>4. CASE Push
    <3>1. Numbered' /\ IteratorValid'
      BY <2>1, <2>4, PushInv DEF Overlap, HeadWritten
    <3>2. ManagerTypeOK'
      BY <2>1, <2>4, PushFacts DEF ManagerTypeOK, HeadWritten
    <3> QED
      BY <2>2, <3>1, <3>2
  <2> QED
    BY <2>1, <2>3, <2>4
<1>6. CASE Advance
  <2>1. /\ UNCHANGED << logQueue, logged, stored, destructor, qMutex, signalled, interrupted,
                        drainFailed, logThreadRunning, logShutdown, flushed, batch >>
        /\ logPc = "advance" /\ logPc' = "lock"
        /\ it' = IF Len(logQueue) > 1 THEN logQueue[2] ELSE 0
    BY <1>6 DEF Advance
  <2> QED
    BY <1>0, <2>1 DEF ManagerTypeOK, Numbered, IteratorValid, DestructorAlone, Overlap,
                      HeadWritten
<1>7. CASE EraseLock
  BY <1>7 DEF EraseLock, ManagerTypeOK, Numbered, IteratorValid, DestructorAlone, Overlap,
              HeadWritten, Threads
<1>8. CASE Erase
  <2>1. /\ UNCHANGED << logged, it, stored, destructor, signalled, interrupted,
                        drainFailed, logThreadRunning, logShutdown, flushed, batch >>
        /\ logQueue' = Tail(logQueue) /\ qMutex' = "none" /\ logPc = "erase"
        /\ logPc' \in { "flush", "write" } /\ (logPc' = "write" => it # 0)
    BY <1>8 DEF Erase
  <2>2. logQueue # << >> /\ Overlap = 1 /\ Overlap' = 0
    BY <2>1 DEF ManagerTypeOK, Overlap, HeadWritten
  <2>3. /\ logQueue' \in Seq(Nat) /\ Len(logQueue') = Len(logQueue) - 1
        /\ \A j \in 1 .. Len(logQueue') : logQueue'[j] = logQueue[j + 1]
    BY <1>0, <2>1, <2>2, HeadTailProperties
  <2>4. Numbered'
    BY <1>0, <2>1, <2>2, <2>3 DEF Numbered
  <2>5. IteratorValid'
    <3> SUFFICES ASSUME logPc' = "write" PROVE logQueue' # << >> /\ it = logQueue'[1]
      BY <2>1 DEF IteratorValid
    <3>1. Len(logQueue) > 1 /\ it = logQueue[2]
      BY <2>1 DEF IteratorValid
    <3>2. 1 \in 1 .. Len(logQueue') /\ Len(logQueue') # 0
      <4>1. PICK k \in Nat : k = Len(logQueue')
        BY <2>3
      <4>2. k = Len(logQueue) - 1
        BY <2>3, <4>1
      <4>3. k >= 1
        BY <1>0, <3>1, <4>2
      <4> QED
        BY <4>1, <4>3
    <3>3. logQueue'[1] = logQueue[1 + 1]
      BY <2>3, <3>2
    <3>4. logQueue' # << >>
      BY <3>2
    <3> QED
      BY <3>1, <3>3, <3>4
  <2>6. ManagerTypeOK' /\ DestructorAlone'
    BY <2>1, <2>3 DEF ManagerTypeOK, HeadWritten, DestructorAlone
  <2> QED
    BY <2>4, <2>5, <2>6
<1>9. CASE Flush
  <2>1. /\ UNCHANGED << logQueue, logged, it, stored, destructor, qMutex, signalled,
                        interrupted, drainFailed, logThreadRunning, logShutdown, batch >>
        /\ logPc = "flush" /\ logPc' = "top" /\ flushed' \in Nat
    BY <1>0, <1>9 DEF Flush
  <2> QED
    BY <2>1 DEF ManagerTypeOK, Numbered, IteratorValid, DestructorAlone, Overlap, HeadWritten
<1> QED
  BY <1>1, <1>2, <1>3, <1>4, <1>5, <1>6, <1>7, <1>8, <1>9 DEF ThreadStep

\* The invariant of the log manager: the list goes on where the file ends.
THEOREM ManagerInvariance == ManagerSpec => []ManagerInv
<1>1. ManagerInv /\ [ManagerNext]_managerVars => ManagerInv'
  <2> SUFFICES ASSUME ManagerInv, [ManagerNext]_managerVars PROVE ManagerInv'
    OBVIOUS
  <2>1. CASE UNCHANGED managerVars
    BY <2>1 DEF managerVars, queueVars, threadVars, historyVars, signalVars, ManagerInv,
                ManagerTypeOK, Numbered, IteratorValid, DestructorAlone, Overlap, HeadWritten
  <2> QED
    BY <2>1, ThreadStepInv, ProducerInv, DestructorInv, SignalsInv DEF ManagerNext
<1> QED
  BY <1>1, ManagerInitInv, PTL DEF ManagerSpec

\* Every entry is in the file or in the list, exactly once and in order, for any number
\* of threads that log, wherever a signal, an error or the destructor comes in.
THEOREM NoEntryLost == ManagerSpec => []EachEntryOnce
<1>1. ManagerInv => EachEntryOnce
  <2> SUFFICES ASSUME ManagerInv PROVE EachEntryOnce
    OBVIOUS
  <2>1. /\ logQueue \in Seq(Nat) /\ stored \in Seq(Nat) /\ logged \in Nat
        /\ (HeadWritten => logQueue # << >>)
    BY DEF ManagerInv, ManagerTypeOK
  <2>2. /\ Unwritten \in Seq(Nat)
        /\ Len(Unwritten) = Len(logQueue) - Overlap
        /\ \A j \in 1 .. Len(Unwritten) : Unwritten[j] = logQueue[j + Overlap]
    <3>1. CASE HeadWritten
      BY <2>1, <3>1, HeadTailProperties DEF Unwritten, Overlap
    <3>2. CASE ~HeadWritten
      BY <2>1, <3>2 DEF Unwritten, Overlap
    <3> QED
      BY <3>1, <3>2
  <2>3. Overlap \in { 0, 1 } /\ Len(logQueue) \in Nat /\ Len(stored) \in Nat
    BY <2>1 DEF Overlap
  <2>4. \A j \in 1 .. Len(Unwritten) : Unwritten[j] = Len(stored) + j
    BY <2>2, <2>3 DEF ManagerInv, Numbered
  <2>5. Len(stored) + Len(Unwritten) = logged
    BY <2>2, <2>3 DEF ManagerInv, Numbered
  <2> DEFINE all == stored \o Unwritten
             count == [ i \in 1 .. logged |-> i ]
  <2>6. /\ all \in Seq(Nat) /\ Len(all) = logged
        /\ \A i \in 1 .. logged : all[i] = i
    <3>1. /\ all \in Seq(Nat) /\ Len(all) = Len(stored) + Len(Unwritten)
          /\ \A i \in 1 .. Len(stored) + Len(Unwritten) :
                all[i] = IF i <= Len(stored) THEN stored[i] ELSE Unwritten[i - Len(stored)]
      BY <2>1, <2>2, ConcatProperties
    <3> HIDE DEF all
    <3>2. ASSUME NEW i \in 1 .. logged PROVE all[i] = i
      <4>1. CASE i <= Len(stored)
        <5>1. all[i] = stored[i]
          BY <2>3, <2>5, <3>1, <4>1
        <5>2. i \in 1 .. Len(stored)
          BY <2>3, <4>1
        <5> QED
          BY <5>1, <5>2 DEF ManagerInv, Numbered
      <4>2. CASE i > Len(stored)
        <5>1. PICK j \in 1 .. Len(Unwritten) : i = Len(stored) + j
          <6>1. i - Len(stored) \in 1 .. Len(Unwritten) /\ i = Len(stored) + (i - Len(stored))
            BY <2>2, <2>3, <2>5, <4>2
          <6> QED
            BY <6>1
        <5>2. i - Len(stored) = j
          BY <2>3, <5>1
        <5> QED
          BY <2>3, <2>4, <2>5, <3>1, <4>2, <5>1, <5>2
      <4> QED
        BY <2>3, <4>1, <4>2
    <3> QED
      BY <2>5, <3>1, <3>2
  <2>7. count \in Seq(Nat) /\ Len(count) = logged /\ \A i \in 1 .. logged : count[i] = i
    BY <2>1
  <2> HIDE DEF all, count
  <2>8. all = count
    BY <2>6, <2>7, SeqEqual
  <2> QED
    BY <2>8 DEF all, count, EachEntryOnce
<1> QED
  BY <1>1, ManagerInvariance, PTL

\* When the destructor has finished, everything that was logged is in the file, unless
\* a write failed in its own run over the list.
THEOREM NothingLeftBehind == ManagerSpec => []EverythingWritten
<1>1. ManagerInv => EverythingWritten
  <2> SUFFICES ASSUME ManagerInv, destructor = "done", ~drainFailed
               PROVE  Len(stored) = logged
    BY DEF EverythingWritten
  <2>1. logQueue = << >> /\ Overlap = 0 /\ Len(stored) \in Nat
    BY DEF ManagerInv, DestructorAlone, ManagerTypeOK, Overlap, HeadWritten
  <2> QED
    BY <2>1 DEF ManagerInv, Numbered
<1> QED
  BY <1>1, ManagerInvariance, PTL
=============================================================================
