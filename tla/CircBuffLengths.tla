--------------------------- MODULE CircBuffLengths ---------------------------
(***************************************************************************)
(* How the stream writer sizes its circular buffer                         *)
(* (apps/streamWriter/streamWriter.hpp): the check of the configuration in *)
(* appStartup, getCircBuffLengths with its search for a write chunk that   *)
(* divides the buffer, and the checks of allocate_circbufs on the result.  *)
(* Module StreamWriter takes the lengths found here as its Geometries.     *)
(*                                                                         *)
(* Sizes are whole numbers of bytes.  The chunk length is computed in      *)
(* double precision: a quotient that is exact may come out just below and  *)
(* be truncated to the integer before, which the model allows.             *)
(***************************************************************************)
EXTENDS Integers

CONSTANTS
    Lengths,      \* values of the configured lengths, in frames
    FrameSizes,   \* width * height * typeSize of the streams
    BuffSizes     \* values of the configured m_maxCircBuffSize, in bytes

ASSUME SizesAssumption ==
    /\ Lengths \subseteq Nat
    /\ FrameSizes \subseteq Nat
    /\ BuffSizes \subseteq Nat

VARIABLES
    maxCircBuffLength,    \* m_maxCircBuffLength
    maxWriteChunkLength,  \* m_maxWriteChunkLength
    maxCircBuffSize,      \* m_maxCircBuffSize
    frame,                \* the bytes of a frame of the stream
    circBuffLength,       \* m_circBuffLength
    writeChunkLength,     \* m_writeChunkLength
    pc

config == << maxCircBuffLength, maxWriteChunkLength, maxCircBuffSize, frame >>
vars   == << config, circBuffLength, writeChunkLength, pc >>

\* The configuration, a stream, and the default lengths of the members.  A write
\* chunk of no frames is not a configuration: it stops appStartup with a trap.
Init ==
    /\ maxCircBuffLength \in Lengths
    /\ maxWriteChunkLength \in Lengths \ {0}
    /\ maxCircBuffSize \in BuffSizes
    /\ frame \in FrameSizes
    /\ circBuffLength = 1024 /\ writeChunkLength = 512
    /\ pc = "startup"

\* appStartup refuses a chunk that does not divide the buffer.
Startup ==
    /\ pc = "startup"
    /\ pc' = IF maxCircBuffLength % maxWriteChunkLength = 0 THEN "sizing" ELSE "refused"
    /\ UNCHANGED << config, circBuffLength, writeChunkLength >>

\* The configured number of frames fits in the configured size.
Fits ==
    /\ pc = "sizing"
    /\ frame * maxCircBuffLength <= maxCircBuffSize
    /\ circBuffLength' = maxCircBuffLength
    /\ writeChunkLength' = maxWriteChunkLength
    /\ pc' = "check"
    /\ UNCHANGED config

\* Variants with a fault: the chunk keeps its configured length; the chunk is
\* not raised to one frame.
ScaledConfigured(len) == { maxWriteChunkLength }
AtLeastZero(n) == n

\* An odd length loses a frame.
Even(n) == n - (n % 2)

\* The chunk in proportion to the buffer, truncated.
Scaled(len) ==
    LET exact == maxWriteChunkLength * len
        q     == exact \div maxCircBuffLength
    IN { q } \cup (IF q > 0 /\ exact % maxCircBuffLength = 0 THEN { q - 1 } ELSE {})

AtLeastOne(n) == IF n = 0 THEN 1 ELSE n

\* It does not: the length is what the size allows, the chunk in proportion.
Scale ==
    /\ pc = "sizing"
    /\ frame * maxCircBuffLength > maxCircBuffSize
    /\ circBuffLength' = Even(maxCircBuffSize \div frame)
    /\ \E c \in Scaled(circBuffLength') :
          IF circBuffLength' = 0
            THEN writeChunkLength' = c /\ pc' = "check"
            ELSE writeChunkLength' = AtLeastOne(c) /\ pc' = "search"
    /\ UNCHANGED config

\* Variant with a fault: the loop does not count down.
SearchStuck ==
    /\ pc = "search"
    /\ circBuffLength % writeChunkLength = 0
    /\ pc' = "check"
    /\ UNCHANGED << config, circBuffLength, writeChunkLength >>

\* The search for a divisor: the condition and the body of the loop.
Search ==
    /\ pc = "search"
    /\ IF circBuffLength % writeChunkLength # 0
         THEN writeChunkLength' = writeChunkLength - 1 /\ pc' = "search"
         ELSE pc' = "check" /\ UNCHANGED writeChunkLength
    /\ UNCHANGED << config, circBuffLength >>

\* allocate_circbufs accepts or refuses the lengths.
Check ==
    /\ pc = "check"
    /\ pc' = IF /\ circBuffLength >= 2
                /\ writeChunkLength < circBuffLength
                /\ circBuffLength % writeChunkLength = 0
             THEN "allocated" ELSE "refused"
    /\ UNCHANGED << config, circBuffLength, writeChunkLength >>

Next == Startup \/ Fits \/ Scale \/ Search \/ Check

Spec == Init /\ [][Next]_vars
FairSpec == Spec /\ WF_vars(Next)

----------------------------------------------------------------------------
\* Lengths are natural numbers (size_t): no subtraction of getCircBuffLengths wraps
\* below zero.
TypeOK ==
    /\ maxCircBuffLength \in Nat /\ maxWriteChunkLength \in Nat \ {0}
    /\ maxCircBuffSize \in Nat /\ frame \in Nat
    /\ circBuffLength \in Nat /\ writeChunkLength \in Nat
    /\ pc \in { "startup", "sizing", "search", "check", "allocated", "refused" }

\* Neither the search loop nor allocate_circbufs ever divides by zero, and what
\* they divide by never exceeds the buffer the search started from.
DivisorPositive ==
    /\ pc = "search" => writeChunkLength \in 1 .. circBuffLength
    /\ pc \in { "check", "allocated" } /\ circBuffLength >= 2 => writeChunkLength > 0

\* The buffer that is allocated respects the three configured limits, and it is a
\* whole number of chunks, at least two (allocate_circbufs).
WithinLimits ==
    pc = "allocated" =>
        /\ frame * circBuffLength <= maxCircBuffSize
        /\ circBuffLength <= maxCircBuffLength
        /\ writeChunkLength <= maxWriteChunkLength
        /\ circBuffLength >= 2 * writeChunkLength

\* A stream is refused only for a reason an operator can see in the configuration:
\* two frames of it do not fit in the size, the chunk is not a proper divisor of the
\* buffer, or the buffer is shorter than two frames.  Scaling down never produces
\* lengths that allocate_circbufs rejects.
RefusedForCause ==
    pc = "refused" =>
        \/ maxCircBuffLength % maxWriteChunkLength # 0
        \/ maxWriteChunkLength >= maxCircBuffLength
        \/ 2 * frame > maxCircBuffSize

\* The search for a divisor terminates.
SizingEnds == <>(pc \in { "allocated", "refused" })
=============================================================================
