------------------------- MODULE StreamWriterProofs -------------------------
(***************************************************************************)
(* Proofs about the stream writer, for every set of geometries, every      *)
(* number of frames and every combination of failures.                     *)
(*                                                                         *)
(* IndInv (module StreamWriterInvariant) is inductive: one lemma per       *)
(* action, one step per conjunct.  The safety properties follow from it,   *)
(* and so does the refinement of the recorder (module                      *)
(* StreamWriterRefinement), with one more invariant for the time after the *)
(* frame grabber has given up.                                             *)
(*                                                                         *)
(* In the leaves, Boolean facts are left to Zenon, arithmetic to SMT;      *)
(* a step that adds primed numbers names them first (PICK).                *)
(***************************************************************************)
EXTENDS StreamWriterInvariant, StreamWriterRefinement, SequenceTheorems, TLAPS

----------------------------------------------------------------------------
(***************************************************************************)
(* Arithmetic of the blocks of the circular buffer.                        *)
(***************************************************************************)

\* Quotient and remainder of a slot by the length of a block.
LEMMA DivisionTheorem ==
    ASSUME NEW c \in Nat \ {0}, NEW i \in Nat
    PROVE  /\ i \div c \in Nat
           /\ i % c \in 0 .. c - 1
           /\ i = (i \div c) * c + (i % c)
  BY SMT

\* A block that starts before the end of the last block ends there or before.
LEMMA NextMultiple ==
    ASSUME NEW c \in Nat \ {0}, NEW q \in Nat, NEW m \in Nat, q * c < m * c
    PROVE  q * c + c <= m * c
<1>1. q + 1 <= m
  BY SMT
<1>2. (q + 1) * c <= m * c
  BY <1>1, SMT
<1> QED
  BY <1>2, SMT

\* The aligned block that a slot is in contains it and lies in the buffer, when
\* the buffer is a whole number of blocks: what fgThreadRun computes for
\* m_nextChunkStart never reaches past the end.
LEMMA BlockBounds ==
    ASSUME NEW c \in Nat \ {0}, NEW len \in Nat, len % c = 0,
           NEW i \in Nat, i < len
    PROVE  /\ (i \div c) * c \in Nat
           /\ (i \div c) * c <= i
           /\ i < (i \div c) * c + c
           /\ (i \div c) * c + c <= len
<1> DEFINE q == i \div c
           m == len \div c
<1>1. /\ q \in Nat /\ m \in Nat
      /\ i = q * c + (i % c) /\ i % c \in 0 .. c - 1
      /\ len = m * c
  <2>1. /\ q \in Nat /\ i % c \in 0 .. c - 1 /\ i = q * c + (i % c)
    BY DivisionTheorem
  <2>2. m \in Nat /\ len = m * c + (len % c)
    BY DivisionTheorem
  <2> QED
    BY <2>1, <2>2, SMT
<1> HIDE DEF q, m
<1>2. q * c \in Nat
  BY <1>1, SMT
<1>3. q * c <= i /\ i < q * c + c
  BY <1>1, <1>2, SMT
<1>4. q * c + c <= len
  BY <1>1, <1>2, <1>3, NextMultiple, SMT
<1> QED
  BY <1>2, <1>3, <1>4 DEF q

----------------------------------------------------------------------------
(***************************************************************************)
(* The frame-grabber thread.                                               *)
(***************************************************************************)

\* Opening a stream file preserves the invariant.
LEMMA FgOpenInv == IndInv /\ FgOpen => IndInv'
<1> SUFFICES ASSUME IndInv, FgOpen PROVE IndInv'
  OBVIOUS
<1> USE DEF IndInv, FgOpen,
           mutexVars, windowVars, chunkVars, flagVars, bufVars, fgVars, swVars,
           mainVars, histVars
<1>0. restart' \in BOOLEAN
  BY Zenon
<1>1. TypeOK'
  BY <1>0 DEF TypeOK, FgLabels, SwLabels, MainLabels, WritingStates
<1>2. ThreadOrder' /\ WindowOwned' /\ Notified' /\ Encoding'
  BY DEF ThreadOrder, TypeOK, WindowOwned, Notified, Encoding
<1>3. BuffersUsable' /\ ChunkInBlock' /\ ChunkRecording'
  BY DEF BuffersUsable, Connected, Grabbing, LengthsUsable, TypeOK, ChunkInBlock,
         ChunkRecording, Healthy
<1>4. StopHasWork' /\ StopQueuedIsLast' /\ Contents'
  BY DEF StopHasWork, Healthy, TypeOK, StopQueuedIsLast, Contents, WindowFrames
<1> QED
  BY <1>1, <1>2, <1>3, <1>4

\* Giving up before a stream is set up preserves the invariant.
LEMMA FgOpenExitInv == IndInv /\ FgOpenExit => IndInv'
<1> SUFFICES ASSUME IndInv, FgOpenExit PROVE IndInv'
  OBVIOUS
<1> USE DEF IndInv, FgOpenExit, FgReturn,
           mutexVars, windowVars, chunkVars, flagVars, bufVars, fgVars, swVars,
           mainVars, histVars
<1>1. TypeOK'
  BY DEF TypeOK, FgLabels, SwLabels, MainLabels, WritingStates
<1>2. ThreadOrder' /\ WindowOwned' /\ Notified' /\ Encoding'
  BY DEF ThreadOrder, TypeOK, WindowOwned, Notified, Encoding
<1>3. BuffersUsable' /\ ChunkInBlock' /\ ChunkRecording'
  BY DEF BuffersUsable, Connected, Grabbing, LengthsUsable, TypeOK, ChunkInBlock,
         ChunkRecording, Healthy
<1>4. StopHasWork' /\ StopQueuedIsLast' /\ Contents'
  BY DEF StopHasWork, Healthy, TypeOK, StopQueuedIsLast, Contents, WindowFrames
<1> QED
  BY <1>1, <1>2, <1>3, <1>4

\* allocate_circbufs preserves the invariant.
LEMMA FgAllocateInv == IndInv /\ FgAllocate => IndInv'
<1> SUFFICES ASSUME IndInv, FgAllocate PROVE IndInv'
  OBVIOUS
<1> USE DEF IndInv, FgReturn,
           mutexVars, windowVars, chunkVars, flagVars, bufVars, fgVars, swVars,
           mainVars, histVars
<1>a. ~allocated /\ fgPc = "allocate"
  BY DEF BuffersUsable, FgAllocate
<1>b. UNCHANGED << mutexVars, flagVars, fgCaller, fgRearm, restartWriting,
                   cnt0flag, swVars, mainVars, histVars >>
  BY Zenon DEF FgAllocate
<1>c. PICK g \in Geometries :
          /\ circBuffLength' = g[1] /\ writeChunkLength' = g[2]
          /\ \/ /\ LengthsUsable(g[1], g[2])
                /\ circBuff' = [ i \in 0 .. g[1] - 1 |-> Idle ]
                /\ allocated' = TRUE /\ fgPc' = "baseline"
             \/ allocated' = allocated /\ fgPc' = "stopped"
   BY Zenon DEF FgAllocate
<1>d. g[1] \in Nat /\ g[2] \in Nat /\ (g[1] >= 2 => g[2] > 0)
  BY GeometriesAssumption
<1>e. allocated' => circBuff' \in [ 0 .. circBuffLength' - 1 -> Nat ]
  <2> SUFFICES ASSUME allocated'
               PROVE  circBuff' \in [ 0 .. circBuffLength' - 1 -> Nat ]
    OBVIOUS
  <2>1. circBuff' = [ i \in 0 .. g[1] - 1 |-> Idle ]
    BY <1>a, <1>c
  <2>2. [ i \in 0 .. g[1] - 1 |-> Idle ] \in [ 0 .. g[1] - 1 -> Nat ]
    BY DEF Idle
  <2>3. circBuffLength' = g[1]
    BY <1>c
  <2> QED
    BY <2>1, <2>2, <2>3, Zenon
<1>1. TypeOK'
  <2>1. allocated' \in BOOLEAN /\ fgPc' \in FgLabels
    BY <1>c, Zenon DEF TypeOK, FgLabels
  <2> QED
    BY <1>b, <1>c, <1>d, <1>e, <2>1 DEF TypeOK
<1>2. ThreadOrder'
  BY <1>a, <1>b, <1>c DEF ThreadOrder
<1>3. BuffersUsable'
  BY <1>a, <1>c, <1>d DEF BuffersUsable, Connected, Grabbing, LengthsUsable, TypeOK
<1>4. WindowOwned'
  BY <1>a, <1>b DEF WindowOwned
<1>5. Notified'
  BY <1>b DEF Notified
<1>6. Encoding'
  BY <1>b DEF Encoding
<1>7. ChunkInBlock'
  BY <1>c DEF ChunkInBlock, Grabbing
<1>8. ChunkRecording'
  BY <1>a, <1>b, <1>c DEF ChunkRecording, Grabbing, Healthy
<1>9. StopHasWork'
  BY <1>b DEF StopHasWork, Healthy
<1>10. StopQueuedIsLast'
  BY <1>b DEF StopQueuedIsLast, Healthy
<1>11. Contents'
  BY <1>a, <1>b DEF Contents, Healthy, WindowFrames, WindowOwned, ChunkRecording,
                    Grabbing, TypeOK
<1> QED
  BY <1>1, <1>2, <1>3, <1>4, <1>5, <1>6, <1>7, <1>8, <1>9, <1>10, <1>11

\* The reset of the counters at the start of a connection preserves the
\* invariant: no chunk and no window survive the previous connection.
LEMMA FgBaselineInv == IndInv /\ FgBaseline => IndInv'
<1> SUFFICES ASSUME IndInv, FgBaseline PROVE IndInv'
  OBVIOUS
<1> USE DEF IndInv, FgBaseline,
           mutexVars, windowVars, chunkVars, flagVars, bufVars, fgVars, swVars,
           mainVars, histVars
<1>0. stopQueued' \in BOOLEAN
  BY Zenon
<1>1. TypeOK'
  BY <1>0 DEF TypeOK, FgLabels, SwLabels, MainLabels, WritingStates
<1>2. ThreadOrder' /\ WindowOwned' /\ Notified' /\ Encoding'
  BY DEF ThreadOrder, TypeOK, WindowOwned, Notified, Encoding
<1>3. BuffersUsable' /\ ChunkInBlock' /\ ChunkRecording'
  BY DEF BuffersUsable, Connected, Grabbing, LengthsUsable, TypeOK, ChunkInBlock,
         ChunkRecording, Healthy
<1>4. StopHasWork' /\ StopQueuedIsLast' /\ Contents'
  BY DEF StopHasWork, Healthy, ChunkRecording, Grabbing, WindowOwned, TypeOK,
         StopQueuedIsLast, Contents, WindowFrames
<1> QED
  BY <1>1, <1>2, <1>3, <1>4

\* Waiting for a slot of the window preserves the invariant.
LEMMA FgBlockInv == IndInv /\ FgBlock => IndInv'
<1> SUFFICES ASSUME IndInv, FgBlock PROVE IndInv'
  OBVIOUS
<1> USE DEF IndInv, FgBlock,
           mutexVars, windowVars, chunkVars, flagVars, bufVars, fgVars, swVars,
           mainVars, histVars
<1>1. TypeOK'
  BY DEF TypeOK, FgLabels, SwLabels, MainLabels, WritingStates
<1>2. ThreadOrder' /\ WindowOwned' /\ Notified' /\ Encoding'
  BY DEF ThreadOrder, TypeOK, WindowOwned, Notified, Encoding
<1>3. BuffersUsable' /\ ChunkInBlock' /\ ChunkRecording'
  BY DEF BuffersUsable, Connected, Grabbing, LengthsUsable, TypeOK, ChunkInBlock,
         ChunkRecording, Healthy
<1>4. StopHasWork' /\ StopQueuedIsLast' /\ Contents'
  BY DEF StopHasWork, Healthy, TypeOK, StopQueuedIsLast, Contents, WindowFrames
<1> QED
  BY <1>1, <1>2, <1>3, <1>4

\* The end of the grab loop preserves the invariant.
LEMMA FgLoopExitInv == IndInv /\ FgLoopExit => IndInv'
<1> SUFFICES ASSUME IndInv, FgLoopExit PROVE IndInv'
  OBVIOUS
<1> USE DEF IndInv, FgLoopExit,
           mutexVars, windowVars, chunkVars, flagVars, bufVars, fgVars, swVars,
           mainVars, histVars
<1>1. TypeOK'
  BY DEF TypeOK, FgLabels, SwLabels, MainLabels, WritingStates
<1>2. ThreadOrder' /\ WindowOwned' /\ Notified' /\ Encoding'
  BY DEF ThreadOrder, TypeOK, WindowOwned, Notified, Encoding
<1>3. BuffersUsable' /\ ChunkInBlock' /\ ChunkRecording'
  BY DEF BuffersUsable, Connected, Grabbing, LengthsUsable, TypeOK, ChunkInBlock,
         ChunkRecording, Healthy
<1>4. StopHasWork' /\ StopQueuedIsLast' /\ Contents'
  BY DEF StopHasWork, Healthy, TypeOK, StopQueuedIsLast, Contents, WindowFrames
<1> QED
  BY <1>1, <1>2, <1>3, <1>4

\* Breaking out of the grab loop preserves the invariant.
LEMMA FgBreakInv == IndInv /\ FgBreak => IndInv'
<1> SUFFICES ASSUME IndInv, FgBreak PROVE IndInv'
  OBVIOUS
<1> USE DEF IndInv, FgBreak, FrameReady,
           mutexVars, windowVars, chunkVars, flagVars, bufVars, fgVars, swVars,
           mainVars, histVars
<1>1. TypeOK'
  BY DEF TypeOK, FgLabels, SwLabels, MainLabels, WritingStates
<1>2. ThreadOrder' /\ WindowOwned' /\ Notified' /\ Encoding'
  BY DEF ThreadOrder, TypeOK, WindowOwned, Notified, Encoding
<1>3. BuffersUsable' /\ ChunkInBlock' /\ ChunkRecording'
  BY DEF BuffersUsable, Connected, Grabbing, LengthsUsable, TypeOK, ChunkInBlock,
         ChunkRecording, Healthy
<1>4. StopHasWork' /\ StopQueuedIsLast' /\ Contents'
  BY DEF StopHasWork, Healthy, TypeOK, StopQueuedIsLast, Contents, WindowFrames
<1> QED
  BY <1>1, <1>2, <1>3, <1>4

\* A clock failure in the grab loop preserves the invariant: the abandoned
\* frames no longer count.
LEMMA FgClockFailureInv == IndInv /\ FgClockFailure => IndInv'
<1> SUFFICES ASSUME IndInv, FgClockFailure PROVE IndInv'
  OBVIOUS
<1> USE DEF IndInv, FgClockFailure, FgAbandon, FgReturn, FrameReady,
           mutexVars, windowVars, chunkVars, flagVars, bufVars, fgVars, swVars,
           mainVars, histVars
<1>1. TypeOK'
  BY DEF TypeOK, FgLabels, SwLabels, MainLabels, WritingStates
<1>2. ThreadOrder' /\ WindowOwned' /\ Notified' /\ Encoding'
  BY DEF ThreadOrder, TypeOK, WindowOwned, Notified, Encoding
<1>3. BuffersUsable' /\ ChunkInBlock' /\ ChunkRecording'
  BY DEF BuffersUsable, Connected, Grabbing, LengthsUsable, TypeOK, ChunkInBlock,
         ChunkRecording, Healthy
<1>4. StopHasWork' /\ StopQueuedIsLast' /\ Contents'
  BY DEF StopHasWork, Healthy, TypeOK, StopQueuedIsLast, Contents, WindowFrames
<1> QED
  BY <1>1, <1>2, <1>3, <1>4

\* A wake-up without a new frame preserves the invariant.
LEMMA FgRepeatInv == IndInv /\ FgRepeat => IndInv'
<1> SUFFICES ASSUME IndInv, FgRepeat PROVE IndInv'
  OBVIOUS
<1> USE DEF IndInv, FgRepeat, FrameReady,
           mutexVars, windowVars, chunkVars, flagVars, bufVars, fgVars, swVars,
           mainVars, histVars
<1>1. TypeOK'
  BY DEF TypeOK, FgLabels, SwLabels, MainLabels, WritingStates
<1>2. ThreadOrder' /\ WindowOwned' /\ Notified' /\ Encoding'
  BY DEF ThreadOrder, TypeOK, WindowOwned, Notified, Encoding
<1>3. BuffersUsable' /\ ChunkInBlock' /\ ChunkRecording'
  BY DEF BuffersUsable, Connected, Grabbing, LengthsUsable, TypeOK, ChunkInBlock,
         ChunkRecording, Healthy
<1>4. StopHasWork' /\ StopQueuedIsLast' /\ Contents'
  BY DEF StopHasWork, Healthy, TypeOK, StopQueuedIsLast, Contents, WindowFrames
<1> QED
  BY <1>1, <1>2, <1>3, <1>4

\* What holds when a frame can be looked at: in particular its slot is free, and
\* it is the slot that follows the chunk.
LEMMA FrameFacts ==
    IndInv /\ FrameReady /\ ~shutdown =>
        /\ fgPc \in { "grab", "copyWait" }
        /\ Healthy /\ ~gaveUp /\ ~writerFailed /\ mainPc = "run"
        /\ allocated /\ LengthsUsable(circBuffLength, writeChunkLength)
        /\ writeChunkLength \in Nat \ {0}
        /\ currImage \in 0 .. circBuffLength - 1
        /\ circBuff \in [ 0 .. circBuffLength - 1 -> Nat ]
        /\ writePending => currImage \notin currSaveStart .. currSaveStop - 1
        /\ chunkFrames > 0 =>
              /\ currImage = currChunkStart + chunkFrames
              /\ nextChunkStart <= currChunkStart
              /\ nextChunkStart + writeChunkLength <= circBuffLength
              /\ currImage < nextChunkStart + writeChunkLength
              /\ writing \in { "WRITING", "STOP_WRITING" } /\ ~stopQueued
        /\ stopQueued => writePending /\ chunkFrames = 0 /\ writing = "STOP_WRITING"
        /\ writePending => writing # "NOT_WRITING"
        /\ recorded = Len(saved) + WindowFrames + chunkFrames
<1> SUFFICES ASSUME IndInv, FrameReady, ~shutdown
             PROVE  FrameFacts!2
  OBVIOUS
<1> USE DEF IndInv
<1>1. fgPc \in { "grab", "copyWait" }
  BY DEF FrameReady
<1>2. Healthy /\ ~gaveUp /\ ~writerFailed /\ mainPc = "run"
  BY <1>1 DEF ThreadOrder, Healthy, TypeOK, MainLabels
<1>3. /\ allocated /\ LengthsUsable(circBuffLength, writeChunkLength)
      /\ writeChunkLength \in Nat \ {0}
      /\ currImage \in 0 .. circBuffLength - 1
  BY <1>1 DEF BuffersUsable, Connected, Grabbing, TypeOK
<1>4. circBuff \in [ 0 .. circBuffLength - 1 -> Nat ]
  BY <1>3 DEF TypeOK
<1>5. writePending => currImage \notin currSaveStart .. currSaveStop - 1
  BY DEF FrameReady, SlotOwnedByWriter, TypeOK
<1>6. chunkFrames > 0 =>
              /\ currImage = currChunkStart + chunkFrames
              /\ nextChunkStart <= currChunkStart
              /\ nextChunkStart + writeChunkLength <= circBuffLength
              /\ currImage < nextChunkStart + writeChunkLength
  BY <1>1 DEF ChunkInBlock, Grabbing
<1>7. chunkFrames > 0 => writing \in { "WRITING", "STOP_WRITING" } /\ ~stopQueued
  BY <1>2 DEF ChunkRecording
<1>8. /\ stopQueued => writePending /\ chunkFrames = 0 /\ writing = "STOP_WRITING"
      /\ writePending => writing # "NOT_WRITING"
      /\ recorded = Len(saved) + WindowFrames + chunkFrames
  BY <1>2 DEF StopQueuedIsLast, WindowOwned, Contents
<1> QED
  BY <1>1, <1>2, <1>3, <1>4, <1>5, <1>6, <1>7, <1>8

\* What FrameTaken does to the variables the invariant is about.
FrameEffect(stop) ==
    /\ FrameReady /\ ~shutdown
    /\ shutdown' = stop /\ cnt0flag' = 0
    /\ writing' = WritingAtFrame(stop)
    /\ writing' \in WritingStates
    /\ writing # "NOT_WRITING" => writing' # "NOT_WRITING"
    /\ writing = "STOP_WRITING" => writing' = "STOP_WRITING"
    /\ writing = "WRITING" => writing' \in { "WRITING", "STOP_WRITING" }
    /\ restartWriting' \in BOOLEAN /\ resumeAfterReconnect' \in BOOLEAN
    /\ savingLog' \in { "none", "start", "stop" }
    /\ UNCHANGED << writePending, stopQueued, currSaveStart, currSaveStop,
                    writerFailed, restart, swSemaphore, circBuffLength,
                    writeChunkLength, allocated, swPc, saveStart, saveStop, xrif,
                    mainPc, appState, toggle, saved, gaveUp >>

\* Taking a frame has that effect.
LEMMA TakenFacts ==
    ASSUME IndInv, NEW stop \in BOOLEAN, FrameTaken(stop)
    PROVE  FrameEffect(stop)
<1>1. /\ FrameReady /\ ~shutdown
      /\ shutdown' = stop /\ cnt0flag' = 0
      /\ writing' = WritingAtFrame(stop)
      /\ UNCHANGED << writePending, stopQueued, currSaveStart, currSaveStop,
                      writerFailed, restart, swSemaphore, circBuffLength,
                      writeChunkLength, allocated, swPc, saveStart, saveStop, xrif,
                      mainPc, appState, toggle, saved, gaveUp >>
  BY Zenon DEF FrameTaken, windowVars, swVars, mainVars
<1>2. /\ restartWriting' \in BOOLEAN /\ resumeAfterReconnect' \in BOOLEAN
      /\ savingLog' \in { "none", "start", "stop" }
  BY Zenon DEF FrameTaken, IndInv, TypeOK
<1>3. /\ writing' \in WritingStates
      /\ writing # "NOT_WRITING" => writing' # "NOT_WRITING"
      /\ writing = "STOP_WRITING" => writing' = "STOP_WRITING"
      /\ writing = "WRITING" => writing' \in { "WRITING", "STOP_WRITING" }
  BY <1>1, Zenon DEF WritingAtFrame, IndInv, TypeOK, WritingStates
<1> QED
  BY <1>1, <1>2, <1>3, Zenon DEF FrameEffect

\* A frame that is not recorded preserves the invariant: it overwrites a slot
\* outside the window, and there is no chunk.
LEMMA FgSkipFrameInv == IndInv /\ FgSkipFrame => IndInv'
<1> SUFFICES ASSUME IndInv, FgSkipFrame PROVE IndInv'
  OBVIOUS
<1>p. PICK stop \in BOOLEAN :
        /\ FrameTaken(stop)
        /\ ~Recording(WritingAtFrame(stop))
        /\ circBuff' = [ circBuff EXCEPT ![currImage] = Idle ]
        /\ currImage' = NextSlot(currImage)
        /\ fgPc' = "grab"
        /\ UNCHANGED << chunkFrames, currChunkStart, nextChunkStart, fgCaller,
                        fgRearm, recorded >>
  BY DEF FgSkipFrame
<1>t. FrameEffect(stop)
  BY <1>p, TakenFacts
<1>f. FrameFacts!2
  BY <1>t, FrameFacts DEF FrameEffect
<1>h. Healthy'
  BY <1>f, <1>t DEF FrameEffect, Healthy
<1>e. chunkFrames = 0 /\ chunkFrames' = 0
  BY <1>p, <1>t, <1>f DEF FrameEffect, Recording, IndInv, TypeOK
<1>s. writing' = "STOP_WRITING" => stopQueued
  BY <1>p, <1>t DEF FrameEffect, Recording
<1>i. /\ currImage' \in Nat /\ currImage' < circBuffLength
      /\ circBuff' \in [ 0 .. circBuffLength - 1 -> Nat ]
      /\ writePending => \A i \in currSaveStart .. currSaveStop - 1 : circBuff'[i] = circBuff[i]
  <2>1. currImage' \in Nat /\ currImage' < circBuffLength
    <3>1. currImage' = NextSlot(currImage) /\ currImage \in 0 .. circBuffLength - 1
      BY <1>p, <1>f
    <3>2. circBuffLength \in Nat
      BY DEF IndInv, TypeOK
    <3> QED
      BY <3>1, <3>2 DEF NextSlot
  <2>2. circBuff' \in [ 0 .. circBuffLength - 1 -> Nat ]
    BY <1>p, <1>f DEF Idle
  <2>3. writePending => \A i \in currSaveStart .. currSaveStop - 1 : circBuff'[i] = circBuff[i]
    BY <1>p, <1>f DEF IndInv, TypeOK, WindowOwned
  <2> QED
    BY <2>1, <2>2, <2>3
<1> USE DEF IndInv
<1>1. TypeOK'
  BY <1>p, <1>t, <1>i, <1>e DEF FrameEffect, TypeOK, FgLabels
<1>2. ThreadOrder'
  BY <1>p, <1>t, <1>f DEF FrameEffect, ThreadOrder
<1>3. BuffersUsable'
  BY <1>p, <1>t, <1>f, <1>i DEF FrameEffect, BuffersUsable, Connected, Grabbing, LengthsUsable
<1>4. WindowOwned'
  BY <1>p, <1>t DEF FrameEffect, WindowOwned
<1>5. Notified'
  BY <1>t DEF FrameEffect, Notified
<1>6. Encoding'
  BY <1>t DEF FrameEffect, Encoding
<1>7. ChunkInBlock'
  BY <1>e DEF ChunkInBlock
<1>8. ChunkRecording'
  BY <1>e, <1>p DEF ChunkRecording
<1>9. StopHasWork'
  BY <1>t, <1>f, <1>s DEF FrameEffect, StopHasWork
<1>10. StopQueuedIsLast'
  BY <1>t, <1>f, <1>e DEF FrameEffect, StopQueuedIsLast
<1>11. Contents'
  <2>1. UNCHANGED << saved, recorded, writePending, currSaveStart, currSaveStop,
                     chunkFrames, WindowFrames, xrif, swPc >>
    BY <1>t, <1>p DEF FrameEffect, WindowFrames
  <2>2. recorded' = Len(saved) + WindowFrames + chunkFrames'
    BY <2>1, <1>f
  <2> QED
    BY <2>1, <2>2, <1>e, <1>i DEF Contents
<1> QED
  BY <1>1, <1>2, <1>3, <1>4, <1>5, <1>6, <1>7, <1>8, <1>9, <1>10, <1>11

\* A recorded frame preserves the invariant: it extends the chunk by one slot,
\* inside its block and outside the window.
LEMMA FgRecordFrameInv == IndInv /\ FgRecordFrame => IndInv'
<1> SUFFICES ASSUME IndInv, FgRecordFrame PROVE IndInv'
  OBVIOUS
<1> DEFINE full == currImage - nextChunkStart' = writeChunkLength - 1
<1>p. PICK stop \in BOOLEAN, late \in BOOLEAN :
        /\ FrameTaken(stop)
        /\ Recording(WritingAtFrame(stop))
        /\ circBuff' = [ circBuff EXCEPT ![currImage] = recorded + 1 ]
        /\ recorded' = recorded + 1
        /\ chunkFrames' = chunkFrames + 1
        /\ IF chunkFrames = 0
             THEN /\ currChunkStart' = currImage
                  /\ nextChunkStart' = BlockStart(currImage)
             ELSE UNCHANGED << currChunkStart, nextChunkStart >>
        /\ IF full \/ late \/ writing' = "STOP_WRITING"
             THEN /\ fgPc' = "queue"
                  /\ fgCaller' = "frame"
                  /\ fgRearm' = (late /\ ~full)
                  /\ UNCHANGED currImage
             ELSE /\ fgPc' = "grab"
                  /\ currImage' = NextSlot(currImage)
                  /\ UNCHANGED << fgCaller, fgRearm >>
  BY DEF FgRecordFrame
<1>t. FrameEffect(stop)
  BY <1>p, TakenFacts
<1>f. FrameFacts!2
  BY <1>t, FrameFacts DEF FrameEffect
<1>h. Healthy'
  BY <1>f, <1>t DEF FrameEffect, Healthy
<1>s. ~stopQueued /\ writing' \in { "WRITING", "STOP_WRITING" }
  BY <1>p, <1>t, <1>f DEF FrameEffect, Recording
<1>n. /\ chunkFrames \in Nat /\ currImage \in Nat /\ currChunkStart \in Nat
      /\ nextChunkStart \in Nat /\ circBuffLength \in Nat /\ recorded \in Nat
      /\ writeChunkLength \in Nat
  BY DEF IndInv, TypeOK
<1>m. WindowFrames \in Int /\ Len(saved) \in Nat
  BY DEF IndInv, TypeOK, WindowFrames
\* The chunk with the new frame in it lies in the block it started in.
<1>b. PICK start \in Nat, block \in Nat :
          /\ currChunkStart' = start /\ nextChunkStart' = block
          /\ chunkFrames > 0 => start = currChunkStart
          /\ block <= start
          /\ block + writeChunkLength <= circBuffLength
          /\ currImage < block + writeChunkLength
          /\ start + chunkFrames = currImage
  <2>1. CASE chunkFrames = 0
    <3>1. currChunkStart' = currImage /\ nextChunkStart' = BlockStart(currImage)
      BY <1>p, <2>1
    <3>2. circBuffLength % writeChunkLength = 0
      BY <1>f DEF LengthsUsable
    <3>3. /\ BlockStart(currImage) \in Nat
          /\ BlockStart(currImage) <= currImage
          /\ currImage < BlockStart(currImage) + writeChunkLength
          /\ BlockStart(currImage) + writeChunkLength <= circBuffLength
      <4>1. /\ writeChunkLength \in Nat \ {0} /\ circBuffLength \in Nat
            /\ currImage \in Nat /\ currImage < circBuffLength
        BY <1>f, <1>n
      <4> QED
        BY <3>2, <4>1, BlockBounds DEF BlockStart
    <3> QED
      BY <1>n, <2>1, <3>1, <3>3
  <2>2. CASE chunkFrames # 0
    <3>1. UNCHANGED << currChunkStart, nextChunkStart >>
      BY <1>p, <2>2
    <3> QED
      BY <1>f, <1>n, <2>2, <3>1
  <2> QED
    BY <2>1, <2>2
\* Either the chunk is queued, or the next slot is in the same block.
<1>c. /\ fgRearm' \in BOOLEAN /\ fgCaller' \in { "frame", "timeout", "close" }
      /\ \/ fgPc' = "queue" /\ fgCaller' = "frame" /\ currImage' = currImage
         \/ /\ fgPc' = "grab" /\ writing' # "STOP_WRITING"
            /\ currImage' = currImage + 1
            /\ currImage + 1 < block + writeChunkLength
  <2>1. fgRearm' \in BOOLEAN /\ fgCaller' \in { "frame", "timeout", "close" }
    BY <1>p, Zenon DEF IndInv, TypeOK
  <2>2. CASE full \/ late \/ writing' = "STOP_WRITING"
    BY <1>p, <2>1, <2>2
  <2>3. CASE ~(full \/ late \/ writing' = "STOP_WRITING")
    <3>1. fgPc' = "grab" /\ currImage' = NextSlot(currImage)
      BY <1>p, <2>3
    <3>2. currImage + 1 < block + writeChunkLength
      <4>1. currImage - block # writeChunkLength - 1
        BY <2>3, <1>b
      <4> QED
        BY <4>1, <1>b, <1>n
    <3>3. NextSlot(currImage) = currImage + 1
      BY <1>b, <1>n, <3>2 DEF NextSlot
    <3> QED
      BY <2>1, <2>3, <3>1, <3>2, <3>3
  <2> QED
    BY <2>2, <2>3
<1>g. chunkFrames' = chunkFrames + 1 /\ recorded' = recorded + 1
  BY <1>p
<1> HIDE DEF full
<1>d. currImage' \in Nat /\ currImage' < circBuffLength
  BY <1>b, <1>c, <1>n
<1>i. /\ circBuff' \in [ 0 .. circBuffLength - 1 -> Nat ]
      /\ circBuff'[currImage] = recorded + 1
      /\ \A i \in 0 .. circBuffLength - 1 : i # currImage => circBuff'[i] = circBuff[i]
  <2>1. circBuff' = [ circBuff EXCEPT ![currImage] = recorded + 1 ]
    BY <1>p
  <2> QED
    BY <2>1, <1>f, <1>n
<1> USE DEF IndInv
<1>1. TypeOK'
  BY <1>g, <1>t, <1>b, <1>c, <1>d, <1>i, <1>n DEF FrameEffect, TypeOK, FgLabels
<1>2. ThreadOrder'
  BY <1>c, <1>t, <1>f DEF FrameEffect, ThreadOrder
<1>3. BuffersUsable'
  BY <1>c, <1>t, <1>f, <1>d DEF FrameEffect, BuffersUsable, Connected, Grabbing, LengthsUsable
<1>4. WindowOwned'
  BY <1>c, <1>t DEF FrameEffect, WindowOwned
<1>5. Notified'
  BY <1>t DEF FrameEffect, Notified
<1>6. Encoding'
  BY <1>t DEF FrameEffect, Encoding
<1>7. ChunkInBlock'
  BY <1>b, <1>c, <1>g, <1>t, <1>n DEF FrameEffect, ChunkInBlock
<1>8. ChunkRecording'
  <2>1. Grabbing'
    BY <1>c DEF Grabbing
  <2>2. chunkFrames' > 0
    BY <1>g, <1>n
  <2> QED
    BY <2>1, <2>2, <1>s, <1>t DEF ChunkRecording, FrameEffect
<1>9. StopHasWork'
  BY <1>g, <1>n DEF StopHasWork
<1>10. StopQueuedIsLast'
  BY <1>t, <1>s DEF FrameEffect, StopQueuedIsLast
<1>11. Contents'
  <2>1. UNCHANGED << saved, writePending, currSaveStart, currSaveStop, WindowFrames, xrif, swPc >>
    BY <1>t DEF FrameEffect, WindowFrames
  <2>2. recorded' = Len(saved) + WindowFrames + chunkFrames'
    BY <1>p, <1>f, <1>n, <1>m
  <2>3. writePending => \A i \in currSaveStart .. currSaveStop - 1 : circBuff'[i] = circBuff[i]
    BY <1>i, <1>f DEF WindowOwned, TypeOK
  <2>4. \A i \in start .. start + chunkFrames :
            circBuff'[i] = Len(saved) + WindowFrames + 1 + (i - start)
    <3> SUFFICES ASSUME NEW i \in start .. start + chunkFrames
                 PROVE  circBuff'[i] = Len(saved) + WindowFrames + 1 + (i - start)
      OBVIOUS
    <3>1. CASE i = currImage
      <4>1. circBuff'[i] = recorded + 1
        BY <1>i, <3>1
      <4>2. i - start = chunkFrames
        BY <1>b, <1>n, <3>1
      <4> QED
        BY <4>1, <4>2, <1>f, <1>n, <1>m
    <3>2. CASE i # currImage
      <4>1. i \in Nat /\ i < currImage /\ chunkFrames > 0 /\ start = currChunkStart
        BY <1>b, <1>n, <3>2
      <4>2. i \in currChunkStart .. currChunkStart + chunkFrames - 1
        BY <4>1, <1>b, <1>n
      <4>3. circBuff[i] = Len(saved) + WindowFrames + 1 + (i - currChunkStart)
        BY <4>1, <4>2, <1>f DEF Contents
      <4>4. circBuff'[i] = circBuff[i]
        BY <4>1, <1>i, <1>f, <1>n, <3>2
      <4> QED
        BY <4>1, <4>3, <4>4
    <3> QED
      BY <3>1, <3>2
  <2>5. currChunkStart' .. currChunkStart' + chunkFrames' - 1 = start .. start + chunkFrames
    BY <1>b, <1>g, <1>n
  <2> QED
    BY <1>b, <2>1, <2>2, <2>3, <2>4, <2>5 DEF Contents
<1> QED
  BY <1>1, <1>2, <1>3, <1>4, <1>5, <1>6, <1>7, <1>8, <1>9, <1>10, <1>11

\* Flushing a chunk after a semaphore timeout preserves the invariant.
LEMMA FgTimeoutFlushInv == IndInv /\ FgTimeoutFlush => IndInv'
<1> SUFFICES ASSUME IndInv, FgTimeoutFlush PROVE IndInv'
  OBVIOUS
<1> USE DEF IndInv, FgTimeoutFlush,
           mutexVars, windowVars, chunkVars, flagVars, bufVars, fgVars, swVars,
           mainVars, histVars
<1>1. TypeOK'
  BY DEF TypeOK, FgLabels, SwLabels, MainLabels, WritingStates
<1>2. ThreadOrder' /\ WindowOwned' /\ Notified' /\ Encoding'
  BY DEF ThreadOrder, TypeOK, WindowOwned, Notified, Encoding
<1>3. BuffersUsable' /\ ChunkInBlock' /\ ChunkRecording'
  BY DEF BuffersUsable, Connected, Grabbing, LengthsUsable, TypeOK, ChunkInBlock,
         ChunkRecording, Healthy
<1>4. StopHasWork' /\ StopQueuedIsLast' /\ Contents'
  BY DEF StopHasWork, Healthy, TypeOK, StopQueuedIsLast, Contents, WindowFrames
<1> QED
  BY <1>1, <1>2, <1>3, <1>4

\* The inode check after a timeout preserves the invariant.
LEMMA FgStreamCheckInv == IndInv /\ FgStreamCheck => IndInv'
<1> SUFFICES ASSUME IndInv, FgStreamCheck PROVE IndInv'
  OBVIOUS
<1> USE DEF IndInv, FgStreamCheck,
           mutexVars, windowVars, chunkVars, flagVars, bufVars, fgVars, swVars,
           mainVars, histVars
<1>1. TypeOK'
  BY DEF TypeOK, FgLabels, SwLabels, MainLabels, WritingStates
<1>2. ThreadOrder' /\ WindowOwned' /\ Notified' /\ Encoding'
  BY DEF ThreadOrder, TypeOK, WindowOwned, Notified, Encoding
<1>3. BuffersUsable' /\ ChunkInBlock' /\ ChunkRecording'
  BY DEF BuffersUsable, Connected, Grabbing, LengthsUsable, TypeOK, ChunkInBlock,
         ChunkRecording, Healthy
<1>4. StopHasWork' /\ StopQueuedIsLast' /\ Contents'
  BY DEF StopHasWork, Healthy, TypeOK, StopQueuedIsLast, Contents, WindowFrames
<1> QED
  BY <1>1, <1>2, <1>3, <1>4

\* Finding a pending window in queueWrite preserves the invariant.
LEMMA FgQueueBusyInv == IndInv /\ FgQueueBusy => IndInv'
<1> SUFFICES ASSUME IndInv, FgQueueBusy PROVE IndInv'
  OBVIOUS
<1> USE DEF IndInv, FgQueueBusy,
           mutexVars, windowVars, chunkVars, flagVars, bufVars, fgVars, swVars,
           mainVars, histVars
<1>1. TypeOK'
  BY DEF TypeOK, FgLabels, SwLabels, MainLabels, WritingStates
<1>2. ThreadOrder' /\ WindowOwned' /\ Notified' /\ Encoding'
  BY DEF ThreadOrder, TypeOK, WindowOwned, Notified, Encoding
<1>3. BuffersUsable' /\ ChunkInBlock' /\ ChunkRecording'
  BY DEF BuffersUsable, Connected, Grabbing, LengthsUsable, TypeOK, ChunkInBlock,
         ChunkRecording, Healthy
<1>4. StopHasWork' /\ StopQueuedIsLast' /\ Contents'
  BY DEF StopHasWork, Healthy, TypeOK, StopQueuedIsLast, Contents, WindowFrames
<1> QED
  BY <1>1, <1>2, <1>3, <1>4

\* What holds when queueWrite may publish: the chunk is a valid window and the
\* writer has nothing to do.
LEMMA QueueFacts ==
    IndInv /\ QueueReady =>
        /\ Healthy /\ allocated /\ Grabbing /\ Connected
        /\ chunkFrames > 0 /\ ~stopQueued
        /\ writing \in { "WRITING", "STOP_WRITING" }
        /\ recorded = Len(saved) + chunkFrames
        /\ swSemaphore = 0
        /\ swPc \notin { "begin", "copy" }
        /\ mainPc \in { "run", "joinFg" }
        /\ currImage < circBuffLength
        /\ currChunkStart + chunkFrames <= circBuffLength
        /\ chunkFrames <= writeChunkLength
        /\ currChunkStart + chunkFrames
              = IF fgCaller = "frame" THEN currImage + 1 ELSE currImage
        /\ \A i \in currChunkStart .. currChunkStart + chunkFrames - 1 :
              circBuff[i] = Len(saved) + 1 + (i - currChunkStart)
<1> SUFFICES ASSUME IndInv, QueueReady
             PROVE  QueueFacts!2
  OBVIOUS
<1> USE DEF IndInv, QueueReady
<1>1. Healthy /\ mainPc \in { "run", "joinFg" }
  BY DEF ThreadOrder, Healthy, TypeOK, MainLabels
<1>2. allocated /\ Grabbing /\ Connected /\ LengthsUsable(circBuffLength, writeChunkLength) /\ currImage < circBuffLength
  BY DEF BuffersUsable, Grabbing, Connected
<1>3. chunkFrames > 0 /\ ~stopQueued /\ writing \in { "WRITING", "STOP_WRITING" }
  BY <1>1 DEF ChunkRecording
<1>4. recorded = Len(saved) + chunkFrames
  BY <1>1 DEF Contents, WindowFrames, TypeOK
<1>5. swSemaphore = 0 /\ swPc \notin { "begin", "copy" }
  BY <1>1 DEF Notified, TypeOK
<1>6. /\ nextChunkStart <= currChunkStart
      /\ nextChunkStart + writeChunkLength <= circBuffLength
      /\ currImage < nextChunkStart + writeChunkLength
      /\ currChunkStart + chunkFrames
              = IF fgCaller = "frame" THEN currImage + 1 ELSE currImage
  BY <1>2, <1>3 DEF ChunkInBlock
<1>7. \A i \in currChunkStart .. currChunkStart + chunkFrames - 1 :
              circBuff[i] = Len(saved) + 1 + (i - currChunkStart)
  BY <1>1, <1>3 DEF Contents, WindowFrames, TypeOK
<1> QED
  BY <1>1, <1>2, <1>3, <1>4, <1>5, <1>6, <1>7 DEF TypeOK


\* What publishing the chunk does to the window and to the chunk.
LEMMA PublishedStart ==
    IndInv /\ QueueReady /\ PublishChunk =>
        /\ currSaveStart' = currChunkStart
        /\ currSaveStop' = currChunkStart + chunkFrames
        /\ currSaveStop' \in Nat
        /\ stopQueued' = (writing = "STOP_WRITING")
        /\ stopQueued' \in BOOLEAN
        /\ chunkFrames' = 0
        /\ currChunkStart' \in Nat /\ nextChunkStart' \in Nat
<1> SUFFICES ASSUME IndInv, QueueReady, PublishChunk
             PROVE  PublishedStart!2
  OBVIOUS
<1>1. /\ currSaveStart' = currChunkStart
      /\ currSaveStop' = currChunkStart + chunkFrames
      /\ stopQueued' = (writing = "STOP_WRITING")
      /\ chunkFrames' = 0
      /\ currChunkStart' = IF currSaveStop' = circBuffLength THEN 0 ELSE currSaveStop'
      /\ nextChunkStart' = (currChunkStart' \div writeChunkLength) * writeChunkLength
  BY Zenon DEF PublishChunk, BlockStart
<1>2. currSaveStop' \in Nat /\ currChunkStart' \in Nat
  BY <1>1 DEF IndInv, TypeOK
<1>3. writeChunkLength \in Nat \ {0}
  BY QueueFacts DEF IndInv, TypeOK, BuffersUsable
<1>4. currChunkStart' \div writeChunkLength \in Nat
  BY <1>2, <1>3, DivisionTheorem
<1>5. (currChunkStart' \div writeChunkLength) * writeChunkLength \in Nat
  BY <1>3, <1>4, SMT
<1>6. stopQueued' \in BOOLEAN
  BY <1>1, Zenon
<1> QED
  BY <1>1, <1>2, <1>5, <1>6, Zenon

\* Publishing a chunk preserves the invariant: the frames of the chunk become
\* the frames of the window.
LEMMA FgPublishInv == IndInv /\ FgPublish => IndInv'
<1> SUFFICES ASSUME IndInv, FgPublish PROVE IndInv'
  OBVIOUS
<1> USE DEF mutexVars, windowVars, chunkVars, flagVars, bufVars, fgVars, swVars,
            mainVars, histVars
<1>0. QueueReady /\ PublishChunk
  BY DEF FgPublish
<1>a. PublishedStart!2
  BY <1>0, PublishedStart
<1>q. QueueFacts!2
  BY <1>0, QueueFacts
<1>b. /\ writePending' = TRUE
      /\ swSemaphore' = swSemaphore + 1
      /\ fgCaller' = "frame" /\ fgRearm' = FALSE
      /\ UNCHANGED << resumeAfterReconnect, writerFailed, shutdown, restart,
                    bufVars, cnt0flag, swVars, mainVars, histVars >>
  BY Zenon DEF FgPublish
<1>c. \/ writing' = "START_WRITING" /\ restartWriting' = TRUE /\ writing = "WRITING"
      \/ UNCHANGED << writing, restartWriting >>
  BY Zenon DEF FgPublish
<1>d. /\ currImage' \in Nat /\ currImage' < circBuffLength
      /\ fgPc' \in { "grab", "check", "drain" }
  <2>1. currImage' = IF fgCaller = "frame" THEN NextSlot(currImage) ELSE currImage
    BY Zenon DEF FgPublish
  <2>2. fgPc' \in { "grab", "check", "drain" }
    BY DEF FgPublish, IndInv, TypeOK
  <2> QED
    BY <2>1, <2>2, <1>q DEF NextSlot, IndInv, TypeOK
<1>e. Healthy /\ ~gaveUp /\ ~writerFailed /\ ~writePending /\ fgPc \in { "queue", "queueWait" }
  BY <1>0, <1>q DEF Healthy, QueueReady
<1> USE DEF IndInv
<1>1. TypeOK'
  <2>1. /\ writePending' \in BOOLEAN /\ restartWriting' \in BOOLEAN /\ fgRearm' \in BOOLEAN
    BY <1>b, <1>c, Zenon DEF TypeOK
  <2>2. writing' \in WritingStates
    BY <1>c DEF TypeOK, WritingStates
  <2> QED
    BY <1>a, <1>b, <1>d, <2>1, <2>2 DEF TypeOK, FgLabels
<1>2. ThreadOrder'
  BY <1>b, <1>d, <1>e, <1>q DEF ThreadOrder, TypeOK
<1>3. BuffersUsable'
  BY <1>b, <1>d, <1>e, <1>q DEF BuffersUsable, Connected, Grabbing, LengthsUsable, TypeOK
<1>4. WindowOwned'
  BY <1>a, <1>b, <1>c, <1>d, <1>e, <1>q DEF WindowOwned, TypeOK
<1>5. Notified'
  BY <1>b, <1>q DEF Notified, TypeOK
<1>6. Encoding'
  BY <1>b, <1>q DEF Encoding, TypeOK
<1>7. ChunkInBlock'
  BY <1>a DEF ChunkInBlock
<1>8. ChunkRecording'
  BY <1>a, <1>d DEF ChunkRecording
<1>9. StopHasWork'
  BY <1>b DEF StopHasWork
<1>10. StopQueuedIsLast'
  BY <1>a, <1>b, <1>c DEF StopQueuedIsLast
<1>11. Contents'
  BY <1>a, <1>b, <1>e, <1>q DEF Contents, Healthy, WindowFrames, TypeOK
<1> QED
  BY <1>1, <1>2, <1>3, <1>4, <1>5, <1>6, <1>7, <1>8, <1>9, <1>10, <1>11

\* A failing sem_post preserves the invariant: the window is withdrawn.
LEMMA FgPostFailureInv == IndInv /\ FgPostFailure => IndInv'
<1> SUFFICES ASSUME IndInv, FgPostFailure PROVE IndInv'
  OBVIOUS
<1> USE DEF mutexVars, windowVars, chunkVars, flagVars, bufVars, fgVars, swVars,
            mainVars, histVars
<1>0. QueueReady /\ PublishChunk
  BY DEF FgPostFailure
<1>a. PublishedStart!2
  BY <1>0, PublishedStart
<1>q. QueueFacts!2
  BY <1>0, QueueFacts
<1>b. /\ fgPc' = "stopped" /\ gaveUp' = TRUE
      /\ UNCHANGED << writing, writePending, resumeAfterReconnect, currImage,
                    flagVars, bufVars, fgCaller, fgRearm, restartWriting,
                    cnt0flag, swVars, mainVars, recorded, saved, savingLog >>
  BY Zenon DEF FgPostFailure, FgAbandon, FgReturn
<1>e. ~writePending /\ fgPc \in { "queue", "queueWait" }
  BY <1>0 DEF QueueReady
<1>f. ~Healthy'
  BY <1>b, Zenon DEF Healthy
<1> USE DEF IndInv
<1>1. TypeOK'
  <2>1. gaveUp' \in BOOLEAN
    BY <1>b, Zenon
  <2> QED
    BY <1>a, <1>b, <2>1 DEF TypeOK, FgLabels
<1>2. ThreadOrder'
  BY <1>b, <1>e DEF ThreadOrder
<1>3. BuffersUsable'
  BY <1>b DEF BuffersUsable, Connected, Grabbing
<1>4. WindowOwned'
  BY <1>b, <1>e DEF WindowOwned
<1>5. Notified'
  BY <1>b DEF Notified
<1>6. Encoding'
  BY <1>b, <1>q DEF Encoding
<1>7. ChunkInBlock'
  BY <1>b DEF ChunkInBlock, Grabbing
<1>8. ChunkRecording'
  BY <1>f DEF ChunkRecording
<1>9. StopHasWork'
  BY <1>f DEF StopHasWork
<1>10. StopQueuedIsLast'
  BY <1>f DEF StopQueuedIsLast
<1>11. Contents'
  BY <1>b, <1>e, <1>f, <1>q DEF Contents
<1> QED
  BY <1>1, <1>2, <1>3, <1>4, <1>5, <1>6, <1>7, <1>8, <1>9, <1>10, <1>11

\* A refusal of queueWrite preserves the invariant.
LEMMA FgQueueRefusedInv == IndInv /\ FgQueueRefused => IndInv'
<1> SUFFICES ASSUME IndInv, FgQueueRefused PROVE IndInv'
  OBVIOUS
<1> USE DEF IndInv, FgQueueRefused, FgAbandon, FgReturn,
           mutexVars, windowVars, chunkVars, flagVars, bufVars, fgVars, swVars,
           mainVars, histVars
<1>1. TypeOK'
  BY DEF TypeOK, FgLabels, SwLabels, MainLabels, WritingStates
<1>2. ThreadOrder' /\ WindowOwned' /\ Notified' /\ Encoding'
  BY DEF ThreadOrder, TypeOK, WindowOwned, Notified, Encoding
<1>3. BuffersUsable' /\ ChunkInBlock' /\ ChunkRecording'
  BY DEF BuffersUsable, Connected, Grabbing, LengthsUsable, TypeOK, ChunkInBlock,
         ChunkRecording, Healthy
<1>4. StopHasWork' /\ StopQueuedIsLast' /\ Contents'
  BY DEF StopHasWork, Healthy, TypeOK, StopQueuedIsLast, Contents, WindowFrames
<1> QED
  BY <1>1, <1>2, <1>3, <1>4

\* A failed waitForWriteCompletion preserves the invariant.
LEMMA FgWaitFailureInv == IndInv /\ FgWaitFailure => IndInv'
<1> SUFFICES ASSUME IndInv, FgWaitFailure PROVE IndInv'
  OBVIOUS
<1> USE DEF IndInv, FgWaitFailure, FgAbandon, FgReturn,
           mutexVars, windowVars, chunkVars, flagVars, bufVars, fgVars, swVars,
           mainVars, histVars
<1>1. TypeOK'
  BY DEF TypeOK, FgLabels, SwLabels, MainLabels, WritingStates
<1>2. ThreadOrder' /\ WindowOwned' /\ Notified' /\ Encoding'
  BY DEF ThreadOrder, TypeOK, WindowOwned, Notified, Encoding
<1>3. BuffersUsable' /\ ChunkInBlock' /\ ChunkRecording'
  BY DEF BuffersUsable, Connected, Grabbing, LengthsUsable, TypeOK, ChunkInBlock,
         ChunkRecording, Healthy
<1>4. StopHasWork' /\ StopQueuedIsLast' /\ Contents'
  BY DEF StopHasWork, Healthy, TypeOK, StopQueuedIsLast, Contents, WindowFrames
<1> QED
  BY <1>1, <1>2, <1>3, <1>4

\* The end of a connection preserves the invariant: frames of the chunk and a
\* pending window are kept for the drain.
LEMMA FgCloseInv == IndInv /\ FgClose => IndInv'
<1> SUFFICES ASSUME IndInv, FgClose PROVE IndInv'
  OBVIOUS
<1> USE DEF IndInv, FgClose,
           mutexVars, windowVars, chunkVars, flagVars, bufVars, fgVars, swVars,
           mainVars, histVars
<1>0. /\ fgRearm' \in BOOLEAN /\ stopQueued' \in BOOLEAN
      /\ resumeAfterReconnect' \in BOOLEAN
  <2>1. fgRearm' = FALSE \/ fgRearm' = fgRearm
    BY Zenon
  <2>2. stopQueued' = TRUE \/ stopQueued' = stopQueued
    BY Zenon
  <2>3. resumeAfterReconnect' \in BOOLEAN
    BY DEF TypeOK
  <2> QED
    BY <2>1, <2>2, <2>3, Zenon DEF TypeOK
<1>1. TypeOK'
  BY <1>0 DEF TypeOK, FgLabels, SwLabels, MainLabels, WritingStates
<1>2. ThreadOrder' /\ WindowOwned' /\ Notified' /\ Encoding'
  BY DEF ThreadOrder, TypeOK, WindowOwned, Notified, Encoding
<1>3. BuffersUsable' /\ ChunkInBlock' /\ ChunkRecording'
  BY DEF BuffersUsable, Connected, Grabbing, LengthsUsable, TypeOK, ChunkInBlock,
         ChunkRecording, Healthy
<1>4. StopHasWork' /\ StopQueuedIsLast' /\ Contents'
  BY DEF StopHasWork, Healthy, TypeOK, StopQueuedIsLast, Contents, WindowFrames
<1> QED
  BY <1>1, <1>2, <1>3, <1>4

\* The end of the wait for the last window preserves the invariant.
LEMMA FgDrainedInv == IndInv /\ FgDrained => IndInv'
<1> SUFFICES ASSUME IndInv, FgDrained PROVE IndInv'
  OBVIOUS
<1> USE DEF IndInv, FgDrained,
           mutexVars, windowVars, chunkVars, flagVars, bufVars, fgVars, swVars,
           mainVars, histVars
<1>1. TypeOK'
  BY DEF TypeOK, FgLabels, SwLabels, MainLabels, WritingStates
<1>2. ThreadOrder' /\ WindowOwned' /\ Notified' /\ Encoding'
  BY DEF ThreadOrder, TypeOK, WindowOwned, Notified, Encoding
<1>3. BuffersUsable' /\ ChunkInBlock' /\ ChunkRecording'
  BY DEF BuffersUsable, Connected, Grabbing, LengthsUsable, TypeOK, ChunkInBlock,
         ChunkRecording, Healthy
<1>4. StopHasWork' /\ StopQueuedIsLast' /\ Contents'
  BY DEF StopHasWork, Healthy, TypeOK, StopQueuedIsLast, Contents, WindowFrames
<1> QED
  BY <1>1, <1>2, <1>3, <1>4

\* release_circbufs preserves the invariant: no window is pending any more.
LEMMA FgReleaseInv == IndInv /\ FgRelease => IndInv'
<1> SUFFICES ASSUME IndInv, FgRelease PROVE IndInv'
  OBVIOUS
<1> USE DEF IndInv, FgRelease,
           mutexVars, windowVars, chunkVars, flagVars, bufVars, fgVars, swVars,
           mainVars, histVars
<1>0. allocated' \in BOOLEAN /\ restartWriting' \in BOOLEAN
  BY Zenon
<1>1. TypeOK'
  BY <1>0 DEF TypeOK, FgLabels, SwLabels, MainLabels, WritingStates
<1>2. ThreadOrder' /\ WindowOwned' /\ Notified' /\ Encoding'
  BY DEF ThreadOrder, TypeOK, WindowOwned, Notified, Encoding
<1>3. BuffersUsable' /\ ChunkInBlock' /\ ChunkRecording'
  BY DEF BuffersUsable, Connected, Grabbing, LengthsUsable, TypeOK, ChunkInBlock,
         ChunkRecording, Healthy
<1>4. StopHasWork' /\ StopQueuedIsLast' /\ Contents'
  BY DEF StopHasWork, Healthy, TypeOK, StopQueuedIsLast, Contents, WindowFrames,
         ChunkRecording, Grabbing, WindowOwned
<1> QED
  BY <1>1, <1>2, <1>3, <1>4

----------------------------------------------------------------------------
(***************************************************************************)
(* The writer thread.                                                      *)
(***************************************************************************)

\* Consuming a post of the semaphore preserves the invariant.
LEMMA SwWakeInv == IndInv /\ SwWake => IndInv'
<1> SUFFICES ASSUME IndInv, SwWake PROVE IndInv'
  OBVIOUS
<1> USE DEF IndInv, SwWake,
           mutexVars, windowVars, chunkVars, flagVars, bufVars, fgVars, swVars,
           mainVars, histVars
<1>1. TypeOK'
  BY DEF TypeOK, FgLabels, SwLabels, MainLabels, WritingStates
<1>2. ThreadOrder' /\ WindowOwned' /\ Notified' /\ Encoding'
  BY DEF ThreadOrder, TypeOK, WindowOwned, Notified, Encoding
<1>3. BuffersUsable' /\ ChunkInBlock' /\ ChunkRecording'
  BY DEF BuffersUsable, Connected, Grabbing, LengthsUsable, TypeOK, ChunkInBlock,
         ChunkRecording, Healthy
<1>4. StopHasWork' /\ StopQueuedIsLast' /\ Contents'
  BY DEF StopHasWork, Healthy, TypeOK, StopQueuedIsLast, Contents, WindowFrames
<1> QED
  BY <1>1, <1>2, <1>3, <1>4

\* The end of the writer thread preserves the invariant.
LEMMA SwExitInv == IndInv /\ SwExit => IndInv'
<1> SUFFICES ASSUME IndInv, SwExit PROVE IndInv'
  OBVIOUS
<1> USE DEF IndInv, SwExit, WriterDone,
           mutexVars, windowVars, chunkVars, flagVars, bufVars, fgVars, swVars,
           mainVars, histVars
<1>1. TypeOK'
  BY DEF TypeOK, FgLabels, SwLabels, MainLabels, WritingStates
<1>2. ThreadOrder' /\ WindowOwned' /\ Notified' /\ Encoding'
  BY DEF ThreadOrder, TypeOK, WindowOwned, Notified, Encoding
<1>3. BuffersUsable' /\ ChunkInBlock' /\ ChunkRecording'
  BY DEF BuffersUsable, Connected, Grabbing, LengthsUsable, TypeOK, ChunkInBlock,
         ChunkRecording, Healthy
<1>4. StopHasWork' /\ StopQueuedIsLast' /\ Contents'
  BY DEF StopHasWork, Healthy, TypeOK, StopQueuedIsLast, Contents, WindowFrames
<1> QED
  BY <1>1, <1>2, <1>3, <1>4

\* A failing semaphore wait of the writer preserves the invariant.
LEMMA SwFailureInv == IndInv /\ SwFailure => IndInv'
<1> SUFFICES ASSUME IndInv, SwFailure PROVE IndInv'
  OBVIOUS
<1> USE DEF IndInv, SwFailure,
           mutexVars, windowVars, chunkVars, flagVars, bufVars, fgVars, swVars,
           mainVars, histVars
<1>1. TypeOK'
  BY DEF TypeOK, FgLabels, SwLabels, MainLabels, WritingStates
<1>2. ThreadOrder' /\ WindowOwned' /\ Notified' /\ Encoding'
  BY DEF ThreadOrder, TypeOK, WindowOwned, Notified, Encoding
<1>3. BuffersUsable' /\ ChunkInBlock' /\ ChunkRecording'
  BY DEF BuffersUsable, Connected, Grabbing, LengthsUsable, TypeOK, ChunkInBlock,
         ChunkRecording, Healthy
<1>4. StopHasWork' /\ StopQueuedIsLast' /\ Contents'
  BY DEF StopHasWork, Healthy, TypeOK, StopQueuedIsLast, Contents, WindowFrames
<1> QED
  BY <1>1, <1>2, <1>3, <1>4

\* What holds while the writer works on a window: it is pending, inside the
\* buffer, and holds the frames that follow the saved ones.
LEMMA WindowFacts ==
    IndInv /\ swPc \in { "begin", "copy" } =>
        /\ writePending /\ allocated /\ swSemaphore = 0
        /\ mainPc \in { "run", "joinFg", "joinSw" }
        /\ currSaveStart < currSaveStop
        /\ currSaveStop <= circBuffLength
        /\ currSaveStop - currSaveStart <= writeChunkLength
        /\ writing # "NOT_WRITING"
        /\ ~writerFailed
        /\ \A i \in currSaveStart .. currSaveStop - 1 :
              circBuff[i] = Len(saved) + 1 + (i - currSaveStart)
<1> SUFFICES ASSUME IndInv, swPc \in { "begin", "copy" }
             PROVE  WindowFacts!2
  OBVIOUS
<1> USE DEF IndInv
<1>1. mainPc \in { "run", "joinFg", "joinSw" }
  BY DEF ThreadOrder, TypeOK, MainLabels
<1>2. writePending /\ swSemaphore = 0
  BY <1>1 DEF Notified, TypeOK
<1> QED
  BY <1>1, <1>2 DEF WindowOwned, Contents

\* doEncode taking its copy of the window preserves the invariant; its checks
\* never fail.
LEMMA SwBeginInv == IndInv /\ SwBegin => IndInv'
<1> SUFFICES ASSUME IndInv, SwBegin PROVE IndInv'
  OBVIOUS
<1> USE DEF mutexVars, windowVars, chunkVars, flagVars, bufVars, fgVars, swVars,
            mainVars, histVars
<1>0. swPc = "begin"
  BY DEF SwBegin
<1>w. WindowFacts!2
  BY <1>0, WindowFacts
<1>a. /\ saveStart' = currSaveStart /\ saveStop' = currSaveStop
      /\ writePending' = TRUE
      /\ swPc' = "copy"
      /\ UNCHANGED << writing, stopQueued, resumeAfterReconnect, chunkVars,
                      windowVars, flagVars, bufVars, fgVars, xrif, mainVars,
                      histVars >>
  BY <1>w DEF SwBegin, IndInv, TypeOK
<1>b. writePending' = writePending
  BY <1>w, <1>a, Zenon DEF IndInv, TypeOK
<1> USE DEF IndInv
<1>1. TypeOK'
  BY <1>a, <1>b DEF TypeOK, SwLabels
<1>2. ThreadOrder'
  BY <1>0, <1>a DEF ThreadOrder
<1>3. BuffersUsable'
  BY <1>a DEF BuffersUsable, Connected, Grabbing, LengthsUsable
<1>4. WindowOwned'
  BY <1>a, <1>b DEF WindowOwned
<1>5. Notified'
  BY <1>0, <1>a, <1>b DEF Notified
<1>6. Encoding'
  BY <1>0, <1>a, <1>w DEF Encoding, TypeOK
<1>7. ChunkInBlock'
  BY <1>a DEF ChunkInBlock, Grabbing
<1>8. ChunkRecording'
  BY <1>a DEF ChunkRecording, Grabbing, Healthy
<1>9. StopHasWork'
  BY <1>a, <1>b DEF StopHasWork, Healthy
<1>10. StopQueuedIsLast'
  BY <1>a, <1>b DEF StopQueuedIsLast, Healthy
<1>11. Contents'
  BY <1>0, <1>a, <1>b DEF Contents, Healthy, WindowFrames, Encoding
<1> QED
  BY <1>1, <1>2, <1>3, <1>4, <1>5, <1>6, <1>7, <1>8, <1>9, <1>10, <1>11

\* Copying one frame of the window preserves the invariant.
LEMMA SwCopyInv == IndInv /\ SwCopy => IndInv'
<1> SUFFICES ASSUME IndInv, SwCopy PROVE IndInv'
  OBVIOUS
<1> USE DEF mutexVars, windowVars, chunkVars, flagVars, bufVars, fgVars, swVars,
            mainVars, histVars
<1>0. swPc = "copy" /\ Len(xrif) < saveStop - saveStart
  BY DEF SwCopy
<1>w. WindowFacts!2
  BY <1>0, WindowFacts
<1> DEFINE k == Len(xrif)
           s == saveStart + k
<1>a. /\ xrif' = Append(xrif, circBuff[s])
      /\ UNCHANGED << mutexVars, flagVars, bufVars, fgVars, swPc, saveStart,
                      saveStop, mainVars, histVars >>
  BY DEF SwCopy
<1> USE DEF IndInv
<1>b. k \in Nat /\ saveStart = currSaveStart /\ saveStop = currSaveStop
  BY <1>0 DEF Encoding, TypeOK
<1>c. s \in currSaveStart .. currSaveStop - 1 /\ s \in 0 .. circBuffLength - 1
  BY <1>0, <1>b, <1>w DEF TypeOK
<1>d. circBuff[s] = Len(saved) + 1 + k
  BY <1>b, <1>c, <1>w DEF TypeOK
<1>e. xrif' \in Seq(Nat) /\ Len(xrif') = k + 1
      /\ \A j \in 1 .. k + 1 : xrif'[j] = IF j = k + 1 THEN circBuff[s] ELSE xrif[j]
  BY <1>a, <1>b, <1>d DEF TypeOK
<1>1. TypeOK'
  BY <1>a, <1>e DEF TypeOK
<1>2. ThreadOrder'
  BY <1>a DEF ThreadOrder
<1>3. BuffersUsable'
  BY <1>a DEF BuffersUsable, Connected, Grabbing, LengthsUsable
<1>4. WindowOwned'
  BY <1>a DEF WindowOwned
<1>5. Notified'
  BY <1>a DEF Notified
<1>6. Encoding'
  BY <1>0, <1>a, <1>e DEF Encoding, TypeOK
<1>7. ChunkInBlock'
  BY <1>a DEF ChunkInBlock, Grabbing
<1>8. ChunkRecording'
  BY <1>a DEF ChunkRecording, Grabbing, Healthy
<1>9. StopHasWork'
  BY <1>a DEF StopHasWork, Healthy
<1>10. StopQueuedIsLast'
  BY <1>a DEF StopQueuedIsLast, Healthy
<1>11. Contents'
  <2>1. \A j \in 1 .. Len(xrif') : xrif'[j] = Len(saved) + j
    <3>1. \A j \in 1 .. k : xrif[j] = Len(saved) + j
      BY <1>0 DEF Contents
    <3>2. Len(saved) \in Nat
      BY DEF TypeOK
    <3>3. ASSUME NEW j \in 1 .. k + 1 PROVE xrif'[j] = Len(saved) + j
      <4>1. CASE j = k + 1
        BY <1>b, <1>d, <1>e, <3>2, <4>1
      <4>2. CASE j # k + 1
        <5>1. j \in 1 .. k
          BY <1>b, <4>2
        <5> QED
          BY <1>e, <3>1, <4>2, <5>1
      <4> QED
        BY <4>1, <4>2
    <3> QED
      BY <1>e, <3>3
  <2> QED
    BY <1>a, <2>1 DEF Contents, Healthy, WindowFrames
<1> QED
  BY <1>1, <1>2, <1>3, <1>4, <1>5, <1>6, <1>7, <1>8, <1>9, <1>10, <1>11

\* completeWrite preserves the invariant: the frames of the window become saved
\* ones, and a stop is complete only when no frame is left.
LEMMA SwCompleteInv == IndInv /\ SwComplete => IndInv'
<1> SUFFICES ASSUME IndInv, SwComplete PROVE IndInv'
  OBVIOUS
<1> USE DEF mutexVars, windowVars, chunkVars, flagVars, bufVars, fgVars, swVars,
            mainVars, histVars
<1>0. swPc = "copy" /\ MutexFree
  BY DEF SwComplete
<1>w. WindowFacts!2
  BY <1>0, WindowFacts
<1>a. /\ Len(xrif) = saveStop - saveStart
      /\ saved' = saved \o xrif
      /\ stopQueued' = FALSE /\ writePending' = FALSE
      /\ saveStart' = 0 /\ saveStop' = 0 /\ xrif' = << >>
      /\ UNCHANGED << resumeAfterReconnect, chunkVars, windowVars, flagVars,
                      bufVars, fgVars, mainVars, recorded, gaveUp, savingLog >>
  BY Zenon DEF SwComplete
<1>b. /\ ~StopComplete => writing' = writing
      /\ StopComplete => writing' \in { "START_WRITING", "NOT_WRITING" }
      /\ swPc' \in { "report", "wait" }
  BY Zenon DEF SwComplete
<1> USE DEF IndInv
<1>c. Len(xrif) = currSaveStop - currSaveStart
  BY <1>0, <1>a DEF Encoding
<1>d. /\ saved' \in Seq(Nat)
      /\ Len(saved') = Len(saved) + Len(xrif)
      /\ \A i \in 1 .. Len(saved') :
            saved'[i] = IF i <= Len(saved) THEN saved[i] ELSE xrif[i - Len(saved)]
  <2>1. saved \in Seq(Nat) /\ xrif \in Seq(Nat)
    BY DEF TypeOK
  <2>2. /\ saved \o xrif \in Seq(Nat)
        /\ Len(saved \o xrif) = Len(saved) + Len(xrif)
        /\ \A i \in 1 .. Len(saved) + Len(xrif) :
              (saved \o xrif)[i] = IF i <= Len(saved) THEN saved[i]
                                   ELSE xrif[i - Len(saved)]
    BY <2>1, ConcatProperties, Zenon
  <2>3. saved' = saved \o xrif
    BY <1>a
  <2> QED
    BY <2>2, <2>3, Zenon
<1>1. TypeOK'
  <2>1. stopQueued' \in BOOLEAN /\ writePending' \in BOOLEAN
    BY <1>a, Zenon
  <2>2. writing' \in WritingStates /\ swPc' \in SwLabels
    BY <1>b DEF TypeOK, WritingStates, SwLabels
  <2> QED
    BY <1>a, <1>d, <2>1, <2>2 DEF TypeOK
<1>2. ThreadOrder'
  BY <1>0, <1>a, <1>b DEF ThreadOrder
<1>3. BuffersUsable'
  BY <1>a DEF BuffersUsable, Connected, Grabbing, LengthsUsable
<1>4. WindowOwned'
  BY <1>a DEF WindowOwned
<1>5. Notified'
  BY <1>a, <1>b, <1>w DEF Notified
<1>6. Encoding'
  BY <1>a, <1>b DEF Encoding
<1>7. ChunkInBlock'
  BY <1>a DEF ChunkInBlock, Grabbing
<1>8. ChunkRecording'
  <2>1. Healthy /\ chunkFrames > 0 => ~StopComplete
    BY DEF StopComplete, ChunkRecording
  <2> QED
  BY <1>a, <1>b, <2>1 DEF ChunkRecording, Grabbing, Healthy
<1>9. StopHasWork'
  <2>1. writing' = "STOP_WRITING" => chunkFrames # 0
    BY <1>b DEF StopComplete
  <2> QED
    BY <1>a, <2>1 DEF StopHasWork, TypeOK
<1>10. StopQueuedIsLast'
  BY <1>a DEF StopQueuedIsLast
<1>11. Contents'
  <2>1. \A i \in 1 .. Len(saved') : saved'[i] = i
    <3>1. Len(saved) \in Nat /\ Len(xrif) \in Nat
      BY DEF TypeOK
    <3>2. /\ \A i \in 1 .. Len(saved) : saved[i] = i
          /\ \A j \in 1 .. Len(xrif) : xrif[j] = Len(saved) + j
      BY <1>0 DEF Contents
    <3>3. ASSUME NEW i \in 1 .. Len(saved') PROVE saved'[i] = i
      <4>1. CASE i <= Len(saved)
        BY <1>d, <3>1, <3>2, <4>1
      <4>2. CASE ~(i <= Len(saved))
        <5>1. i - Len(saved) \in 1 .. Len(xrif)
          BY <1>d, <3>1, <4>2
        <5>2. xrif[i - Len(saved)] = Len(saved) + (i - Len(saved))
          BY <3>2, <5>1
        <5> QED
          BY <1>d, <3>1, <4>2, <5>2
      <4> QED
        BY <4>1, <4>2
    <3> QED
      BY <3>3
  <2>2. Len(saved') + WindowFrames' = Len(saved) + WindowFrames
    BY <1>a, <1>c, <1>d, <1>w DEF WindowFrames, TypeOK
  <2>3. WindowFrames \in Int
    BY DEF WindowFrames, TypeOK
  <2>4. WindowFrames' \in Int /\ Len(saved') \in Nat
    BY <1>a, <1>d DEF WindowFrames, TypeOK
  <2>5. ~writePending' /\ swPc' # "copy"
    BY <1>a, <1>b
  <2>6. Healthy' => recorded' = Len(saved') + WindowFrames' + chunkFrames'
    BY <1>a, <2>2, <2>3, <2>4 DEF Contents, Healthy, TypeOK
  <2>7. Healthy' /\ chunkFrames' > 0 =>
          \A i \in currChunkStart' .. currChunkStart' + chunkFrames' - 1 :
              circBuff'[i] = Len(saved') + WindowFrames' + 1 + (i - currChunkStart')
    BY <1>a, <2>2, <2>3, <2>4 DEF Contents, Healthy, TypeOK
  <2> QED
    BY <2>1, <2>5, <2>6, <2>7 DEF Contents
<1> QED
  BY <1>1, <1>2, <1>3, <1>4, <1>5, <1>6, <1>7, <1>8, <1>9, <1>10, <1>11

\* Logging the end of a recording preserves the invariant.
LEMMA SwReportInv == IndInv /\ SwReport => IndInv'
<1> SUFFICES ASSUME IndInv, SwReport PROVE IndInv'
  OBVIOUS
<1> USE DEF IndInv, SwReport,
           mutexVars, windowVars, chunkVars, flagVars, bufVars, fgVars, swVars,
           mainVars, histVars
<1>1. TypeOK'
  BY DEF TypeOK, FgLabels, SwLabels, MainLabels, WritingStates
<1>2. ThreadOrder' /\ WindowOwned' /\ Notified' /\ Encoding'
  BY DEF ThreadOrder, TypeOK, WindowOwned, Notified, Encoding
<1>3. BuffersUsable' /\ ChunkInBlock' /\ ChunkRecording'
  BY DEF BuffersUsable, Connected, Grabbing, LengthsUsable, TypeOK, ChunkInBlock,
         ChunkRecording, Healthy
<1>4. StopHasWork' /\ StopQueuedIsLast' /\ Contents'
  BY DEF StopHasWork, Healthy, TypeOK, StopQueuedIsLast, Contents, WindowFrames
<1> QED
  BY <1>1, <1>2, <1>3, <1>4

\* completeWrite(false) preserves the invariant.
LEMMA SwFailInv == IndInv /\ SwFail => IndInv'
<1> SUFFICES ASSUME IndInv, SwFail PROVE IndInv'
  OBVIOUS
<1> USE DEF IndInv, SwFail, MutexFree,
           mutexVars, windowVars, chunkVars, flagVars, bufVars, fgVars, swVars,
           mainVars, histVars
<1>0. stopQueued' \in BOOLEAN /\ writePending' \in BOOLEAN
  BY Zenon
<1>1. TypeOK'
  BY <1>0 DEF TypeOK, FgLabels, SwLabels, MainLabels, WritingStates
<1>2. ThreadOrder' /\ WindowOwned' /\ Notified' /\ Encoding'
  BY DEF ThreadOrder, TypeOK, WindowOwned, Notified, Encoding
<1>3. BuffersUsable' /\ ChunkInBlock' /\ ChunkRecording'
  BY DEF BuffersUsable, Connected, Grabbing, LengthsUsable, TypeOK, ChunkInBlock,
         ChunkRecording, Healthy
<1>4. StopHasWork' /\ StopQueuedIsLast' /\ Contents'
  BY DEF StopHasWork, Healthy, TypeOK, StopQueuedIsLast, Contents, WindowFrames
<1> QED
  BY <1>1, <1>2, <1>3, <1>4

----------------------------------------------------------------------------
(***************************************************************************)
(* The INDI callback and the main thread.                                  *)
(***************************************************************************)

\* The Off request preserves the invariant.
LEMMA ToggleOffInv == IndInv /\ ToggleOff => IndInv'
<1> SUFFICES ASSUME IndInv, ToggleOff PROVE IndInv'
  OBVIOUS
<1> USE DEF IndInv, ToggleOff, MutexFree,
           mutexVars, windowVars, chunkVars, flagVars, bufVars, fgVars, swVars,
           mainVars, histVars
<1>0. resumeAfterReconnect' \in BOOLEAN
  BY Zenon
<1>1. TypeOK'
  BY <1>0 DEF TypeOK, FgLabels, SwLabels, MainLabels, WritingStates
<1>2. ThreadOrder'
  BY DEF ThreadOrder, TypeOK
<1>3. BuffersUsable'
  BY DEF BuffersUsable, Connected, Grabbing, LengthsUsable, TypeOK
<1>4. WindowOwned'
  BY DEF WindowOwned, TypeOK
<1>5. Notified'
  BY DEF Notified, TypeOK
<1>6. Encoding'
  BY DEF Encoding, TypeOK
<1>7. ChunkInBlock'
  BY DEF ChunkInBlock, Grabbing, TypeOK
<1>8. ChunkRecording'
  BY DEF ChunkRecording, Grabbing, Healthy, TypeOK
<1>9. StopHasWork'
  BY DEF StopHasWork, Healthy, TypeOK
<1>10. StopQueuedIsLast'
  <2>0. UNCHANGED << writePending, chunkFrames, gaveUp, writerFailed >>
    BY Zenon DEF ToggleOff
  <2>1. CASE writing = "STOP_WRITING"
     <3>1. UNCHANGED <<writing, stopQueued>> BY <2>1, Zenon DEF ToggleOff
     <3> QED BY <2>0, <3>1 DEF StopQueuedIsLast, Healthy
  <2>2. CASE writing # "STOP_WRITING" /\ chunkFrames > 0
     <3>1. UNCHANGED stopQueued BY <2>2, Zenon DEF ToggleOff
     <3> QED BY <2>0, <2>2, <3>1 DEF StopQueuedIsLast, Healthy
  <2>3. CASE writing # "STOP_WRITING" /\ ~(chunkFrames > 0)
     <3>1. /\ stopQueued' = writePending
           /\ writing' = IF writePending THEN "STOP_WRITING" ELSE "NOT_WRITING"
       BY <2>3, Zenon DEF ToggleOff
     <3>2. chunkFrames = 0 BY <2>3 DEF TypeOK
     <3> QED BY <2>0, <3>1, <3>2 DEF StopQueuedIsLast, Healthy, TypeOK
  <2> QED BY <2>1, <2>2, <2>3, Zenon
<1>11. Contents'
  BY DEF Contents, Healthy, WindowFrames, TypeOK
<1> QED
  BY <1>1, <1>2, <1>3, <1>4, <1>5, <1>6, <1>7, <1>8, <1>9, <1>10, <1>11

\* The On request preserves the invariant.
LEMMA ToggleOnInv == IndInv /\ ToggleOn => IndInv'
<1> SUFFICES ASSUME IndInv, ToggleOn PROVE IndInv'
  OBVIOUS
<1> USE DEF IndInv, ToggleOn, MutexFree,
           mutexVars, windowVars, chunkVars, flagVars, bufVars, fgVars, swVars,
           mainVars, histVars
<1>0. resumeAfterReconnect' \in BOOLEAN /\ stopQueued' \in BOOLEAN
  BY Zenon
<1>1. TypeOK'
  BY <1>0 DEF TypeOK, FgLabels, SwLabels, MainLabels, WritingStates
<1>2. ThreadOrder' /\ WindowOwned' /\ Notified' /\ Encoding'
  BY DEF ThreadOrder, TypeOK, WindowOwned, Notified, Encoding
<1>3. BuffersUsable' /\ ChunkInBlock' /\ ChunkRecording'
  BY DEF BuffersUsable, Connected, Grabbing, LengthsUsable, TypeOK, ChunkInBlock,
         ChunkRecording, Healthy
<1>4. StopHasWork' /\ StopQueuedIsLast' /\ Contents'
  BY DEF StopHasWork, Healthy, TypeOK, StopQueuedIsLast, Contents, WindowFrames,
         ChunkRecording, WindowOwned
<1> QED
  BY <1>1, <1>2, <1>3, <1>4

\* appLogic preserves the invariant.
LEMMA AppLogicInv == IndInv /\ AppLogic => IndInv'
<1> SUFFICES ASSUME IndInv, AppLogic PROVE IndInv'
  OBVIOUS
<1> USE DEF IndInv, AppLogic, Published, MutexFree, FgStopped,
           mutexVars, windowVars, chunkVars, flagVars, bufVars, fgVars, swVars,
           mainVars, histVars
<1>1. TypeOK'
  <2>1. /\ toggle' \in { "On", "Off" } /\ shutdown' \in BOOLEAN
        /\ appState' \in { "STARTUP", "READY", "OPERATING" }
    BY Zenon DEF TypeOK
  <2>2. UNCHANGED << mutexVars, writerFailed, restart, swSemaphore, bufVars,
                     fgVars, swVars, mainPc, histVars >>
    BY Zenon
  <2> HIDE DEF AppLogic
  <2> QED
    BY <2>1, <2>2 DEF TypeOK
<1>2. ThreadOrder'
  BY DEF ThreadOrder, TypeOK
<1>3. BuffersUsable'
  BY DEF BuffersUsable, Connected, Grabbing, LengthsUsable, TypeOK
<1>4. WindowOwned'
  BY DEF WindowOwned, TypeOK
<1>5. Notified'
  BY DEF Notified, TypeOK
<1>6. Encoding'
  BY DEF Encoding, TypeOK
<1>7. ChunkInBlock'
  BY DEF ChunkInBlock, Grabbing, TypeOK
<1>8. ChunkRecording'
  BY DEF ChunkRecording, Grabbing, Healthy, TypeOK
<1>9. StopHasWork'
  BY DEF StopHasWork, Healthy, TypeOK
<1>10. StopQueuedIsLast'
  BY DEF StopQueuedIsLast, Healthy, TypeOK
<1>11. Contents'
  BY DEF Contents, Healthy, WindowFrames, TypeOK
<1> QED
  BY <1>1, <1>2, <1>3, <1>4, <1>5, <1>6, <1>7, <1>8, <1>9, <1>10, <1>11

\* The signal handler preserves the invariant.
LEMMA SigTermInv == IndInv /\ SigTerm => IndInv'
<1> SUFFICES ASSUME IndInv, SigTerm PROVE IndInv'
  OBVIOUS
<1> USE DEF IndInv, SigTerm,
           mutexVars, windowVars, chunkVars, flagVars, bufVars, fgVars, swVars,
           mainVars, histVars
<1>1. TypeOK'
  BY DEF TypeOK, FgLabels, SwLabels, MainLabels, WritingStates
<1>2. ThreadOrder' /\ WindowOwned' /\ Notified' /\ Encoding'
  BY DEF ThreadOrder, TypeOK, WindowOwned, Notified, Encoding
<1>3. BuffersUsable' /\ ChunkInBlock' /\ ChunkRecording'
  BY DEF BuffersUsable, Connected, Grabbing, LengthsUsable, TypeOK, ChunkInBlock,
         ChunkRecording, Healthy
<1>4. StopHasWork' /\ StopQueuedIsLast' /\ Contents'
  BY DEF StopHasWork, Healthy, TypeOK, StopQueuedIsLast, Contents, WindowFrames
<1> QED
  BY <1>1, <1>2, <1>3, <1>4

\* The joins of appShutdown preserve the invariant.
LEMMA AppShutdownJoinInv == IndInv /\ AppShutdownJoin => IndInv'
<1> SUFFICES ASSUME IndInv, AppShutdownJoin PROVE IndInv'
  OBVIOUS
<1> USE DEF IndInv, AppShutdownJoin, FgStopped,
           mutexVars, windowVars, chunkVars, flagVars, bufVars, fgVars, swVars,
           mainVars, histVars
<1>1. TypeOK'
  BY DEF TypeOK, FgLabels, SwLabels, MainLabels, WritingStates
<1>2. ThreadOrder' /\ WindowOwned' /\ Notified' /\ Encoding'
  BY DEF ThreadOrder, TypeOK, WindowOwned, Notified, Encoding
<1>3. BuffersUsable' /\ ChunkInBlock' /\ ChunkRecording'
  BY DEF BuffersUsable, Connected, Grabbing, LengthsUsable, TypeOK, ChunkInBlock,
         ChunkRecording, Healthy
<1>4. StopHasWork' /\ StopQueuedIsLast' /\ Contents'
  BY DEF StopHasWork, Healthy, TypeOK, StopQueuedIsLast, Contents, WindowFrames
<1> QED
  BY <1>1, <1>2, <1>3, <1>4

\* The clean-up of appShutdown preserves the invariant: both threads are
\* gone, so neither a window nor a chunk of a healthy writer is discarded.
LEMMA AppShutdownCleanupInv == IndInv /\ AppShutdownCleanup => IndInv'
<1> SUFFICES ASSUME IndInv, AppShutdownCleanup PROVE IndInv'
  OBVIOUS
<1> USE DEF IndInv, AppShutdownCleanup,
           mutexVars, windowVars, chunkVars, flagVars, bufVars, fgVars, swVars,
           mainVars, histVars
<1>0. /\ writePending' \in BOOLEAN /\ stopQueued' \in BOOLEAN
      /\ resumeAfterReconnect' \in BOOLEAN /\ allocated' \in BOOLEAN
  BY Zenon
<1>1. TypeOK'
  BY <1>0 DEF TypeOK, FgLabels, SwLabels, MainLabels, WritingStates
<1>2. ThreadOrder' /\ WindowOwned' /\ Notified' /\ Encoding'
  BY DEF ThreadOrder, TypeOK, WindowOwned, Notified, Encoding
<1>3. BuffersUsable' /\ ChunkInBlock' /\ ChunkRecording'
  BY DEF BuffersUsable, Connected, Grabbing, LengthsUsable, ThreadOrder, TypeOK,
         ChunkInBlock, ChunkRecording, Healthy
<1>4. StopHasWork' /\ StopQueuedIsLast' /\ Contents'
  BY DEF StopHasWork, Healthy, TypeOK, StopQueuedIsLast, Contents, WindowFrames,
         ChunkRecording, Grabbing, WindowOwned, ThreadOrder
<1> QED
  BY <1>1, <1>2, <1>3, <1>4

\* Stopping the INDI driver preserves the invariant.
LEMMA IndiStopInv == IndInv /\ IndiStop => IndInv'
<1> SUFFICES ASSUME IndInv, IndiStop PROVE IndInv'
  OBVIOUS
<1> USE DEF IndInv, IndiStop,
           mutexVars, windowVars, chunkVars, flagVars, bufVars, fgVars, swVars,
           mainVars, histVars
<1>1. TypeOK'
  BY DEF TypeOK, FgLabels, SwLabels, MainLabels, WritingStates
<1>2. ThreadOrder' /\ WindowOwned' /\ Notified' /\ Encoding'
  BY DEF ThreadOrder, TypeOK, WindowOwned, Notified, Encoding
<1>3. BuffersUsable' /\ ChunkInBlock' /\ ChunkRecording'
  BY DEF BuffersUsable, Connected, Grabbing, LengthsUsable, TypeOK, ChunkInBlock,
         ChunkRecording, Healthy
<1>4. StopHasWork' /\ StopQueuedIsLast' /\ Contents'
  BY DEF StopHasWork, Healthy, TypeOK, StopQueuedIsLast, Contents, WindowFrames
<1> QED
  BY <1>1, <1>2, <1>3, <1>4

----------------------------------------------------------------------------
(***************************************************************************)
(* The theorems.                                                           *)
(***************************************************************************)

\* The invariant holds initially.
LEMMA InitInv == Init => IndInv
<1> SUFFICES ASSUME Init PROVE IndInv
  OBVIOUS
<1> USE DEF Init, IndInv
<1>0. /\ writePending \in BOOLEAN /\ stopQueued \in BOOLEAN
      /\ resumeAfterReconnect \in BOOLEAN /\ writerFailed \in BOOLEAN
      /\ shutdown \in BOOLEAN /\ restart \in BOOLEAN /\ allocated \in BOOLEAN
      /\ fgRearm \in BOOLEAN /\ restartWriting \in BOOLEAN /\ gaveUp \in BOOLEAN
  BY Zenon
<1>1. TypeOK
  BY <1>0 DEF TypeOK, FgLabels, SwLabels, MainLabels, WritingStates
<1>2. ThreadOrder /\ BuffersUsable /\ WindowOwned /\ Notified /\ Encoding
  BY DEF ThreadOrder, BuffersUsable, Connected, Grabbing, WindowOwned, Notified,
         Encoding
<1>3. ChunkInBlock /\ ChunkRecording /\ StopHasWork /\ StopQueuedIsLast
  BY DEF ChunkInBlock, Grabbing, ChunkRecording, StopHasWork, StopQueuedIsLast
<1>4. Contents
  BY DEF Contents, WindowFrames
<1> QED
  BY <1>1, <1>2, <1>3, <1>4

\* Every step of every thread preserves the invariant.
LEMMA NextInv == IndInv /\ [Next]_vars => IndInv'
<1> SUFFICES ASSUME IndInv, [Next]_vars PROVE IndInv'
  OBVIOUS
<1>1. CASE Fg
  BY <1>1, FgOpenInv, FgOpenExitInv, FgAllocateInv, FgBaselineInv, FgBlockInv,
     FgRepeatInv, FgSkipFrameInv, FgRecordFrameInv, FgClockFailureInv,
     FgTimeoutFlushInv, FgStreamCheckInv, FgQueueBusyInv, FgPublishInv,
     FgPostFailureInv, FgQueueRefusedInv, FgWaitFailureInv, FgLoopExitInv,
     FgBreakInv, FgCloseInv, FgDrainedInv, FgReleaseInv
  DEF Fg, FgConnect, FgFrame, FgQueue, FgEnd
<1>2. CASE Sw
  BY <1>2, SwWakeInv, SwExitInv, SwFailureInv, SwBeginInv, SwCopyInv,
     SwCompleteInv, SwReportInv, SwFailInv
  DEF Sw
<1>3. CASE Indi
  BY <1>3, ToggleOffInv, ToggleOnInv DEF Indi
<1>4. CASE UNCHANGED vars
  <2> USE <1>4 DEF IndInv, vars, mutexVars, windowVars, chunkVars, flagVars,
                   bufVars, fgVars, swVars, mainVars, histVars
  <2>1. TypeOK'
    BY DEF TypeOK
  <2>2. ThreadOrder' /\ WindowOwned' /\ Notified' /\ Encoding'
    BY DEF ThreadOrder, WindowOwned, Notified, Encoding
  <2>3. BuffersUsable' /\ ChunkInBlock' /\ ChunkRecording'
    BY DEF BuffersUsable, ChunkInBlock, ChunkRecording, Connected, Grabbing,
           LengthsUsable, Healthy
  <2>4. StopHasWork' /\ StopQueuedIsLast' /\ Contents'
    BY DEF StopHasWork, StopQueuedIsLast, Contents, Healthy, WindowFrames
  <2> QED
    BY <2>1, <2>2, <2>3, <2>4
<1>5. CASE Main
  BY <1>4, <1>5, AppLogicInv, SigTermInv, AppShutdownJoinInv,
     AppShutdownCleanupInv, IndiStopInv
  DEF Main, Ended
<1> QED
  BY <1>1, <1>2, <1>3, <1>4, <1>5 DEF Next

\* The inductive invariant holds in every reachable state, for every geometry,
\* every number of frames and every pattern of failures: the invariant of the
\* four threads that share the circular buffer and m_writeMutex.
THEOREM Invariance == Spec => []IndInv
  BY InitInv, NextInv, PTL DEF Spec

\* Every variable keeps its type; the circular buffer has circBuffLength slots
\* whenever it is allocated.
THEOREM TypeCorrectness == Spec => []TypeOK
<1>1. IndInv => TypeOK
  BY DEF IndInv
<1> QED
  BY <1>1, Invariance, PTL

\* The files hold the recorded frames in order, each exactly once, whatever
\* fails and whenever the stream is replaced or the recording stopped.
THEOREM FilesInOrder == Spec => []SavedInOrder
<1>1. IndInv => SavedInOrder
  BY DEF IndInv, Contents, SavedInOrder
<1> QED
  BY <1>1, Invariance, PTL

\* Unless a thread gave up, every recorded frame is saved, pending or in the
\* chunk.
THEOREM NoFrameLost == Spec => []NothingLost
<1>1. IndInv => NothingLost
  BY DEF IndInv, Contents, NothingLost
<1> QED
  BY <1>1, Invariance, PTL

\* A healthy writer that says NOT_WRITING, or that has shut down, has everything
\* on disk.
THEOREM StoppedIsSaved == Spec => []IdleMeansSaved /\ []ShutdownDrains
<1>1. IndInv => IdleMeansSaved
  <2> SUFFICES ASSUME IndInv, Healthy, writing = "NOT_WRITING"
               PROVE  Len(saved) = recorded
    BY DEF IdleMeansSaved
  <2>1. ~writePending
    BY DEF IndInv, WindowOwned
  <2>2. chunkFrames = 0
    BY DEF IndInv, ChunkRecording, TypeOK
  <2> QED
    BY <2>1, <2>2 DEF IndInv, Contents, WindowFrames, TypeOK
<1>2. IndInv => ShutdownDrains
  <2> SUFFICES ASSUME IndInv, Healthy, mainPc \in { "indiStop", "end" }
               PROVE  Len(saved) = recorded
    BY DEF ShutdownDrains
  <2>1. ~writePending
    BY DEF IndInv, WindowOwned
  <2>2. fgPc = "stopped"
    BY DEF IndInv, ThreadOrder
  <2>3. chunkFrames = 0
    BY <2>2 DEF IndInv, ChunkRecording, Grabbing, TypeOK
  <2> QED
    BY <2>1, <2>3 DEF IndInv, Contents, WindowFrames, TypeOK
<1> QED
  BY <1>1, <1>2, Invariance, PTL

\* The buffers stay allocated while the writer owns a window of them, and the
\* window has exactly one notification.
THEOREM WindowSafe == Spec => []BuffersHeld /\ []OneNotification
<1>1. IndInv => BuffersHeld
  BY DEF IndInv, WindowOwned, BuffersHeld
<1>2. IndInv => OneNotification
  BY DEF IndInv, ThreadOrder, Notified, OneNotification, TypeOK
<1> QED
  BY <1>1, <1>2, Invariance, PTL

\* queueWrite is never called with an empty chunk or with one that is not a
\* valid window.
THEOREM ChunksAreValid == Spec => []QueuedChunkValid
<1>1. IndInv => QueuedChunkValid
  <2> SUFFICES ASSUME IndInv, fgPc \in { "queue", "queueWait" }, Healthy
               PROVE  ChunkValid /\ chunkFrames > 0
    BY DEF QueuedChunkValid
  <2>1. chunkFrames > 0 /\ Grabbing
    BY DEF IndInv, ChunkRecording, Grabbing
  <2> QED
    BY <2>1 DEF IndInv, ChunkInBlock, ChunkValid, TypeOK
<1> QED
  BY <1>1, Invariance, PTL

\* A stop request always has a pending window or frames to queue, and once it is
\* queued no frame is added to the recording.
THEOREM StopIsSound == Spec => []StopHasWork /\ []StopQueuedIsLast
<1>1. IndInv => StopHasWork /\ StopQueuedIsLast
  BY DEF IndInv
<1> QED
  BY <1>1, Invariance, PTL

----------------------------------------------------------------------------
(***************************************************************************)
(* The pending window, step by step.                                       *)
(***************************************************************************)

\* No step with the window pending before and after it changes the window, the
\* length of the circular buffer or a slot of the window.
LEMMA WindowKept ==
    ASSUME IndInv, [Next]_vars, writePending, writePending'
    PROVE  /\ UNCHANGED << currSaveStart, currSaveStop, circBuffLength >>
           /\ \A i \in currSaveStart .. currSaveStop - 1 : circBuff'[i] = circBuff[i]
<1> USE DEF mutexVars, windowVars, chunkVars, flagVars, bufVars, fgVars, swVars,
            mainVars, histVars
<1>1. CASE FgConnect
  <2>1. fgPc \notin { "allocate", "release" }
    BY DEF IndInv, WindowOwned
  <2> QED
    BY <1>1, <2>1 DEF FgConnect, FgOpen, FgOpenExit, FgAllocate, FgBaseline
<1>2. CASE FgSkipFrame \/ FgRecordFrame
  <2>1. PICK stop \in BOOLEAN, f \in { Idle, recorded + 1 } :
          FrameTaken(stop) /\ circBuff' = [ circBuff EXCEPT ![currImage] = f ]
    BY <1>2, Zenon DEF FgSkipFrame, FgRecordFrame
  <2>2. FrameEffect(stop)
    BY <2>1, TakenFacts
  <2>3. FrameFacts!2
    BY <2>2, FrameFacts DEF FrameEffect
  <2>4. \A i \in currSaveStart .. currSaveStop - 1 : circBuff'[i] = circBuff[i]
    BY <2>1, <2>3 DEF IndInv, TypeOK, WindowOwned
  <2> QED
    BY <2>2, <2>4 DEF FrameEffect
<1>3. CASE FgBlock \/ FgRepeat \/ FgClockFailure \/ FgTimeoutFlush \/ FgStreamCheck
  BY <1>3, Zenon DEF FgBlock, FgRepeat, FgClockFailure, FgTimeoutFlush, FgStreamCheck
<1>4. CASE FgQueue
  <2>1. ~FgPublish /\ ~FgPostFailure
    BY DEF FgPublish, FgPostFailure, QueueReady
  <2> QED
    BY <1>4, <2>1, Zenon DEF FgQueue, FgQueueBusy, FgQueueRefused, FgWaitFailure
<1>5. CASE FgEnd
  <2>1. ~FgRelease
    BY DEF IndInv, WindowOwned, FgRelease
  <2> QED
    BY <1>5, <2>1, Zenon DEF FgEnd, FgLoopExit, FgBreak, FgClose, FgDrained
<1>6. CASE Sw
  BY <1>6, Zenon DEF Sw, SwWake, SwExit, SwFailure, SwBegin, SwCopy, SwComplete,
                     SwReport, SwFail
<1>7. CASE Indi
  BY <1>7, Zenon DEF Indi, ToggleOff, ToggleOn
<1>8. CASE UNCHANGED vars
  BY <1>8, Zenon DEF vars
<1>9. CASE Main
  <2>1. ~AppShutdownCleanup
    BY Zenon DEF AppShutdownCleanup
  <2> QED
    BY <1>8, <1>9, <2>1, Zenon DEF Main, AppLogic, SigTerm, AppShutdownJoin, IndiStop,
                                   Ended
<1> QED
  BY <1>1, <1>2, <1>3, <1>4, <1>5, <1>6, <1>7, <1>8, <1>9, Zenon
  DEF Next, Fg, FgFrame

\* While a window is pending nobody changes it or the slots in it, however many
\* frames arrive and whatever ends the connection.
THEOREM PendingWindowKept == Spec => WindowStable
<1>1. ASSUME IndInv, [Next]_vars, writePending, writePending'
      PROVE  /\ UNCHANGED << currSaveStart, currSaveStop, circBuffLength >>
             /\ \A i \in currSaveStart .. currSaveStop - 1 : circBuff'[i] = circBuff[i]
  BY <1>1, WindowKept
<1>2. IndInv /\ [Next]_vars => [ writePending /\ writePending' =>
          /\ UNCHANGED << currSaveStart, currSaveStop, circBuffLength >>
          /\ \A i \in currSaveStart .. currSaveStop - 1 : circBuff'[i] = circBuff[i]
      ]_vars
  BY <1>1
<1> QED
  BY <1>2, Invariance, PTL DEF Spec, WindowStable

----------------------------------------------------------------------------
(***************************************************************************)
(* Refinement: what the steps do to the recording.                         *)
(***************************************************************************)

\* The frames of a pending window are accounted for even after the fg thread has
\* given up, when NothingLost no longer holds; then the writer still completes
\* the window, and the stop if that is what it waits for.
WindowAccounted ==
    writePending =>
        /\ recorded = Len(saved) + WindowFrames + chunkFrames
        /\ stopQueued => chunkFrames = 0

\* The steps that change what is recorded or saved are the two obvious ones.
LEMMA HistoryKept ==
    ASSUME [Next]_vars, ~FgRecordFrame, ~SwComplete
    PROVE  UNCHANGED << recorded, saved >>
<1> USE DEF mutexVars, windowVars, chunkVars, flagVars, bufVars, fgVars, swVars,
            mainVars, histVars
<1>1. CASE FgConnect
  BY <1>1, Zenon DEF FgConnect, FgOpen, FgOpenExit, FgAllocate, FgBaseline
<1>2. CASE FgFrame
  BY <1>2, Zenon DEF FgFrame, FgBlock, FgRepeat, FgSkipFrame, FrameTaken, FgClockFailure
<1>3. CASE FgTimeoutFlush \/ FgStreamCheck
  BY <1>3, Zenon DEF FgTimeoutFlush, FgStreamCheck
<1>4. CASE FgQueue
  BY <1>4, Zenon DEF FgQueue, FgQueueBusy, FgPublish, FgPostFailure, FgQueueRefused,
                     FgWaitFailure
<1>5. CASE FgEnd
  BY <1>5, Zenon DEF FgEnd, FgLoopExit, FgBreak, FgClose, FgDrained, FgRelease
<1>6. CASE Sw
  BY <1>6, Zenon DEF Sw, SwWake, SwExit, SwFailure, SwBegin, SwCopy, SwReport, SwFail
<1>7. CASE Indi
  BY <1>7, Zenon DEF Indi, ToggleOff, ToggleOn
<1>8. CASE UNCHANGED vars
  BY <1>8, Zenon DEF vars
<1>9. CASE Main
  BY <1>8, <1>9, Zenon DEF Main, AppLogic, SigTerm, AppShutdownJoin,
                           AppShutdownCleanup, IndiStop, Ended
<1> QED
  BY <1>1, <1>2, <1>3, <1>4, <1>5, <1>6, <1>7, <1>8, <1>9, Zenon DEF Next, Fg

\* Once the fg thread has returned, none of its actions is possible.
LEMMA StoppedTakesNoStep == fgPc = "stopped" => ~Fg
<1> SUFFICES ASSUME fgPc = "stopped", Fg PROVE FALSE
  OBVIOUS
<1>1. CASE FgConnect
  BY <1>1 DEF FgConnect, FgOpen, FgOpenExit, FgAllocate, FgBaseline
<1>2. CASE FgFrame
  BY <1>2 DEF FgFrame, FgBlock, FgRepeat, FgSkipFrame, FgRecordFrame, FrameTaken,
              FgClockFailure, FrameReady
<1>3. CASE FgTimeoutFlush \/ FgStreamCheck
  BY <1>3 DEF FgTimeoutFlush, FgStreamCheck
<1>4. CASE FgQueue
  <2>1. ~QueueReady
    BY DEF QueueReady
  <2> QED
    BY <1>4, <2>1, Zenon DEF FgQueue, FgQueueBusy, FgPublish, FgPostFailure, FgQueueRefused,
                     FgWaitFailure
<1>5. CASE FgEnd
  BY <1>5 DEF FgEnd, FgLoopExit, FgBreak, FgClose, FgDrained, FgRelease, FrameReady
<1> QED
  BY <1>1, <1>2, <1>3, <1>4, <1>5 DEF Fg

\* The fg thread gives up in four ways; in three of them it leaves everything the
\* mutex protects as it is, in the fourth no window is pending.
LEMMA GivingUp ==
    ASSUME [Next]_vars, gaveUp' # gaveUp
    PROVE  Fg /\ (UNCHANGED mutexVars \/ FgPostFailure)
<1> USE DEF flagVars, bufVars, fgVars, swVars, mainVars, histVars
<1>1. CASE FgConnect
  BY <1>1, Zenon DEF FgConnect, FgOpen, FgOpenExit, FgAllocate, FgBaseline
<1>2. CASE FgFrame
  BY <1>2, Zenon DEF Fg, FgFrame, FgBlock, FgRepeat, FgSkipFrame, FgRecordFrame, FrameTaken, FgClockFailure
<1>3. CASE FgTimeoutFlush \/ FgStreamCheck
  BY <1>3, Zenon DEF FgTimeoutFlush, FgStreamCheck
<1>4. CASE FgQueue
  BY <1>4, Zenon DEF Fg, FgQueue, FgQueueBusy, FgPublish, FgQueueRefused,
                     FgWaitFailure
<1>5. CASE FgEnd
  BY <1>5, Zenon DEF FgEnd, FgLoopExit, FgBreak, FgClose, FgDrained, FgRelease
<1>6. CASE Sw
  BY <1>6, Zenon DEF Sw, SwWake, SwExit, SwFailure, SwBegin, SwCopy, SwComplete, SwReport, SwFail
<1>7. CASE Indi
  BY <1>7, Zenon DEF Indi, ToggleOff, ToggleOn
<1>8. CASE UNCHANGED vars
  BY <1>8, Zenon DEF vars
<1>9. CASE Main
  BY <1>8, <1>9, Zenon DEF Main, AppLogic, SigTerm, AppShutdownJoin,
                           AppShutdownCleanup, IndiStop, Ended
<1> QED
  BY <1>1, <1>2, <1>3, <1>4, <1>5, <1>6, <1>7, <1>8, <1>9, Zenon DEF Next, Fg

\* Nobody repairs a writer that has failed: gaveUp and m_writerFailed are never
\* cleared.
LEMMA FailureIsFinal ==
    ASSUME IndInv, [Next]_vars, Healthy'
    PROVE  Healthy
<1> USE DEF flagVars, bufVars, fgVars, swVars, mainVars, histVars
<1>1. gaveUp => gaveUp'
  <2> SUFFICES ASSUME gaveUp PROVE gaveUp'
    OBVIOUS
  <2>1. fgPc = "stopped"
    BY DEF IndInv, ThreadOrder
  <2> QED
    BY <2>1, GivingUp, StoppedTakesNoStep
<1>2. writerFailed => writerFailed'
  <2>1. CASE FgConnect
    BY <2>1, Zenon DEF FgConnect, FgOpen, FgOpenExit, FgAllocate, FgBaseline
  <2>2. CASE FgFrame
    BY <2>2, Zenon DEF FgFrame, FgBlock, FgRepeat, FgSkipFrame, FgRecordFrame,
                       FrameTaken, FgClockFailure
  <2>3. CASE FgTimeoutFlush \/ FgStreamCheck
    BY <2>3, Zenon DEF FgTimeoutFlush, FgStreamCheck
  <2>4. CASE FgQueue
    BY <2>4, Zenon DEF FgQueue, FgQueueBusy, FgPublish, FgPostFailure, FgQueueRefused,
                       FgWaitFailure
  <2>5. CASE FgEnd
    BY <2>5, Zenon DEF FgEnd, FgLoopExit, FgBreak, FgClose, FgDrained, FgRelease
  <2>6. CASE Sw
    BY <2>6, Zenon DEF Sw, SwWake, SwExit, SwFailure, SwBegin, SwCopy, SwComplete,
                       SwReport, SwFail
  <2>7. CASE Indi
    BY <2>7, Zenon DEF Indi, ToggleOff, ToggleOn
  <2>8. CASE UNCHANGED vars
    BY <2>8, Zenon DEF vars
  <2>9. CASE Main
    BY <2>8, <2>9, Zenon DEF Main, AppLogic, SigTerm, AppShutdownJoin,
                             AppShutdownCleanup, IndiStop, Ended
  <2> QED
    BY <2>1, <2>2, <2>3, <2>4, <2>5, <2>6, <2>7, <2>8, <2>9, Zenon DEF Next, Fg
<1> QED
  BY <1>1, <1>2, Zenon DEF Healthy, IndInv, TypeOK

\* A step keeps the frames of a pending window accounted for.
LEMMA WindowAccountedStep ==
    ASSUME IndInv, IndInv', WindowAccounted, [Next]_vars
    PROVE  WindowAccounted'
<1> SUFFICES ASSUME writePending'
             PROVE  /\ recorded' = Len(saved') + WindowFrames' + chunkFrames'
                    /\ stopQueued' => chunkFrames' = 0
  BY DEF WindowAccounted
<1>1. CASE Healthy'
  BY <1>1 DEF IndInv, Contents, StopQueuedIsLast
<1>2. CASE ~Healthy'
  <2>1. ~writerFailed' /\ gaveUp'
    BY <1>2 DEF IndInv, WindowOwned, Healthy
  <2>2. CASE gaveUp' # gaveUp
    <3>1. ~FgPostFailure
      BY DEF FgPostFailure, QueueReady, IndInv, TypeOK
    <3>2. UNCHANGED mutexVars
      BY <2>2, <3>1, GivingUp
    <3>3. UNCHANGED << recorded, saved >>
      <4>1. ~FgRecordFrame /\ ~SwComplete
        BY <2>2, Zenon DEF FgRecordFrame, FrameTaken, SwComplete
      <4> QED
        BY <4>1, HistoryKept
    <3> QED
      BY <3>2, <3>3 DEF WindowAccounted, WindowFrames, mutexVars
  <2>3. CASE gaveUp' = gaveUp
    <3> USE DEF mutexVars, windowVars, chunkVars, flagVars, bufVars, fgVars, swVars,
                mainVars, histVars
    <3>1. ~Fg
      BY <2>1, <2>3, StoppedTakesNoStep DEF IndInv, ThreadOrder
    <3>2. ~SwComplete /\ ~SwFail /\ ~AppShutdownCleanup
      BY Zenon DEF SwComplete, SwFail, AppShutdownCleanup
    <3>3. UNCHANGED << recorded, saved >>
      BY <3>1, <3>2, HistoryKept DEF Fg, FgFrame
    <3>4. writePending
      <4>1. SwBegin => writePending
        BY WindowFacts DEF SwBegin
      <4> QED
        BY <3>1, <3>2, <4>1, Zenon
        DEF Next, vars, Sw, SwWake, SwExit, SwFailure, SwCopy, SwReport, Indi,
            ToggleOff, ToggleOn, Main, AppLogic, SigTerm, AppShutdownJoin, IndiStop,
            Ended
    <3>5. ~ToggleOn
      BY <3>4 DEF IndInv, WindowOwned, ToggleOn
    <3>6. UNCHANGED << currSaveStart, currSaveStop, chunkFrames >>
      BY <3>1, <3>2, <3>5, Zenon DEF Next, vars, Sw, SwWake, SwExit, SwFailure, SwBegin,
         SwCopy, SwReport, Indi, ToggleOff, Main, AppLogic, SigTerm, AppShutdownJoin,
         IndiStop, Ended
    <3>7. stopQueued' => stopQueued \/ chunkFrames = 0
      <4>1. ToggleOff => (stopQueued' => stopQueued \/ ~(chunkFrames > 0))
        BY Zenon DEF ToggleOff
      <4>2. ~ToggleOff => stopQueued' = stopQueued
        BY <3>1, <3>2, <3>5, Zenon DEF Next, vars, Sw, SwWake, SwExit, SwFailure, SwBegin,
           SwCopy, SwReport, Indi, Main, AppLogic, SigTerm, AppShutdownJoin,
           IndiStop, Ended
      <4>3. ~(chunkFrames > 0) => chunkFrames = 0
        BY DEF IndInv, TypeOK
      <4> QED
        BY <4>1, <4>2, <4>3, Zenon
    <3>8. WindowFrames' = WindowFrames
      BY <3>4, <3>6 DEF WindowFrames
    <3> QED
      BY <3>3, <3>4, <3>6, <3>7, <3>8 DEF WindowAccounted
  <2> QED
    BY <2>2, <2>3
<1> QED
  BY <1>1, <1>2

----------------------------------------------------------------------------
(***************************************************************************)
(* Refinement: every step is a step of the recorder.                       *)
(***************************************************************************)

\* What Phase is for each value of m_writing.
LEMMA PhaseOf ==
    /\ writing = "NOT_WRITING" => Phase = "Idle"
    /\ writing \in { "START_WRITING", "WRITING" } => Phase = "Recording"
    /\ writing = "STOP_WRITING" => Phase = "Stopping"
  BY DEF Phase

\* ... and after a step.
LEMMA PhaseAfter ==
    /\ writing' = "NOT_WRITING" => Phase' = "Idle"
    /\ writing' \in { "START_WRITING", "WRITING" } => Phase' = "Recording"
    /\ writing' = "STOP_WRITING" => Phase' = "Stopping"
  BY DEF Phase

\* A recorded frame is a Record step.
LEMMA RecordFrameRefines ==
    ASSUME IndInv, FgRecordFrame
    PROVE  R!Record
<1>1. PICK stop \in BOOLEAN : /\ FrameTaken(stop) /\ Recording(WritingAtFrame(stop))
                              /\ recorded' = recorded + 1
  BY DEF FgRecordFrame
<1>2. FrameEffect(stop)
  BY <1>1, TakenFacts
<1>3. /\ writing \in { "START_WRITING", "WRITING", "STOP_WRITING" }
      /\ writing' = "WRITING" \/ writing' = "STOP_WRITING"
      /\ writing = "STOP_WRITING" => writing' = "STOP_WRITING"
  BY <1>1, <1>2 DEF FrameEffect, Recording, WritingAtFrame, IndInv, TypeOK, WritingStates
<1>4. saved' = saved /\ Healthy' = Healthy
  BY <1>2, Zenon DEF FrameEffect, Healthy
<1>5. /\ Phase # "Idle"
      /\ Phase' = Phase \/ (Phase = "Recording" /\ Phase' = "Stopping")
  BY <1>3, PhaseOf, PhaseAfter
<1> QED
  BY <1>1, <1>4, <1>5, Zenon DEF R!Record

\* The completion of a window is a Save step: the frames copied out of the window
\* are the next ones of the recording, and the stop is complete only with the last.
LEMMA CompleteRefines ==
    ASSUME IndInv, WindowAccounted, SwComplete
    PROVE  R!Save
<1> DEFINE n == Len(xrif)
<1>1. /\ swPc = "copy" /\ n = saveStop - saveStart
      /\ saved' = saved \o xrif
      /\ UNCHANGED << recorded, gaveUp, writerFailed >>
  BY Zenon DEF SwComplete, flagVars
<1>2. WindowFacts!2
  BY <1>1, WindowFacts
<1>3. n = WindowFrames /\ n \in Nat /\ n > 0
  BY <1>1, <1>2 DEF IndInv, Encoding, WindowFrames, TypeOK
<1>4. /\ recorded = Len(saved) + n + chunkFrames
      /\ stopQueued => chunkFrames = 0
  BY <1>2, <1>3 DEF WindowAccounted
<1>5. Len(saved) \in Nat /\ chunkFrames \in Nat /\ recorded \in Nat
  BY DEF IndInv, TypeOK
<1>6. n \in 1 .. recorded - Len(saved)
  BY <1>3, <1>4, <1>5
<1>7. xrif = [ i \in 1 .. n |-> Len(saved) + i ]
  <2>1. xrif \in Seq(Nat) /\ \A k \in 1 .. n : xrif[k] = Len(saved) + k
    BY <1>1 DEF IndInv, TypeOK, Contents
  <2>2. xrif = [ i \in 1 .. n |-> xrif[i] ]
    BY <2>1
  <2> QED
    BY <2>1, <2>2, Zenon
<1>8. Len(saved') = Len(saved) + n
  BY <1>1, ConcatProperties DEF IndInv, TypeOK
<1>9. StopComplete => Len(saved') = recorded
  BY <1>4, <1>5, <1>8 DEF StopComplete
<1>10. /\ writing \in { "START_WRITING", "WRITING", "STOP_WRITING" }
       /\ ~StopComplete => writing' = writing
       /\ StopComplete => writing = "STOP_WRITING"
                          /\ writing' \in { "START_WRITING", "NOT_WRITING" }
  <2>1. writing \in WritingStates
    BY DEF IndInv, TypeOK
  <2>2. /\ ~StopComplete => writing' = writing
        /\ StopComplete => writing' \in { "START_WRITING", "NOT_WRITING" }
    BY Zenon DEF SwComplete
  <2> QED
    BY <1>2, <2>1, <2>2 DEF StopComplete, WritingStates
<1>11. Phase # "Idle"
  BY <1>10, PhaseOf
<1>12. \/ Phase' = Phase
       \/ Phase = "Stopping" /\ Len(saved') = recorded /\ Phase' \in { "Idle", "Recording" }
  <2>1. CASE StopComplete
    BY <1>9, <1>10, <2>1, PhaseOf, PhaseAfter
  <2>2. CASE ~StopComplete
    BY <1>10, <2>2, PhaseOf, PhaseAfter
  <2> QED
    BY <2>1, <2>2
<1>13. UNCHANGED << recorded, ~Healthy >>
  BY <1>1, Zenon DEF Healthy
<1>14. \E k \in 1 .. recorded - Len(saved) :
          saved' = saved \o [ i \in 1 .. k |-> Len(saved) + i ]
  BY <1>1, <1>6, <1>7, Zenon
<1> QED
  BY <1>11, <1>12, <1>13, <1>14, Zenon DEF R!Save

\* What a step may do to m_writing unless it records a frame or completes a window:
\* neither leave STOP_WRITING nor enter it from NOT_WRITING.
StopKept ==
    /\ writing = "STOP_WRITING" => writing' = "STOP_WRITING"
    /\ writing = "NOT_WRITING" => writing' # "STOP_WRITING"

\* Besides a completed window, no step of a writer that stays healthy leaves
\* STOP_WRITING, and none enters it from NOT_WRITING.
LEMMA WritingSteps ==
    ASSUME IndInv, [Next]_vars, ~FgRecordFrame, ~SwComplete, Healthy, Healthy'
    PROVE  StopKept
<1> USE DEF StopKept, mutexVars
<1>1. CASE FgConnect
  BY <1>1, Zenon DEF FgConnect, FgOpen, FgOpenExit, FgAllocate, FgBaseline
<1>2. CASE FgFrame
  <2>1. FgSkipFrame => \E stop \in BOOLEAN : writing' = WritingAtFrame(stop)
    BY Zenon DEF FgSkipFrame, FrameTaken
  <2>2. FgSkipFrame => StopKept
    BY <2>1 DEF WritingAtFrame
  <2> QED
    BY <1>2, <2>2, Zenon DEF FgFrame, FgBlock, FgRepeat, FgClockFailure
<1>3. CASE FgTimeoutFlush \/ FgStreamCheck
  BY <1>3, Zenon DEF FgTimeoutFlush, FgStreamCheck
<1>4. CASE FgQueue
  BY <1>4, Zenon DEF FgQueue, FgQueueBusy, FgPublish, FgPostFailure, FgQueueRefused,
                     FgWaitFailure
<1>5. CASE FgEnd
  <2>1. FgClose => StopKept
    <3> SUFFICES ASSUME FgClose PROVE StopKept
      OBVIOUS
    <3>1. writing = "NOT_WRITING" => chunkFrames = 0 /\ ~writePending
      BY DEF IndInv, TypeOK, ChunkRecording, WindowOwned
    <3>2. writing = "STOP_WRITING" => chunkFrames > 0 \/ writePending
      BY DEF IndInv, StopHasWork
    <3>3. chunkFrames > 0 => chunkFrames # 0
      BY DEF IndInv, TypeOK
    <3> QED
      BY <3>1, <3>2, <3>3, Zenon DEF FgClose
  <2> QED
    BY <1>5, <2>1, Zenon DEF FgEnd, FgLoopExit, FgBreak, FgDrained, FgRelease
<1>6. CASE Sw
  <2>1. ~SwFail
    BY Zenon DEF SwFail, Healthy
  <2> QED
    BY <1>6, <2>1, Zenon DEF Sw, SwWake, SwExit, SwFailure, SwBegin, SwCopy, SwReport
<1>7. CASE Indi
  BY <1>7, Zenon DEF Indi, ToggleOff, ToggleOn
<1>8. CASE UNCHANGED vars
  BY <1>8, Zenon DEF vars
<1>9. CASE Main
  <2>1. AppShutdownCleanup => writing # "STOP_WRITING" /\ writing' = "NOT_WRITING"
    BY DEF AppShutdownCleanup, IndInv, ThreadOrder, StopHasWork, WindowOwned,
           ChunkRecording, Grabbing, Healthy
  <2> QED
    BY <1>8, <1>9, <2>1, Zenon DEF Main, AppLogic, SigTerm, AppShutdownJoin, IndiStop,
                                   Ended
<1> QED
  BY <1>1, <1>2, <1>3, <1>4, <1>5, <1>6, <1>7, <1>8, <1>9, Zenon DEF Next, Fg

\* Every step of the four threads is a step of the recorder, or one that the
\* recorder does not see.
LEMMA StepRefines ==
    ASSUME IndInv, IndInv', WindowAccounted, [Next]_vars
    PROVE  [R!Next]_(R!rvars)
<1>1. CASE FgRecordFrame
  BY <1>1, RecordFrameRefines DEF R!Next
<1>2. CASE SwComplete
  BY <1>2, CompleteRefines DEF R!Next
<1>3. CASE ~FgRecordFrame /\ ~SwComplete
  <2>1. UNCHANGED << recorded, saved >>
    BY <1>3, HistoryKept
  <2>2. /\ writing \in WritingStates /\ writing' \in WritingStates
        /\ Phase' \in { "Idle", "Recording", "Stopping" }
    <3>1. writing \in WritingStates /\ writing' \in WritingStates
      BY DEF IndInv, TypeOK
    <3> QED
      BY <3>1, PhaseAfter DEF WritingStates
  <2>3. CASE ~Healthy'
    <3>1. (~Healthy)' = TRUE
      BY <2>3, Zenon DEF Healthy
    <3>2. R!Fail
      BY <2>1, <2>2, <3>1, Zenon DEF R!Fail
    <3> QED
      BY <3>2 DEF R!Next
  <2>4. CASE Healthy'
    <3>1. Healthy
      BY <2>4, FailureIsFinal
    <3>2. UNCHANGED (~Healthy)
      BY <2>4, <3>1, Zenon DEF Healthy, IndInv, TypeOK
    <3>3. StopKept
      BY <1>3, <2>4, <3>1, WritingSteps
    <3>4. CASE Phase' = Phase
      BY <2>1, <3>2, <3>4, Zenon DEF R!rvars
    <3>5. CASE writing = "NOT_WRITING" /\ Phase' # Phase
      <4>1. Phase = "Idle" /\ Phase' = "Recording"
        BY <2>2, <3>3, <3>5, PhaseOf, PhaseAfter DEF StopKept, WritingStates
      <4>2. R!Start
        BY <2>1, <3>2, <4>1, Zenon DEF R!Start
      <4> QED
        BY <4>2 DEF R!Next
    <3>6. CASE writing \in { "START_WRITING", "WRITING" } /\ Phase' # Phase
      <4>1. /\ Phase = "Recording"
            /\ Phase' = "Stopping" \/ (Phase' = "Idle" /\ writing' = "NOT_WRITING")
        BY <2>2, <3>6, PhaseOf, PhaseAfter DEF WritingStates
      <4>2. writing' = "NOT_WRITING" => Len(saved') = recorded'
        <5> SUFFICES ASSUME writing' = "NOT_WRITING" PROVE Len(saved') = recorded'
          OBVIOUS
        <5>1. ~writePending'
          BY DEF IndInv, WindowOwned
        <5>2. chunkFrames' = 0
          BY <2>4 DEF IndInv, ChunkRecording, TypeOK
        <5> QED
          BY <2>4, <5>1, <5>2 DEF IndInv, Contents, WindowFrames, TypeOK
      <4>3. R!Stop
        BY <2>1, <3>2, <4>1, <4>2, Zenon DEF R!Stop, R!AllSaved
      <4> QED
        BY <4>3 DEF R!Next
    <3>7. CASE writing = "STOP_WRITING" /\ Phase' # Phase
      BY <3>3, <3>7, PhaseOf, PhaseAfter DEF StopKept
    <3> QED
      BY <2>2, <3>4, <3>5, <3>6, <3>7 DEF WritingStates
  <2> QED
    BY <2>3, <2>4
<1> QED
  BY <1>1, <1>2, <1>3

\* fgThreadRun, swThreadExec, the writing callback and appShutdown together
\* implement the recorder: whatever their interleaving, the geometry of the buffer
\* and the failures, frames are saved in order and a stop completes with everything
\* recorded saved, also when the fg thread gives up with a window pending.
THEOREM WriterImplementsRecorder == Spec => ImplementsRecorder
<1>1. Init => R!Init
  <2> SUFFICES ASSUME Init PROVE R!Init
    OBVIOUS
  <2>1. /\ writing \in { "NOT_WRITING", "START_WRITING" }
        /\ recorded = 0 /\ saved = << >> /\ gaveUp = FALSE /\ writerFailed = FALSE
    BY DEF Init
  <2>2. Phase \in { "Idle", "Recording" }
    BY <2>1, PhaseOf
  <2>3. (~Healthy) = FALSE
    BY <2>1, Zenon DEF Healthy
  <2> QED
    BY <2>1, <2>2, <2>3, Zenon DEF R!Init
<1>2. Init => WindowAccounted
  BY DEF Init, WindowAccounted
<1>3. IndInv /\ IndInv' /\ WindowAccounted /\ [Next]_vars => WindowAccounted'
  BY WindowAccountedStep
<1>4. IndInv /\ IndInv' /\ WindowAccounted /\ [Next]_vars => [R!Next]_(R!rvars)
  BY StepRefines
<1> QED
  BY <1>1, <1>2, <1>3, <1>4, Invariance, PTL DEF Spec, R!Spec, ImplementsRecorder
=============================================================================
