------------------------ MODULE StreamWriterInvariant ------------------------
(***************************************************************************)
(* The inductive invariant of the stream writer: the parts that together   *)
(* make its safety properties inductive.                                   *)
(***************************************************************************)
EXTENDS StreamWriter

\* The fg thread has a stream open: buffers are allocated with usable lengths.
Connected == fgPc \in { "baseline", "grab", "copyWait", "queue", "queueWait",
                        "check", "close", "drain", "release" }

\* ... and takes frames from it, or may still have some in its chunk.
Grabbing == fgPc \in { "grab", "copyWait", "queue", "queueWait", "check", "close" }

\* Where the threads are, relative to each other.
ThreadOrder ==
    /\ mainPc \notin { "run", "joinFg" } => fgPc = "stopped"
    /\ mainPc \notin { "run", "joinFg", "joinSw" } => swPc = "stopped"
    /\ mainPc # "run" => shutdown
    /\ gaveUp => fgPc = "stopped"
    /\ writerFailed => shutdown /\ swPc = "stopped"
    /\ swPc # "fail"

BuffersUsable ==
    /\ Connected => allocated /\ LengthsUsable(circBuffLength, writeChunkLength)
    /\ Connected => writeChunkLength > 0
    /\ fgPc \in { "open", "allocate" } => ~allocated
    /\ Grabbing \/ fgPc = "drain" => currImage < circBuffLength

\* The window of the writer, from queueWrite to completeWrite.
WindowOwned ==
    writePending =>
        /\ allocated
        /\ fgPc \notin { "open", "allocate", "baseline", "release" }
        /\ fgPc = "stopped" => gaveUp
        /\ currSaveStart < currSaveStop
        /\ currSaveStop <= circBuffLength
        /\ currSaveStop - currSaveStart <= writeChunkLength
        /\ writing # "NOT_WRITING"
        /\ ~writerFailed
        /\ mainPc \notin { "indiStop", "end" }

Notified ==
    /\ swSemaphore + (IF swPc \in { "begin", "copy" } THEN 1 ELSE 0)
         = (IF writePending THEN 1 ELSE 0)
       \/ mainPc \in { "indiStop", "end" }

\* doEncode works on the pending window.
Encoding ==
    /\ swPc = "copy" => /\ saveStart = currSaveStart
                        /\ saveStop = currSaveStop
                        /\ Len(xrif) <= saveStop - saveStart
    /\ swPc # "copy" => xrif = << >>

\* The chunk lies in one aligned block and ends where the grabber is.
ChunkInBlock ==
    Grabbing /\ chunkFrames > 0 =>
        /\ nextChunkStart <= currChunkStart
        /\ nextChunkStart + writeChunkLength <= circBuffLength
        /\ currImage < nextChunkStart + writeChunkLength
        /\ currChunkStart + chunkFrames =
              IF fgPc \in { "queue", "queueWait" } /\ fgCaller = "frame"
                THEN currImage + 1 ELSE currImage

\* A chunk exists only while frames are being recorded.
ChunkRecording ==
    /\ Healthy /\ chunkFrames > 0 =>
          Grabbing /\ writing \in { "WRITING", "STOP_WRITING" } /\ ~stopQueued
    /\ Healthy /\ fgPc \in { "queue", "queueWait" } => chunkFrames > 0

\* What the slots of the window and of the chunk hold, and what was copied.
Contents ==
    /\ \A i \in 1 .. Len(saved) : saved[i] = i
    /\ Healthy => recorded = Len(saved) + WindowFrames + chunkFrames
    /\ writePending =>
          \A i \in currSaveStart .. currSaveStop - 1 :
              circBuff[i] = Len(saved) + 1 + (i - currSaveStart)
    /\ Healthy /\ chunkFrames > 0 =>
          \A i \in currChunkStart .. currChunkStart + chunkFrames - 1 :
              circBuff[i] = Len(saved) + WindowFrames + 1 + (i - currChunkStart)
    /\ swPc = "copy" => \A k \in 1 .. Len(xrif) : xrif[k] = Len(saved) + k

\* The inductive invariant: the type invariant, the safety properties of the
\* writer and the facts about the threads, the window and the chunk that make them
\* inductive, for fgThreadRun, swThreadExec, the callback and appShutdown together.
IndInv ==
    /\ TypeOK
    /\ ThreadOrder
    /\ BuffersUsable
    /\ WindowOwned
    /\ Notified
    /\ Encoding
    /\ ChunkInBlock
    /\ ChunkRecording
    /\ StopHasWork
    /\ StopQueuedIsLast
    /\ Contents
=============================================================================
