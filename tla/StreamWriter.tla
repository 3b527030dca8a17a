---------------------------- MODULE StreamWriter ----------------------------
(***************************************************************************)
(* The MagAO-X stream writer (apps/streamWriter/streamWriter.hpp): frames  *)
(* of a shared-memory image stream are copied into a circular buffer by    *)
(* the frame-grabber thread ("fg") and written to disk, one contiguous     *)
(* window at a time, by the writer thread ("sw").  An INDI callback turns  *)
(* recording on and off, the main thread runs appLogic and appShutdown,    *)
(* and a signal may request the shutdown at any time.                      *)
(*                                                                         *)
(* What m_writeMutex protects changes only in actions whose guard is       *)
(* MutexFree, or that the fg thread takes while it holds the mutex: only   *)
(* queueWrite keeps it held from one action of this model to the next.     *)
(*                                                                         *)
(* Data abstraction.  A frame is the position it has in the recording      *)
(* (1, 2, 3, ... in the order in which the fg thread takes frames into a   *)
(* chunk), or Idle for a frame that passes by while nothing is recorded.   *)
(* Time is abstracted: whether a deadline has passed when the code looks   *)
(* at the clock is a nondeterministic choice.                              *)
(***************************************************************************)
EXTENDS Integers, Sequences

CONSTANTS
    Geometries,   \* the <<circBuffLength, writeChunkLength>> pairs that
                  \* getCircBuffLengths can return for the streams opened
    RepeatLimit,  \* wake-ups without a new frame before the stream is reopened
    MaxFrames,    \* bound: how many frames are recorded in a behaviour
    MayFail       \* whether I/O errors and the write-completion timeout occur

ASSUME GeometriesAssumption ==
    Geometries \subseteq { g \in Nat \X Nat : g[1] >= 2 => g[2] > 0 }
ASSUME BoundsAssumption ==
    RepeatLimit \in Nat /\ MaxFrames \in Nat /\ MayFail \in BOOLEAN

VARIABLES
    writing,              \* m_writing
    writePending,         \* m_writePending: the writer owns the save window
    stopQueued,           \* m_stopQueued: that window completes the stop
    resumeAfterReconnect, \* m_resumeAfterReconnect
    chunkFrames,          \* m_chunkFrames: unsaved frames of the current chunk
    currImage,            \* m_currImage: the next slot of the circular buffer
    currChunkStart,       \* m_currChunkStart
    nextChunkStart,       \* m_nextChunkStart: aligned start of the chunk's block
    currSaveStart,        \* m_currSaveStart: the save window is the slots
    currSaveStop,         \*   currSaveStart .. currSaveStop - 1
    writerFailed,         \* m_writerFailed
    shutdown,             \* m_shutdown
    restart,              \* m_restart
    swSemaphore           \* the value of m_swSemaphore

VARIABLES
    circBuffLength,       \* m_circBuffLength
    writeChunkLength,     \* m_writeChunkLength
    circBuff,             \* m_rawImageCircBuff: what each slot holds
    allocated             \* whether the circular buffers are allocated

VARIABLES
    fgPc,                 \* where the frame-grabber thread is
    fgCaller,             \* which call of queueWrite it is in
    fgRearm,              \* whether that call re-arms a chunk that ran out of time
    restartWriting,       \* local flag of fgThreadRun
    cnt0flag              \* local counter of repeated frames

VARIABLES
    swPc,                 \* where the writer thread is
    saveStart, saveStop,  \* doEncode's copy of the save window
    xrif,                 \* what it has copied into the xrif raw buffer so far
    mainPc,               \* where the main thread is
    appState,             \* the application state, as appLogic sets it
    toggle                \* the published state of the "writing" INDI switch

VARIABLES                 \* history
    recorded,             \* how many frames the fg thread has recorded
    saved,                \* what has been written to files, in order
    gaveUp,               \* the fg thread has abandoned frames it recorded
    savingLog             \* the last saving_start / saving_stop log entry

mutexVars  == << writing, writePending, stopQueued, resumeAfterReconnect,
                 chunkFrames, currImage, currChunkStart, nextChunkStart,
                 currSaveStart, currSaveStop >>
windowVars == << currSaveStart, currSaveStop >>
chunkVars  == << chunkFrames, currImage, currChunkStart, nextChunkStart >>
flagVars   == << writerFailed, shutdown, restart, swSemaphore >>
bufVars    == << circBuffLength, writeChunkLength, circBuff, allocated >>
fgVars     == << fgPc, fgCaller, fgRearm, restartWriting, cnt0flag >>
swVars     == << swPc, saveStart, saveStop, xrif >>
mainVars   == << mainPc, appState, toggle >>
histVars   == << recorded, saved, gaveUp, savingLog >>
vars       == << mutexVars, flagVars, bufVars, fgVars, swVars, mainVars, histVars >>

WritingStates == { "NOT_WRITING", "START_WRITING", "WRITING", "STOP_WRITING" }
FgLabels   == { "open", "allocate", "baseline", "grab", "copyWait", "queue",
                "queueWait", "check", "close", "drain", "release", "stopped" }
SwLabels   == { "wait", "begin", "copy", "fail", "report", "stopped" }
MainLabels == { "run", "joinFg", "joinSw", "cleanup", "indiStop", "end" }
Idle       == 0

\* The mutex is held across actions only inside queueWrite.
MutexFree == fgPc # "queue"

----------------------------------------------------------------------------
(***************************************************************************)
(* The state after appStartup: the threads are started, the writer may be  *)
(* armed by the configuration (m_startWriting), no stream is open yet.     *)
(***************************************************************************)
Init ==
    /\ writing \in { "NOT_WRITING", "START_WRITING" }
    /\ writePending = FALSE /\ stopQueued = FALSE
    /\ resumeAfterReconnect = FALSE
    /\ chunkFrames = 0 /\ currImage = 0
    /\ currChunkStart = 0 /\ nextChunkStart = 0
    /\ currSaveStart = 0 /\ currSaveStop = 0
    /\ writerFailed = FALSE /\ shutdown = FALSE /\ restart = FALSE
    /\ swSemaphore = 0
    /\ circBuffLength = 0 /\ writeChunkLength = 0
    /\ circBuff = << >> /\ allocated = FALSE
    /\ fgPc = "open" /\ fgCaller = "frame" /\ fgRearm = FALSE
    /\ restartWriting = FALSE /\ cnt0flag = 0
    /\ swPc = "wait" /\ saveStart = 0 /\ saveStop = 0 /\ xrif = << >>
    /\ mainPc = "run" /\ appState = "STARTUP" /\ toggle = "Off"
    /\ recorded = 0 /\ saved = << >> /\ gaveUp = FALSE /\ savingLog = "none"

----------------------------------------------------------------------------
(***************************************************************************)
(* The frame-grabber thread: opening a stream.                             *)
(***************************************************************************)

\* fgThreadRun returns: the thread can publish no more work.
FgReturn == fgPc' = "stopped"

FgStopped == fgPc = "stopped"

\* Returning with recorded frames still in the buffer abandons them.
FgAbandon ==
    /\ FgReturn
    /\ gaveUp' = TRUE

\* The stream file appears and ImageStreamIO opens it; m_restart is cleared at
\* the top of the outer loop.
FgOpen ==
    /\ fgPc = "open" /\ ~shutdown
    /\ restart' = FALSE
    /\ fgPc' = "allocate"
    /\ UNCHANGED << mutexVars, writerFailed, shutdown, swSemaphore, bufVars,
                    fgCaller, fgRearm, restartWriting, cnt0flag, swVars,
                    mainVars, histVars >>

\* The outer loop, or the wait for the stream in it, ends when m_shutdown is set;
\* and the thread returns when the inode, a semaphore or memory cannot be had.
FgOpenExit ==
    /\ \/ fgPc = "open" /\ shutdown
       \/ fgPc = "allocate" /\ MayFail
    /\ FgReturn
    /\ UNCHANGED << mutexVars, flagVars, bufVars, fgCaller, fgRearm,
                    restartWriting, cnt0flag, swVars, mainVars, histVars >>

\* allocate_circbufs accepts the lengths that getCircBuffLengths returned.
LengthsUsable(len, chunk) ==
    /\ len >= 2
    /\ chunk < len
    /\ len % chunk = 0

\* allocate_circbufs and allocate_xrif, on the fg thread, outside the mutex.
FgAllocate ==
    /\ fgPc = "allocate"
    /\ \E g \in Geometries :
          /\ circBuffLength' = g[1]
          /\ writeChunkLength' = g[2]
          /\ IF LengthsUsable(g[1], g[2])
               THEN /\ circBuff' = [ i \in 0 .. g[1] - 1 |-> Idle ]
                    /\ allocated' = TRUE
                    /\ fgPc' = "baseline"
               ELSE /\ FgReturn
                    /\ UNCHANGED << circBuff, allocated >>
    /\ UNCHANGED << mutexVars, flagVars, fgCaller, fgRearm, restartWriting,
                    cnt0flag, swVars, mainVars, histVars >>

\* The counters of the new connection are reset under the mutex.
FgBaseline ==
    /\ fgPc = "baseline"
    /\ currImage' = 0 /\ currChunkStart' = 0 /\ nextChunkStart' = 0
    /\ chunkFrames' = 0 /\ stopQueued' = FALSE
    /\ fgPc' = "grab"
    /\ UNCHANGED << writing, writePending, resumeAfterReconnect, windowVars,
                    flagVars, bufVars, fgCaller, fgRearm, restartWriting,
                    cnt0flag, swVars, mainVars, histVars >>

----------------------------------------------------------------------------
(***************************************************************************)
(* The frame-grabber thread: a frame arrives.                              *)
(***************************************************************************)

\* Variants with a fault: frames are copied without looking at the window; the
\* first slot of the window is not protected.
SlotNeverOwned == FALSE
SlotOwnedOffByOne ==
    writePending /\ currImage > currSaveStart /\ currImage < currSaveStop

\* The slot the next frame goes to is in the window the writer thread owns.
SlotOwnedByWriter ==
    /\ writePending
    /\ currImage >= currSaveStart
    /\ currImage < currSaveStop

\* The aligned block of writeChunkLength slots that slot i is in starts here.
BlockStart(i) == (i \div writeChunkLength) * writeChunkLength

NextSlot(i) == IF i + 1 >= circBuffLength THEN 0 ELSE i + 1

\* Frames are recorded while writing, and still after a stop request until the
\* chunk that completes it is queued.
Recording(w) == w = "WRITING" \/ (w = "STOP_WRITING" /\ ~stopQueued)

\* A post of the image semaphore was consumed and the drain is done, but the
\* slot is still being saved: wait for the writer, without the mutex.
FgBlock ==
    /\ fgPc = "grab" /\ ~restart
    /\ SlotOwnedByWriter
    /\ fgPc' = "copyWait"
    /\ UNCHANGED << mutexVars, flagVars, bufVars, fgCaller, fgRearm,
                    restartWriting, cnt0flag, swVars, mainVars, histVars >>

\* The mutex is (re)taken with the slot free: the frame can be looked at.
FrameReady ==
    \/ /\ fgPc = "grab" /\ ~restart
       /\ ~SlotOwnedByWriter
    \/ /\ fgPc = "copyWait"
       /\ ~writePending /\ ~writerFailed

\* The loop condition of the grab loop.
FgLoopExit ==
    /\ fgPc = "grab" /\ (shutdown \/ restart)
    /\ fgPc' = "close"
    /\ UNCHANGED << mutexVars, flagVars, bufVars, fgCaller, fgRearm,
                    restartWriting, cnt0flag, swVars, mainVars, histVars >>

\* The frame found after a wait is dropped because an exit flag was set, or the
\* source went away: its geometry or type changed, its semaphore was removed,
\* waiting on the semaphore or draining it failed or was interrupted.
FgBreak ==
    /\ fgPc \in { "grab", "check" } \/ FrameReady
    /\ fgPc' = "close"
    /\ UNCHANGED << mutexVars, flagVars, bufVars, fgCaller, fgRearm,
                    restartWriting, cnt0flag, swVars, mainVars, histVars >>

\* Reading the clock fails, for the semaphore wait or for a frame without a time
\* stamp; the thread returns and the chunk is abandoned.
FgClockFailure ==
    /\ MayFail /\ ~shutdown
    /\ (fgPc = "grab" /\ ~restart) \/ FrameReady
    /\ FgAbandon
    /\ UNCHANGED << mutexVars, flagVars, bufVars, fgCaller, fgRearm,
                    restartWriting, cnt0flag, swVars, mainVars, recorded,
                    saved, savingLog >>

\* The frame counter has not moved since the last frame.
FgRepeat ==
    /\ FrameReady /\ ~shutdown
    /\ cnt0flag <= RepeatLimit
    /\ cnt0flag' = cnt0flag + 1
    /\ restart' = (cnt0flag' > RepeatLimit)
    /\ fgPc' = "grab"
    /\ UNCHANGED << mutexVars, writerFailed, shutdown, swSemaphore, bufVars,
                    fgCaller, fgRearm, restartWriting, swVars, mainVars,
                    histVars >>

\* A frame was copied, then m_shutdown (which may have been set since it was
\* last looked at) and m_writing decide what becomes of it.
WritingAtFrame(stop) ==
    IF stop /\ writing = "WRITING" THEN "STOP_WRITING"
    ELSE IF writing = "START_WRITING" THEN "WRITING"
    ELSE writing

\* What a frame does besides being stored, whether or not it is recorded.
FrameTaken(stop) ==
    /\ FrameReady /\ ~shutdown
    /\ shutdown' = stop
    /\ cnt0flag' = 0
    /\ writing' = WritingAtFrame(stop)
    /\ IF writing = "START_WRITING"
         THEN /\ restartWriting' = FALSE
              /\ resumeAfterReconnect' = FALSE
              /\ savingLog' = IF restartWriting \/ resumeAfterReconnect
                              THEN savingLog ELSE "start"
         ELSE UNCHANGED << restartWriting, resumeAfterReconnect, savingLog >>
    /\ UNCHANGED << writePending, stopQueued, windowVars, writerFailed, restart,
                    swSemaphore, circBuffLength, writeChunkLength, allocated,
                    swVars, mainVars, saved, gaveUp >>

\* A frame that is not recorded overwrites its slot all the same.
FgSkipFrame ==
    \E stop \in BOOLEAN :
        /\ FrameTaken(stop)
        /\ ~Recording(WritingAtFrame(stop))
        /\ circBuff' = [ circBuff EXCEPT ![currImage] = Idle ]
        /\ currImage' = NextSlot(currImage)
        /\ fgPc' = "grab"
        /\ UNCHANGED << chunkFrames, currChunkStart, nextChunkStart, fgCaller,
                        fgRearm, recorded >>

\* A recorded frame joins the current chunk, or starts one.  The chunk is queued
\* when it reaches the end of its block, when it is older than m_maxChunkTime
\* (never at its first frame) and when a stop was requested.
FgRecordFrame ==
    \E stop, late \in BOOLEAN :
        /\ recorded < MaxFrames
        /\ FrameTaken(stop)
        /\ Recording(WritingAtFrame(stop))
        /\ late => chunkFrames > 0
        /\ circBuff' = [ circBuff EXCEPT ![currImage] = recorded + 1 ]
        /\ recorded' = recorded + 1
        /\ chunkFrames' = chunkFrames + 1
        /\ IF chunkFrames = 0
             THEN /\ currChunkStart' = currImage
                  /\ nextChunkStart' = BlockStart(currImage)
             ELSE UNCHANGED << currChunkStart, nextChunkStart >>
        /\ LET full == currImage - nextChunkStart' = writeChunkLength - 1
           IN IF full \/ late \/ writing' = "STOP_WRITING"
                THEN /\ fgPc' = "queue"
                     /\ fgCaller' = "frame"
                     /\ fgRearm' = (late /\ ~full)
                     /\ UNCHANGED currImage
                ELSE /\ fgPc' = "grab"
                     /\ currImage' = NextSlot(currImage)
                     /\ UNCHANGED << fgCaller, fgRearm >>

----------------------------------------------------------------------------
(***************************************************************************)
(* The frame-grabber thread: no frame arrives before the semaphore wait    *)
(* times out.                                                              *)
(***************************************************************************)

\* Variant with a fault: a stop request is not flushed without a new frame.
FgTimeoutNoStopFlush ==
    /\ fgPc = "grab" /\ ~restart
    /\ chunkFrames > 0 /\ writing = "WRITING"
    /\ fgPc' = "queue" /\ fgCaller' = "timeout" /\ fgRearm' = TRUE
    /\ UNCHANGED << mutexVars, flagVars, bufVars, restartWriting, cnt0flag,
                    swVars, mainVars, histVars >>

\* A chunk that is too old, or that a stop request has waited for long enough,
\* is queued without a new frame.
FgTimeoutFlush ==
    /\ fgPc = "grab" /\ ~restart
    /\ chunkFrames > 0
    /\ writing = "WRITING" \/ (writing = "STOP_WRITING" /\ ~stopQueued)
    /\ fgPc' = "queue" /\ fgCaller' = "timeout" /\ fgRearm' = TRUE
    /\ UNCHANGED << mutexVars, flagVars, bufVars, restartWriting, cnt0flag,
                    swVars, mainVars, histVars >>

\* The stream's file is checked after every timeout: it is still there, or it
\* was removed or replaced and must be reopened.
FgStreamCheck ==
    /\ fgPc = "check" \/ (fgPc = "grab" /\ ~restart)
    /\ \E gone \in BOOLEAN : restart' = gone
    /\ fgPc' = "grab"
    /\ UNCHANGED << mutexVars, writerFailed, shutdown, swSemaphore, bufVars,
                    fgCaller, fgRearm, restartWriting, cnt0flag, swVars,
                    mainVars, histVars >>

----------------------------------------------------------------------------
(***************************************************************************)
(* queueWrite.  It is entered with the mutex held.                         *)
(***************************************************************************)

\* The window of the previous call is still pending: release the mutex and wait.
FgQueueBusy ==
    /\ fgPc = "queue" /\ ~writerFailed
    /\ writePending
    /\ fgPc' = "queueWait"
    /\ UNCHANGED << mutexVars, flagVars, bufVars, fgCaller, fgRearm,
                    restartWriting, cnt0flag, swVars, mainVars, histVars >>

\* queueWrite can publish: there is no pending window, or there is none any more.
QueueReady ==
    /\ fgPc \in { "queue", "queueWait" }
    /\ ~writePending /\ ~writerFailed

ChunkValid ==
    /\ currChunkStart <= circBuffLength
    /\ chunkFrames <= circBuffLength - currChunkStart
    /\ chunkFrames <= writeChunkLength

\* The chunk becomes the save window.
PublishChunk ==
    /\ currSaveStart' = currChunkStart
    /\ currSaveStop' = currChunkStart + chunkFrames
    /\ stopQueued' = (writing = "STOP_WRITING")
    /\ chunkFrames' = 0
    /\ currChunkStart' = IF currSaveStop' = circBuffLength THEN 0 ELSE currSaveStop'
    /\ nextChunkStart' = BlockStart(currChunkStart')

\* The chunk is published, the writer is notified, and the caller goes on with
\* the mutex still held: a chunk that ran out of time re-arms the writer, a frame
\* moves on to the next slot, the end of a connection waits for the writer.
FgPublish ==
    /\ QueueReady /\ ChunkValid /\ chunkFrames > 0
    /\ PublishChunk
    /\ writePending' = TRUE
    /\ swSemaphore' = swSemaphore + 1
    /\ IF fgRearm /\ writing = "WRITING"
         THEN writing' = "START_WRITING" /\ restartWriting' = TRUE
         ELSE UNCHANGED << writing, restartWriting >>
    /\ currImage' = IF fgCaller = "frame" THEN NextSlot(currImage) ELSE currImage
    /\ fgPc' = CASE fgCaller = "frame"   -> "grab"
                 [] fgCaller = "timeout" -> "check"
                 [] fgCaller = "close"   -> "drain"
    /\ fgCaller' = "frame" /\ fgRearm' = FALSE
    /\ UNCHANGED << resumeAfterReconnect, writerFailed, shutdown, restart,
                    bufVars, cnt0flag, swVars, mainVars, histVars >>

\* sem_post fails: the window is withdrawn and the thread returns.
FgPostFailure ==
    /\ MayFail /\ QueueReady /\ ChunkValid /\ chunkFrames > 0
    /\ PublishChunk
    /\ FgAbandon
    /\ UNCHANGED << writing, writePending, resumeAfterReconnect, currImage,
                    flagVars, bufVars, fgCaller, fgRearm, restartWriting,
                    cnt0flag, swVars, mainVars, recorded, saved, savingLog >>

\* queueWrite refuses: the writer has failed or the chunk is not a valid window.
FgQueueRefused ==
    /\ \/ fgPc = "queue" /\ writerFailed
       \/ QueueReady /\ ~ChunkValid
    /\ FgAbandon
    /\ UNCHANGED << mutexVars, flagVars, bufVars, fgCaller, fgRearm,
                    restartWriting, cnt0flag, swVars, mainVars, recorded,
                    saved, savingLog >>

\* waitForWriteCompletion returns false, in any of its three callers: the writer
\* has failed, or m_writeCompletionTimeout has passed with the window pending.
FgWaitFailure ==
    /\ fgPc \in { "copyWait", "queueWait", "drain" }
    /\ writerFailed \/ (MayFail /\ writePending)
    /\ shutdown' = TRUE
    /\ FgAbandon
    /\ UNCHANGED << mutexVars, writerFailed, restart, swSemaphore, bufVars,
                    fgCaller, fgRearm, restartWriting, cnt0flag, swVars,
                    mainVars, recorded, saved, savingLog >>

----------------------------------------------------------------------------
(***************************************************************************)
(* The frame-grabber thread: the end of a connection.                      *)
(***************************************************************************)

\* Variant with a fault: the chunk is not flushed at the end of a connection.
FgCloseNoFlush ==
    /\ fgPc = "close"
    /\ resumeAfterReconnect' = (~shutdown /\ writing \in { "WRITING", "START_WRITING" })
    /\ IF writePending
         THEN writing' = "STOP_WRITING" /\ stopQueued' = TRUE
         ELSE /\ writing' = IF resumeAfterReconnect' THEN "START_WRITING"
                            ELSE "NOT_WRITING"
              /\ UNCHANGED stopQueued
    /\ fgPc' = "drain"
    /\ UNCHANGED << writePending, chunkVars, windowVars, flagVars, bufVars,
                    fgCaller, fgRearm, restartWriting, cnt0flag, swVars,
                    mainVars, histVars >>

\* Under the mutex: whatever is in the chunk is queued as the last window of this
\* connection, a pending window becomes the last one, otherwise the writer is
\* re-armed for the next connection or is done.
FgClose ==
    /\ fgPc = "close"
    /\ LET resume == ~shutdown /\ writing \in { "WRITING", "START_WRITING" }
       IN /\ resumeAfterReconnect' = resume
          /\ \/ /\ chunkFrames > 0
                /\ writing' = "STOP_WRITING"
                /\ fgPc' = "queue" /\ fgCaller' = "close" /\ fgRearm' = FALSE
                /\ UNCHANGED stopQueued
             \/ /\ chunkFrames = 0 /\ writePending
                /\ writing' = "STOP_WRITING"
                /\ stopQueued' = TRUE
                /\ fgPc' = "drain"
                /\ UNCHANGED << fgCaller, fgRearm >>
             \/ /\ chunkFrames = 0 /\ ~writePending
                /\ writing' = IF resume THEN "START_WRITING" ELSE "NOT_WRITING"
                /\ fgPc' = "drain"
                /\ UNCHANGED << stopQueued, fgCaller, fgRearm >>
    /\ UNCHANGED << writePending, chunkVars, windowVars, flagVars, bufVars,
                    restartWriting, cnt0flag, swVars, mainVars, histVars >>

\* Variant with a fault: the buffers are released without waiting for the writer.
FgDrainedAtOnce ==
    /\ fgPc = "drain" /\ ~writerFailed
    /\ fgPc' = "release"
    /\ UNCHANGED << mutexVars, flagVars, bufVars, fgCaller, fgRearm,
                    restartWriting, cnt0flag, swVars, mainVars, histVars >>

\* waitForWriteCompletion succeeds: the writer no longer uses the buffers.
FgDrained ==
    /\ fgPc = "drain"
    /\ ~writePending /\ ~writerFailed
    /\ fgPc' = "release"
    /\ UNCHANGED << mutexVars, flagVars, bufVars, fgCaller, fgRearm,
                    restartWriting, cnt0flag, swVars, mainVars, histVars >>

\* release_circbufs, the image is closed, and the outer loop goes round; the local
\* variables of the connection end with it.
FgRelease ==
    /\ fgPc = "release"
    /\ allocated' = FALSE /\ circBuff' = << >>
    /\ restartWriting' = FALSE /\ cnt0flag' = 0
    /\ fgPc' = IF shutdown THEN "stopped" ELSE "open"
    /\ UNCHANGED << mutexVars, flagVars, circBuffLength, writeChunkLength,
                    fgCaller, fgRearm, swVars, mainVars, histVars >>

----------------------------------------------------------------------------
(***************************************************************************)
(* The writer thread.                                                      *)
(***************************************************************************)

\* Variant with a fault: the readiness gate does not open for a shutdown.
SwWakeGated ==
    /\ swPc = "wait"
    /\ appState \in { "READY", "OPERATING" }
    /\ swSemaphore > 0
    /\ swSemaphore' = swSemaphore - 1
    /\ swPc' = IF writePending THEN "begin" ELSE "wait"
    /\ UNCHANGED << mutexVars, writerFailed, shutdown, restart, bufVars, fgVars,
                    saveStart, saveStop, xrif, mainVars, histVars >>

\* Variant with a fault: the writer waits for frames that nobody will queue any more.
WriterDoneEmpty == shutdown /\ FgStopped /\ ~writePending /\ chunkFrames = 0

\* A post of the semaphore is consumed.  The thread only listens when the
\* application is ready or is shutting down, and ignores a stray post.
SwWake ==
    /\ swPc = "wait"
    /\ shutdown \/ appState \in { "READY", "OPERATING" }
    /\ swSemaphore > 0
    /\ swSemaphore' = swSemaphore - 1
    /\ swPc' = IF writePending THEN "begin" ELSE "wait"
    /\ UNCHANGED << mutexVars, writerFailed, shutdown, restart, bufVars, fgVars,
                    saveStart, saveStop, xrif, mainVars, histVars >>

\* The writer may leave once nothing can be published and nothing is pending.
WriterDone == shutdown /\ FgStopped /\ ~writePending

SwExit ==
    /\ swPc = "wait"
    /\ WriterDone
    /\ swPc' = "stopped"
    /\ UNCHANGED << mutexVars, flagVars, bufVars, fgVars, saveStart, saveStop,
                    xrif, mainVars, histVars >>

\* The clock or the semaphore wait fails: the thread returns at once.
SwFailure ==
    /\ MayFail /\ swPc = "wait"
    /\ swPc' = "stopped"
    /\ UNCHANGED << mutexVars, flagVars, bufVars, fgVars, saveStart, saveStop,
                    xrif, mainVars, histVars >>

\* doEncode takes its copy of the window under the mutex and checks it.
SwBegin ==
    /\ swPc = "begin" /\ MutexFree
    /\ IF writing = "NOT_WRITING"
         THEN /\ writePending' = FALSE
              /\ swPc' = "wait"
              /\ UNCHANGED << saveStart, saveStop >>
         ELSE /\ saveStart' = currSaveStart
              /\ saveStop' = currSaveStop
              /\ writePending' = TRUE
              /\ swPc' = IF /\ currSaveStart <= currSaveStop
                            /\ currSaveStop <= circBuffLength
                            /\ currSaveStop - currSaveStart <= writeChunkLength
                            /\ allocated
                         THEN "copy" ELSE "fail"
    /\ UNCHANGED << writing, stopQueued, resumeAfterReconnect, chunkVars,
                    windowVars, flagVars, bufVars, fgVars, xrif, mainVars,
                    histVars >>

\* The window is copied out of the circular buffer, frame by frame, without the
\* mutex.
SwCopy ==
    /\ swPc = "copy"
    /\ Len(xrif) < saveStop - saveStart
    /\ xrif' = Append(xrif, circBuff[saveStart + Len(xrif)])
    /\ UNCHANGED << mutexVars, flagVars, bufVars, fgVars, swPc, saveStart,
                    saveStop, mainVars, histVars >>

\* Variant with a fault: any window completes the stop.
StopCompleteAnyWindow == writing = "STOP_WRITING"

\* A stop is complete when the window that completes it has been written, or when
\* no frame is left that would make another window.
StopComplete == writing = "STOP_WRITING" /\ (stopQueued \/ chunkFrames = 0)

\* The file is written, and completeWrite gives the window back.  Short writes and
\* encoder errors are only logged; the frames count as handed to the file.
SwComplete ==
    /\ swPc = "copy" /\ MutexFree
    /\ Len(xrif) = saveStop - saveStart
    /\ saved' = saved \o xrif
    /\ writing' = IF ~StopComplete THEN writing
                  ELSE IF resumeAfterReconnect THEN "START_WRITING"
                  ELSE "NOT_WRITING"
    /\ swPc' = IF StopComplete /\ ~resumeAfterReconnect THEN "report" ELSE "wait"
    /\ stopQueued' = FALSE
    /\ writePending' = FALSE
    /\ saveStart' = 0 /\ saveStop' = 0 /\ xrif' = << >>
    /\ UNCHANGED << resumeAfterReconnect, chunkVars, windowVars, flagVars,
                    bufVars, fgVars, mainVars, recorded, gaveUp, savingLog >>

\* completeWrite logs the end of the recording after it has left the mutex.
SwReport ==
    /\ swPc = "report"
    /\ savingLog' = "stop"
    /\ swPc' = "wait"
    /\ UNCHANGED << mutexVars, flagVars, bufVars, fgVars, saveStart, saveStop,
                    xrif, mainVars, recorded, saved, gaveUp >>

\* Encoding or opening the file fails: completeWrite(false), and the thread ends.
SwFail ==
    /\ swPc = "fail" \/ (MayFail /\ swPc = "copy")
    /\ MutexFree
    /\ writerFailed' = TRUE /\ shutdown' = TRUE
    /\ writing' = "NOT_WRITING"
    /\ stopQueued' = FALSE
    /\ writePending' = FALSE
    /\ swPc' = "stopped"
    /\ saveStart' = 0 /\ saveStop' = 0 /\ xrif' = << >>
    /\ UNCHANGED << resumeAfterReconnect, chunkVars, windowVars, restart,
                    swSemaphore, bufVars, fgVars, mainVars, histVars >>

----------------------------------------------------------------------------
(***************************************************************************)
(* The INDI callback of the "writing" switch.                              *)
(***************************************************************************)

\* Off: a recording with frames in its chunk stops when they are queued, one with
\* only a pending window stops when that is written, an empty one stops at once.
ToggleOff ==
    /\ mainPc # "end" /\ MutexFree
    /\ writing # "NOT_WRITING"
    /\ resumeAfterReconnect' = FALSE
    /\ IF writing = "STOP_WRITING"
         THEN UNCHANGED << writing, stopQueued, savingLog >>
         ELSE IF chunkFrames > 0
         THEN /\ writing' = "STOP_WRITING"
              /\ UNCHANGED << stopQueued, savingLog >>
         ELSE /\ writing' = IF writePending THEN "STOP_WRITING" ELSE "NOT_WRITING"
              /\ stopQueued' = writePending
              /\ savingLog' = IF writePending THEN savingLog ELSE "stop"
    /\ UNCHANGED << writePending, chunkVars, windowVars, flagVars, bufVars,
                    fgVars, swVars, mainVars, recorded, saved, gaveUp >>

\* On: only an idle writer starts; the request is ignored in every other state.
ToggleOn ==
    /\ mainPc # "end" /\ MutexFree
    /\ writing = "NOT_WRITING"
    /\ writing' = "START_WRITING"
    /\ chunkFrames' = 0 /\ stopQueued' = FALSE
    /\ resumeAfterReconnect' = FALSE
    /\ UNCHANGED << writePending, currImage, currChunkStart, nextChunkStart,
                    windowVars, flagVars, bufVars, fgVars, swVars, mainVars,
                    histVars >>

----------------------------------------------------------------------------
(***************************************************************************)
(* The main thread and the signal handler.                                 *)
(***************************************************************************)

\* Variant with a fault: only the start of a recording is published.
PublishedOnOnly(w) == IF w = "NOT_WRITING" THEN toggle ELSE "On"

\* updateINDI publishes nothing while a stop is under way.
Published(w) ==
    CASE w \in { "WRITING", "START_WRITING" } -> "On"
      [] w = "NOT_WRITING"                    -> "Off"
      [] OTHER                                -> toggle

\* appLogic; when a thread is gone it fails, and execute() then shuts down.
AppLogic ==
    /\ mainPc = "run" /\ ~shutdown
    /\ IF FgStopped \/ swPc = "stopped"
         THEN /\ shutdown' = TRUE
              /\ UNCHANGED << appState, toggle >>
         ELSE /\ MutexFree
              /\ appState' = IF writing = "NOT_WRITING" THEN "READY" ELSE "OPERATING"
              /\ toggle' = Published(writing)
              /\ UNCHANGED shutdown
    /\ UNCHANGED << mutexVars, writerFailed, restart, swSemaphore, bufVars,
                    fgVars, swVars, mainPc, histVars >>

\* handlerSigTerm.
SigTerm ==
    /\ mainPc = "run" /\ ~shutdown
    /\ shutdown' = TRUE
    /\ UNCHANGED << mutexVars, writerFailed, restart, swSemaphore, bufVars,
                    fgVars, swVars, mainVars, histVars >>

\* The main loop ends; appShutdown joins the fg thread, then the sw thread.
AppShutdownJoin ==
    /\ \/ mainPc = "run" /\ shutdown /\ mainPc' = "joinFg"
       \/ mainPc = "joinFg" /\ FgStopped /\ mainPc' = "joinSw"
       \/ mainPc = "joinSw" /\ swPc = "stopped" /\ mainPc' = "cleanup"
    /\ UNCHANGED << mutexVars, flagVars, bufVars, fgVars, swVars, appState,
                    toggle, histVars >>

\* appShutdown resets what the mutex protects, publishes and frees the buffers.
AppShutdownCleanup ==
    /\ mainPc = "cleanup"
    /\ writing' = "NOT_WRITING"
    /\ writePending' = FALSE
    /\ chunkFrames' = 0 /\ stopQueued' = FALSE
    /\ resumeAfterReconnect' = FALSE
    /\ toggle' = "Off"
    /\ allocated' = FALSE /\ circBuff' = << >>
    /\ mainPc' = "indiStop"
    /\ UNCHANGED << currImage, currChunkStart, nextChunkStart, windowVars,
                    flagVars, circBuffLength, writeChunkLength, fgVars, swVars,
                    appState, histVars >>

\* execute() stops the INDI driver only after appShutdown.
IndiStop ==
    /\ mainPc = "indiStop"
    /\ mainPc' = "end"
    /\ UNCHANGED << mutexVars, flagVars, bufVars, fgVars, swVars, appState,
                    toggle, histVars >>

\* The process has ended.
Ended == mainPc = "end" /\ UNCHANGED vars

----------------------------------------------------------------------------
FgConnect == FgOpen \/ FgOpenExit \/ FgAllocate \/ FgBaseline
FgFrame   == FgBlock \/ FgRepeat \/ FgSkipFrame \/ FgRecordFrame \/ FgClockFailure
FgQueue   == FgQueueBusy \/ FgPublish \/ FgPostFailure \/ FgQueueRefused \/ FgWaitFailure
FgEnd     == FgLoopExit \/ FgBreak \/ FgClose \/ FgDrained \/ FgRelease
Fg == FgConnect \/ FgFrame \/ FgTimeoutFlush \/ FgStreamCheck \/ FgQueue \/ FgEnd

Sw == SwWake \/ SwExit \/ SwFailure \/ SwBegin \/ SwCopy \/ SwComplete
      \/ SwReport \/ SwFail

Indi == ToggleOff \/ ToggleOn

Main == AppLogic \/ SigTerm \/ AppShutdownJoin \/ AppShutdownCleanup
        \/ IndiStop \/ Ended

Next == Fg \/ Sw \/ Indi \/ Main

Spec == Init /\ [][Next]_vars

(***************************************************************************)
(* Fairness.  Every thread keeps running: each wait of the fg and sw       *)
(* threads is bounded (m_semWaitNSec, m_writeCompletionTimeout), the main  *)
(* loop comes round every m_loopPause.  Nothing is assumed of the stream   *)
(* (frames may never come, streams may never appear or vanish), of the     *)
(* operator, of the signal, or of failures.                                *)
(***************************************************************************)
FgRuns ==
    \/ fgPc = "copyWait" /\ (FgRepeat \/ FgSkipFrame \/ FgRecordFrame \/ FgBreak)
    \/ fgPc = "check" /\ FgStreamCheck
    \/ FgTimeoutFlush \/ FgQueueBusy \/ FgPublish \/ FgQueueRefused
    \/ (writerFailed \/ swPc = "stopped") /\ FgWaitFailure
    \/ FgLoopExit \/ FgClose \/ FgDrained \/ FgRelease
    \/ FgAllocate \/ FgBaseline \/ (shutdown /\ FgOpenExit)

SwRuns == SwWake \/ SwExit \/ SwBegin \/ SwCopy \/ SwComplete \/ SwReport
          \/ (swPc = "fail" /\ SwFail)

MainRuns == AppLogic \/ AppShutdownJoin \/ AppShutdownCleanup \/ IndiStop

Fairness == WF_vars(FgRuns) /\ WF_vars(SwRuns) /\ WF_vars(MainRuns)

FairSpec == Spec /\ Fairness

----------------------------------------------------------------------------
(***************************************************************************)
(* Properties.                                                             *)
(***************************************************************************)

\* Every variable has the type of the member or local it stands for; the circular
\* buffer has circBuffLength slots whenever it is allocated.
TypeOK ==
    /\ writing \in WritingStates
    /\ writePending \in BOOLEAN /\ stopQueued \in BOOLEAN
    /\ resumeAfterReconnect \in BOOLEAN
    /\ chunkFrames \in Nat /\ currImage \in Nat
    /\ currChunkStart \in Nat /\ nextChunkStart \in Nat
    /\ currSaveStart \in Nat /\ currSaveStop \in Nat
    /\ writerFailed \in BOOLEAN /\ shutdown \in BOOLEAN /\ restart \in BOOLEAN
    /\ swSemaphore \in Nat
    /\ circBuffLength \in Nat /\ writeChunkLength \in Nat
    /\ allocated \in BOOLEAN
    /\ allocated => circBuff \in [ 0 .. circBuffLength - 1 -> Nat ]
    /\ fgPc \in FgLabels /\ fgCaller \in { "frame", "timeout", "close" }
    /\ fgRearm \in BOOLEAN /\ restartWriting \in BOOLEAN /\ cnt0flag \in Nat
    /\ swPc \in SwLabels /\ saveStart \in Nat /\ saveStop \in Nat
    /\ xrif \in Seq(Nat)
    /\ mainPc \in MainLabels
    /\ appState \in { "STARTUP", "READY", "OPERATING" } /\ toggle \in { "On", "Off" }
    /\ recorded \in Nat /\ saved \in Seq(Nat) /\ gaveUp \in BOOLEAN
    /\ savingLog \in { "none", "start", "stop" }

\* The frames of the window the writer owns.
WindowFrames == IF writePending THEN currSaveStop - currSaveStart ELSE 0

\* No error has made the writer or the frame grabber abandon recorded frames.
Healthy == ~gaveUp /\ ~writerFailed

\* What is on disk is the recording, from its first frame on, each frame exactly
\* once and in order: no idle frame, no frame of a later lap of the circular buffer
\* and no frame twice, whatever errors, stops, restarts and reconnections happen
\* (fgThreadRun, queueWrite, doEncode, completeWrite).
SavedInOrder == \A i \in 1 .. Len(saved) : saved[i] = i

\* Every recorded frame is saved, in the window handed to the writer, or in the
\* current chunk, as long as nobody gave up: no path of the callback, the stop, the
\* reconnection or the shutdown drops m_chunkFrames or a pending window.
NothingLost ==
    Healthy => recorded = Len(saved) + WindowFrames + chunkFrames

\* When the writer says NOT_WRITING, everything recorded is on disk: a stop is
\* never complete while a window is pending or frames are still in the chunk
\* (completeWrite, the Off branch of the callback, the end of a connection).
IdleMeansSaved ==
    Healthy /\ writing = "NOT_WRITING" => Len(saved) = recorded

\* appShutdown drains: when it has joined its threads and reset the writer, the
\* pending window and the unqueued frames have been written
\* (the sw loop condition !m_shutdown || !m_fgStopped || m_writePending).
ShutdownDrains ==
    Healthy /\ mainPc \in { "indiStop", "end" } => Len(saved) = recorded

\* The circular buffers stay allocated, and keep their length, while the writer
\* owns a window of them: release_circbufs and allocate_circbufs never run
\* between queueWrite and completeWrite.
BuffersHeld ==
    writePending /\ mainPc # "cleanup" =>
        /\ allocated
        /\ currSaveStart < currSaveStop
        /\ currSaveStop <= circBuffLength
        /\ currSaveStop - currSaveStart <= writeChunkLength

\* A pending window has exactly one notification, either in the semaphore or
\* consumed by the writer that is working on it; without a pending window there is
\* none.  So no window is lost or written twice (sem_post in queueWrite, sem_timedwait
\* in swThreadExec).
OneNotification ==
    swSemaphore + (IF swPc \in { "begin", "copy", "fail" } THEN 1 ELSE 0)
        = (IF writePending THEN 1 ELSE 0)
    \/ mainPc \in { "indiStop", "end" }

\* A stop request always has something that will complete it, a pending window or
\* frames to queue: STOP_WRITING with neither would never be left.
StopHasWork ==
    Healthy /\ writing = "STOP_WRITING" => writePending \/ chunkFrames > 0

\* Between a stop that was queued and its completion no frame is added to the
\* recording, and what completes it is pending.
StopQueuedIsLast ==
    Healthy /\ stopQueued => writePending /\ chunkFrames = 0 /\ writing = "STOP_WRITING"

\* queueWrite never refuses a chunk for being invalid, and is never called with an
\* empty one: a chunk lies in one aligned block of writeChunkLength slots, so it
\* cannot wrap round the end of the circular buffer.
QueuedChunkValid ==
    fgPc \in { "queue", "queueWait" } /\ Healthy => ChunkValid /\ chunkFrames > 0

\* While a window is pending nobody changes it or the slots in it: frames that go
\* on arriving (also unrecorded ones, after a stop) wait for the writer before they
\* overwrite a slot of the window.
WindowStable ==
    [][ writePending /\ writePending' =>
          /\ UNCHANGED << currSaveStart, currSaveStop, circBuffLength >>
          /\ \A i \in currSaveStart .. currSaveStop - 1 : circBuff'[i] = circBuff[i]
      ]_vars

\* A stop request is completed: by the next frame, the stop timeout, the end of
\* the connection or, after an error, the shutdown.
StopCompletes == writing = "STOP_WRITING" ~> writing # "STOP_WRITING"

\* A window that is handed to the writer is given back.
WindowReturned == writePending ~> ~writePending

\* A shutdown request ends the process: nobody waits for ever for another thread.
ShutdownEnds == shutdown ~> mainPc = "end"

\* A writer that stays idle is eventually published as Off, one that keeps
\* recording while the application runs as On.
ToggleSettles ==
    /\ <>[](writing = "NOT_WRITING") => <>[](toggle = "Off")
    /\ <>[](writing \in { "WRITING", "START_WRITING" } /\ mainPc = "run" /\ ~shutdown)
         => <>[](toggle = "On")

\* Whenever a recording is under way its start has been logged: the comment of
\* restartWriting says it only keeps quiet about the restart of a recording.
RecordingIsLogged == writing = "WRITING" => savingLog = "start"
=============================================================================
