# MagAO-X: a TLA+ verification of the instrument software

MagAO-X is the control software of an extreme adaptive-optics instrument. It is
a set of processes (some sixty applications under `apps/`) that are built from a
common library (`libMagAOX/`), talk to each other through INDI properties routed
by an `indiserver`, and exchange images through shared memory (ImageStreamIO).
This directory holds TLA+ models of the parts of it whose correctness depends on
the order in which threads, callbacks, signals and errors meet, the TLC
configurations that check them, and TLAPS proofs of what matters most.

Contents: [1 Inventory](#1-inventory) · [2 Plan](#2-plan) ·
[3 Modules and the code](#3-modules-and-the-code) · [4 Runs](#4-runs) ·
[5 Fairness](#5-fairness) · [6 Proofs](#6-proofs) · [7 Findings](#7-findings) ·
[8 Limits of the models](#8-limits-of-the-models) · [9 Running it](#9-running-it)

## 1 Inventory

### Parts of the system

| Part | Source | State it keeps | Operations | Talks to |
|---|---|---|---|---|
| streamWriter | `apps/streamWriter/streamWriter.hpp` | circular buffers, save window, `m_writing`, chunk counters, two threads, one semaphore | frame grabbing, `queueWrite`, `doEncode`, `completeWrite`, the "writing" switch, `appLogic`, `appShutdown` | image streams in, xrif files out, INDI, log |
| logManager | `libMagAOX/logger/logManager.hpp` | `m_logQueue`, `m_qMutex`, `m_logShutdown`, the log thread | `log`, `logThreadExec`, destructor | every thread of the process; logFileRaw; `logMessage` of the application |
| logFileRaw | `libMagAOX/logger/logFileRaw.hpp` | the open file, its size and start, rotation flag and interval | `writeLog`, `createFile`, `close`, `closeIfIntervalElapsed`, `requestRotation` | log thread; two INDI callbacks |
| MagAOXApp: life cycle, FSM, power | `libMagAOX/app/MagAOXApp.hpp` | `m_shutdown`, `m_state`, alert, `m_powerState`, power-on counter, `m_indiMutex` | `execute`, `state`, `clearFSMAlert`, `logMessage`, power callback, `handlerSigTerm` | derived application, log thread, INDI driver |
| MagAOXApp: PID lock | same, 2367-2527 | the PID file | `lockPID`, `unlockPID` | other instances through the file system |
| MagAOXApp: INDI subscriptions | same, 3059-3672 | two maps of callbacks with retry times | registration, `sendGetPropertySetList`, `handleGetProperties`, `handleSetProperty` | other processes through `indiserver` |
| indiserver, xindidriver | `INDI/INDI/indiserver.c`, `INDI/xindidriver/` | for every driver the snooped properties and a queue; two FIFOs | `addSnoopDevice`, `q2Drivers`, `q2SnoopingDrivers`, `restartDvr`, `flushFIFO` | every application |
| outletController | `libMagAOX/app/dev/outletController.hpp`, `apps/trippLitePDU/` | outlet states, channels with orders and delays, the telnet session | `turnChannelOn`, `turnChannelOff`, channel callback, `updateINDI` | power-strip applications; the power callbacks of every powered application |
| frameGrabber | `libMagAOX/app/dev/frameGrabber.hpp` | the output image, `m_reconfig`, the grab thread | configure, acquire, publish, reconfigure | cameras in, image streams out |
| shmimMonitor | `libMagAOX/app/dev/shmimMonitor.hpp` | the input image, `m_restart`, the monitor thread | open, allocate, process, reopen | image streams in |
| stdMotionStage, stdCamera, telemeter, dm, edtCamera, dssShutter, ioDevice | `libMagAOX/app/dev/` | presets, camera parameters, due times | INDI callbacks that forward to the device | derived applications |
| stateRuleEngine | `apps/stateRuleEngine/` | rules over INDI properties | evaluate, publish | INDI |
| xindiserver | `apps/xindiserver/` | the indiserver process and tunnels | start, supervise | processes |
| device and AO applications, GUI, Python, scripts | `apps/`, `gui/`, `scripts/` | - | - | - |

A process has a main thread (`execute()`), the INDI thread that runs callbacks,
the log thread, signal handlers on any of them, and the threads of the
application (`fgThreadExec` and `swThreadExec` in streamWriter). They share flags
that nobody locks (`m_shutdown`, `m_restart`, `m_logShutdown`), mutexes that are
sometimes only tried (`m_indiMutex`), semaphores with time-outs and condition
variables.

### What is hard here, and what correct means

- **streamWriter.** Two threads hand windows of a circular buffer to each other,
  while an operator starts and stops the recording, the stream may be replaced,
  files may fail and a signal may end the process. *Correct:* the files hold the
  recording, every frame once and in order, whatever happens; a stop and a
  shutdown are complete only when everything recorded is on disk; no slot is
  overwritten and no buffer freed while it is being saved; everything that is
  asked for ends. Sizing the buffer (a search over integers and truncated
  quotients) must end, never divide by zero and stay in the configured limits.
- **logManager.** The list is walked without its mutex, the thread may die with
  an entry half done, and the destructor takes over. *Correct:* every entry
  reaches the file once and in order; the destructor ends and leaves nothing.
- **logFileRaw.** Time stamps arrive late, equal and from the future, rotation
  is asked for from another thread. *Correct:* no file is overwritten, no name
  collision stops the log thread, files are split where they must be and only
  there.
- **MagAOXApp.** Ten ways out of the start-up, signals at any point, power that
  comes and goes, a state that two threads set and that is published only when a
  mutex happens to be free. *Correct:* the loop runs only under its documented
  conditions, every way out undoes what was done, the FSM follows the power, and
  INDI clients end up seeing the truth.
- **PID lock.** The file is tested and written in separate steps, a crash leaves
  it behind, its number may have gone to another process. *Correct:* two
  instances run together only if one was started while the other was locking.
- **INDI subscriptions.** Requests and definitions are lost with a server that
  restarts, two threads ask, and both decide under a mutex and send after it.
  *Correct:* nothing is believed that the server does not know, everything is
  subscribed to in the end, the requests stop.
- **Outlets.** A command is decided on polled states, carried out outlet by
  outlet with delays, and the answer to a dialogue that timed out is read by the
  next. *Correct:* outlets change in their configured order; what was polled is
  exact; an operator who insists gets what he wants, and what is published is true.
- **Image streams** (frameGrabber and shmimMonitor). A camera creates, destroys
  and recreates the shared memory that other processes are reading, with flags
  that nobody locks on either side. *Correct:* frames are written inside the
  stream; a setting takes effect; a follower ends up on the present stream with
  the right geometry; every restart that is requested happens.

The list `hazards` of `PROJECT.json` names each of these at its line of code,
with the properties that cover it.

## 2 Plan

Done, in this order:

1. `StreamWriter` with its inductive invariant, the abstract `Recorder` and the
   refinement: the most intricate protocol of the repository, and its data.
2. `CircBuffLengths`: the sizing algorithm that gives `StreamWriter` its geometries.
3. `LogFile` and `LogManager`: what every process uses to report.
4. `AppLifecycle`: the frame in which every application runs.
5. `PidLock`: what keeps two instances apart.
6. `IndiSubscriptions`: how an application stays connected to the others.
7. `OutletController`, with the trippLitePDU as its device.
8. `ShmimMonitor`, `FrameGrabber`, and `CameraStream`, which composes the two over
   an image stream.

To do, in this order:

9. `MotionStage` (preset, home, stop), the rules of `stateRuleEngine` as a pure
   algorithm against a reference definition, `XIndiServer`.
10. Compositions: `LogManager` with `LogFile` (the sequence `stored` of the first is
    the concatenation of the files of the second); `OutletController` with the
    `powerState` of `AppLifecycle`.

Every safety property that a passing run checks is also a theorem. Theorems to add:
the safety half of other liveness properties, as `SizingDescends` is of `SizingEnds`
(a measure that every step of a thread lowers), and those of the compositions above.

## 3 Modules and the code

`PROJECT.json` maps every definition to its lines. In all modules a *variant with
a fault* is a wrong version of an operator, which shows that the properties
notice it; it is not part of the specification.

### StreamWriter (with StreamWriterInvariant, StreamWriterProofs, StreamWriterRefinement, Recorder)

State: the members of the class that the threads share, under their names without
`m_`; the program counters and locals of the threads (`fgPc`, `swPc`, `mainPc`);
and four history variables (`recorded`, `saved`, `gaveUp`, `savingLog`). A frame
is its number in the recording, so that "in order, each once" is `saved[i] = i`;
a frame that goes by while nothing is recorded is `Idle`.

| Actions | Code |
|---|---|
| `FgOpen`, `FgOpenExit`, `FgAllocate`, `FgBaseline` | the outer loop of `fgThreadRun`: waiting for the stream, `allocate_circbufs`, resetting the counters |
| `FgBlock`, `FgRepeat`, `FgSkipFrame`, `FgRecordFrame`, `FgClockFailure` | one turn of the grab loop: waiting for the writer when the slot is in its window, copying, and the `switch` over `m_writing` |
| `FgTimeoutFlush`, `FgStreamCheck`, `FgLoopExit`, `FgBreak` | the semaphore time-out, the test whether the stream file was replaced, and the ways out of the loop |
| `FgQueueBusy`, `FgPublish`, `FgPostFailure`, `FgQueueRefused`, `FgWaitFailure` | `queueWrite` and `waitForWrite`, which release the mutex while they wait |
| `FgClose`, `FgDrained`, `FgRelease` | the end of a connection: flush, wait for the writer, free the buffers, decide whether to resume |
| `SwWake`, `SwExit`, `SwFailure`, `SwBegin`, `SwCopy`, `SwComplete`, `SwReport`, `SwFail` | `swThreadExec`, `doEncode`, `completeWrite` |
| `ToggleOff`, `ToggleOn` | the callback of the "writing" switch |
| `AppLogic`, `AppShutdownJoin`, `AppShutdownCleanup`, `IndiStop`, `SigTerm` | the main thread and the signal |

What `m_writeMutex` protects is changed in one action where the code holds the
mutex without waiting; only `queueWrite` holds it over several actions
(`MutexFree`). The writer copies slot by slot, without the mutex, as the code
does. Deadlines are a nondeterministic choice.

`Recorder` is what the writer promises to someone who knows no threads: an
operator starts and stops, frames are saved in order and without gaps, a stop is
complete when everything is saved, and only a failure may leave frames behind.
`StreamWriterRefinement` maps the detailed state to it.

### CircBuffLengths

`Startup`, `Fits`, `Scale`, `Search` and `Check` are the test in `appStartup`, the
two branches of `getCircBuffLengths`, its loop, and the tests of
`allocate_circbufs`. The quotient in double precision may come out just below an
integer and lose one when truncated; `Scaled` allows both.

### LogFile

`WriteBegin` to `Write` are the steps of `writeLog`: take the rotation flag
(`TakeRequest`), read the clock, decide, create (`CreateFile`, and with a new name `CreateRetry`), write.
`CloseIfIntervalElapsed` is the call between two batches; `RequestRotation` and
`SetMaxLogTime` are INDI callbacks and can happen between any two steps.
`CreateError`, `WriteError` and `Again` are the failures and the second run that
the destructor of the log manager makes. A file is its time stamp; `fopen` with
mode `"wb"` empties an existing file, and `OpenNew` does too.

### LogManager

`LogLock`/`LogPush` are `log()`; `ThreadStart` to `Flush` are `logThreadExec`, with
the mutex taken where the code takes it and the iterator advanced where it does
not; `DestructorBegin`, `DestructorJoined`, `DestructorDrained` are the destructor,
which runs `logThreadExec` again on its own thread; `Signal` and `SignalLogs` are
`handlerSigTerm`, on the thread that it interrupts, from the moment at which
`execute()` has seen the log thread and installs it (`InstallHandlers`). `LogMessage`
may push an entry itself. The thread may also never have been started (the second initial state).
`LogFile` and `LogManager` are proved about in one module, so the names of the latter
differ from those of the former: `ManagerSpec`, `ManagerNext`, `stored`, `MaxLogged`.

### AppLifecycle

`pc` walks through `execute()`: user check, `lockPID`, log thread, signal handlers,
`appStartup`, `startINDI`, wait for the power state, the event loop and the
shutdown, with each failure exit. `state()` is three actions (try the mutex, skip,
send), because the publication reads the state after it has been set. The derived
application is nondeterministic: `appStartup`, `appLogic`, `onPowerOff` and
`whilePowerOff` may succeed or fail and set any state of `AppStates`. Other
threads: `LogThreadUp`/`LogThreadDies`/`LogAlert`, the callbacks
(`CallbackLock`, `CallbackState`, `CallbackUnlock`, `ClearFSMAlert` and its second
half, `PowerChannel`), and the signal.

### PidLock

One step is one system call of `lockPID` and `unlockPID`, in any number of
processes: `DirCreated`/`DirExists` (mkdir), `NoPidFile`/`ReadPidFile`,
`Refused`/`NotLocked` (what `/proc` says of the number read), `OpenPidFile` and
`WritePid` (opening truncates, closing writes), `LockError`, `unlockPID`; and
`Start`, `Exit` and `Crash` of a process. A PID is its digits, because two writers
of one file leave the tail of the longer number; `testPid` is uninitialised when
the file is empty, and `ReadPidFile` then takes any value. `disturbed` records that
two instances locked at the same time or were invoked by different names, which is
where the code promises nothing.

### IndiSubscriptions

`StartRequests`, `LoopRequests` and `HandleGetAll` decide, under the mutex, what to
ask for (`RequestAll`, `RequestDue` with its growing delay); `MainSend` and
`IndiSend` send it, one request at a time and after the mutex was released, and may
fail. `HandleSet` records a definition. `Tick` is the passing of a unit of
`m_nextRetry`. Of the server the model has what `indiserver.c` keeps for one driver,
which is how it sees the application: a `getProperties` adds the property to those the
driver snoops, whether its device runs or not, and is passed on to the device
(`ServerTakes`); what a device sends goes to the drivers that snoop it (`Publish`); and
a restart, of the server or of the driver alone, forgets the list, and its first message
asks the application for everything (`ServerRestart`). The `xindidriver` between the
server and the FIFOs is started anew as well and empties them (`Flushed`), so what was
on its way is lost. The answer of a device that runs comes in the step in which the
server takes the request; an answer that comes later is a `Publish`. The processes of
the other devices are environment: they may stop, and are started in the end.
An aliased key is one whose property object was registered again under another key.

### OutletController

The event loop: `Connect`, `Poll`, `PollLate`, `PollFails` (the dialogue),
`PollSet` outlet by outlet, `PollNoStatus`, `PollUnparsed`, `PollPublish`. The INDI
thread: `Ask`, `Already`, `TooSoon`, `Accept`, `SwitchOutlet`, `SwitchFails` are the
channel callback with `turnChannelOn` and `turnChannelOff`. The unit answers every
request in turn; an answer that came too late stays in `pending`. `turnOutletOn` and
`turnOutletOff` do not look at the text of the answer, so a command that the unit
refuses counts as done (`SwitchRefused`). `m_stateDelay` is 5 s and the event loop
pauses for 2 s, but a dialogue takes its time and a poll is left out when the INDI
thread has the mutex: how many polls a delay lasts is any number of `StateDelays`, anew
for every command. A command that arrives while `m_indiMutex` is held waits for it.

### ShmimMonitor, FrameGrabber, CameraStream (with CameraStreamProofs)

`ShmimMonitor` is `smThreadExec` step by step: `Wake`, `Reset` (of `m_restart`),
`Open`, `OpenUnready`, `OpenEnds` and `Recheck` (the loop that waits for the stream, and
the tests behind it, which read the state of the application a second time), `Stat` (the
inode of the name), `Check`, `Setup`, `Alloc`, `Existing`, the grab loop (`Frame`, `Timeout`, `GrabEnds`, `WaitFails`) and `Close`; `Request`,
`StateChange` and `CreateOwn` are the application's other threads. A stream is its
inode; the name refers to at most one of them.

`FrameGrabber` is `fgThreadExec` with pvcamCtrl as the camera: `FgWait`,
`FgConfigure`, `FgCompare` (which destroys a stream of another geometry), `FgCreate`
and `FgSemaphores`, `FgStart` (which ends the reconfiguration), `FgAcquire`,
`FgPublish`, `FgLoopEnds`, `FgExit`. The main thread and the INDI thread change its
members without a lock: `TargetROI` and `Set`, `OnPowerOff`, `Connect` and
`Connected`. `Restart` is a new process after the end or the death of the old one,
which then leaves its file. A geometry is the name of a region of interest and the
length of the circular buffer.

`CameraStream` puts the camera in the place of the owner of the stream, which
`ShmimMonitor` leaves open. An inode is given to a new file when nobody refers to
it; a file that is still there may be created anew in its own inode.

## 4 Runs

`MCx` modules give the constants; bounds are named constants of the modules.

### Stream writer

| Run | Instance | What it shows |
|---|---|---|
| `sw_safety` | geometries (4,2), (2,1) and one that is refused, 4 frames, all failures | order on disk; nothing lost, and NOT_WRITING means saved (unless somebody gave up); a pending window is stable; `IndInv`; `Recorder` is implemented |
| `sw_liveness` | (4,2) and one that is refused, 2 frames, all failures | a stop completes unless a thread died, a window comes back, a shutdown ends and the switch settles although either thread may die |
| `sizing` | lengths up to 12 frames, frames up to 7 bytes, buffers up to 48 bytes | the search ends, never divides by zero, refuses only for cause |

Four slots in two blocks are the smallest buffer in which a window and a chunk
exist at the same time and a chunk can be cut short inside its block; frames
that are not recorded go round it any number of times while a window is pending.
Two slots in blocks of one make every frame a window, so that four recorded
frames are two laps, and changing between the two is what a reconnection does to
the buffers. In the liveness run two frames are enough for a window that a time-out cut
short and a chunk that fills its block and waits for that window (`queueWait`). Unlike
the runs, the theorems hold for all geometries and any number of frames.

### Logging

| Run | Instance | What it shows |
|---|---|---|
| `log_files` | limit 2, sizes 1 and 3, interval off or 2, clock to 4, stamps up to 2 ahead, 3 entries, 1 request, all failures | files are split by size, interval and request; no file is overwritten; a collision is always resolved |
| `log_manager` | 2 producers, 5 entries, write errors, one signal | every entry once and in order, written however many follow it and flushed when the logging pauses; destructor ends and leaves nothing |
| `log_signal` | 2 entries | *violated*: see findings |

With an interval of 2 and a clock of 4 there are three intervals, so that an entry
can be early, late and ahead with respect to an open file; an entry of size 3 is
larger than the limit of 2. `RotationSeparates` has two halves. That a request is not
lost (`RequestsSeparate`) is stated up to the first failure, because a request whose file
cannot be created is spent; that it is not applied twice, nor a file left for any other
reason than size, interval or request (`LeftForCause`), is stated without exception.
`EntriesFlushed` has two as well: every entry is written, however many are pushed behind
it; but a batch, with the flush at its end, can be prolonged by entries that keep coming
(finding 4), so the flush is stated for a logging that pauses. `log_manager` and
`log_signal` do not check for deadlock: a signal can block the process, which is what
`log_signal` is about, and `EntriesFlushed` sets that case aside.

### Application

| Run | Instance | What it shows |
|---|---|---|
| `app` | 2 application states, power-on wait 1, 4 events | loop conditions, PID lock released, start-up and shutdown paired, power-on wait respected; what clients see settles, a shutdown ends, the FSM follows the power |

An event is a callback, a change of the power or an alert; losing power, getting
it back and an alert and a callback in between take four. Signals, failures and
the death of the log thread are not counted.

### Instances, subscriptions and outlets

| Run | Instance | What it shows |
|---|---|---|
| `pid_lock` | 3 processes, four PIDs of one and two digits, two invocations, any file left behind | two instances run together only after a disturbance |
| `subscriptions` | 2 properties and an alias, delay 1 to 3, 2 restarts, 2 faults, 2 messages in the FIFO | the application believes rightly; everything is subscribed to; the retries end |
| `outlets` | 3 outlets, a channel of two with opposite orders and one of one, state delays of 0 and 1 polls, 1 change of mind, 2 faults | polled states are exact while at most one answer is left behind; the order is respected, but for refusals; the operator succeeds, unless an answer is left behind |

Three processes are one that holds the lock, one that is refused and one that meets
what the refusal left; a number of two digits is what a shorter one can be mixed
with. Two restarts are needed for a definition that is older than the second; two
faults for two answers left behind, with which the states really may be wrong. A delay
of 0 polls lets a command follow the other at once, on states that are not polled yet;
one of 1 makes it wait. (0 and 2 passes too, in somewhat more than five minutes.)
`OperatorSucceeds` does not rest on the number of polls. It has an exception that the
code really needs: with answers left in the connection a poll may read nothing but
answers to commands and a command the status that the poll before it had asked for, so
that an operator who goes on repeating never sees the state. Once he stops, what is
published becomes the truth, which is its second half.

### Image streams

| Run | Instance | What it shows |
|---|---|---|
| `camera_stream` | 2 regions of interest, buffer of 2, 4 inodes, 1 request, 2 events of the application, 2 of the camera, 3 together | frames stay inside the stream; restarts are honoured; the monitor ends up on the present stream; the geometry is the one that was set last, on both sides |
| `shmim_create` | 2 inodes | *violated*: see findings |

The application has to reach its target state, which is one event; two more are what
it takes to change a region of interest and set it, or to be killed with a stream
of another geometry. What happens after the monitor thread has ended is left out.
`FramesAsConfigured` asks for a monitor that is on the stream the camera writes and has
allocated for its geometry. Its exceptions are the two in the code: a setting that the
reset of `m_reconfig` drops (`missed`), and a monitor whose stream was replaced, by an
owner that did not clean up, between `openIm` and `stat`, so that it has the inode of the
new file and the image of the old one (`Mistaken`; also in `FollowsStream`).
`ShmimMonitor.cfg` has the monitor alone with an owner who may do anything to its
stream, reshaping it in place included, with 3 events and 2 requests.
These runs do not check for deadlock: a monitor whose application is not in its
target state waits, as does a camera without power.

Each property of a passing run has a fault in the code's logic that breaks it
(`mutants` in `PROJECT.json`): a dropped guard, an off-by-one, a missing reset.

## 5 Fairness

Nothing is assumed of the environment: frames may stop, streams may never appear,
nobody has to log, no signal and no failure has to come.

- **StreamWriter.** Weak fairness of the fg, sw and main threads. Every wait of the
  first two has a limit (`m_semWaitNSec`, `m_writeCompletionTimeout`) and the main
  loop comes round every `m_loopPause`. Only steps that a thread takes by itself
  are in `FgRuns`: a frame that arrives is not, unless the thread has it already
  and only waits for its slot.
- **LogManager.** Strong fairness of the log thread and of the signal handler,
  which compete for `m_qMutex` with threads that release it after a few
  instructions; weak fairness of a thread that holds it. The only pause of the log
  thread is `m_writePause`.
- **AppLifecycle.** Weak fairness of the main thread: its waits are limited (two
  seconds for the log thread, 30 s for the power state) and `m_indiMutex` is only
  tried. A callback that holds the mutex goes on.
- **IndiSubscriptions.** Weak fairness of both threads, of time and of the devices,
  which are started in the end; strong fairness of the server's handling of a
  request, because the bound on the FIFO can disable it for a while (the real FIFO
  has no such bound).
- **OutletController.** Weak fairness of the threads; strong fairness of the steps
  that need `m_indiMutex`, which the event loop gives up between two polls. The
  operator repeats a command as long as the published state is not what he wants:
  that is the premise of `OperatorSucceeds`, not a property of the code.
- **CameraStream.** Weak fairness of the monitor thread and of the grabber thread,
  whose waits are limited to a second. Nothing is asked of the camera; that there are
  frames, power and a connection is a premise of the properties.
- **PidLock** has safety only, and no fairness.
- **CircBuffLengths.** Weak fairness of the algorithm.

## 6 Proofs

All proofs are for every value of the constants that satisfies the named
assumptions, which ask only for types (`GeometriesAssumption` in addition that a
usable buffer has chunks of at least one frame, which `CircBuffLengths` shows,
`NoZeroDivision`).

**StreamWriterProofs.** `Invariance`: `Spec => []IndInv`, one lemma per group of
actions. The properties alone are not inductive. That the files hold a prefix
of the recording needs what the slots of the window and of the chunk hold
(`Contents`); that a frame does not overwrite them needs that the chunk lies in one
aligned block which ends where the grabber is (`ChunkInBlock`) and that the window
is inside allocated buffers (`WindowOwned`, `BuffersUsable`); that the writer copies
that window and no older one needs one notification per window (`Notified`) and that
its locals equal the window (`Encoding`); that a stop is neither early nor
forgotten needs that a chunk exists only while recording (`ChunkRecording`,
`StopHasWork`, `StopQueuedIsLast`); and what a dead thread leaves behind needs the
order in which threads end (`ThreadOrder`). `sw_safety` checks `IndInv` on the
small instance. From it: `TypeCorrectness`, `FilesInOrder`, `NoFrameLost`,
`StoppedIsSaved`, `WindowSafe`, `ChunksAreValid`, `StopIsSound`.

`PendingWindowKept` is the action property `WindowStable`: the window and its slots
stay as they are from `queueWrite` to `completeWrite`. Only the frame grabber could
disturb them, and `FrameFacts` says that the slot of a frame is outside the window.

`WriterImplementsRecorder` is the refinement `Spec => R!Spec`. Recording a frame is
`Record` (`RecordFrameRefines`), completing a window is `Save` (`CompleteRefines`),
every other step leaves what is recorded and saved alone (`HistoryKept`) and is
`Start`, `Stop`, `Fail` or invisible (`WritingSteps`, `FailureIsFinal`). `IndInv`
accounts for the frames of a window only as long as nobody gave up; but the writer
goes on after the frame grabber has, and then completes a window, and perhaps a
stop. `WindowAccounted` says that the frames of a pending window are accounted for
then too: giving up leaves alone what the mutex protects (`GivingUp`), unless no
window is pending.

**CircBuffLengthsProofs.** `SizingInvariance`, and from it `NoZeroDivision`,
`LimitsRespected`, `OnlyForCause`, and `SizingDescends`: every step lowers a bound on
the number of steps left, which is the part of `SizingEnds` that is not fairness. The invariant says that during the search the
chunk is between one and what the proportion allows; the lemmas are about
division (a proper fraction of an even number of at least two is at most half).

**LoggingProofs**, for `LogFile`. The invariant `NamesPast` says that no file, and no
name about to be used, is later than the last reading of the clock. Hence a name taken
from a new reading is free: `NoNameTakenTwice`, `NoFileLost` and `LogFileTypes`, with
and without failures. Where the files are split needs more (`SplitInv`): that the size
the thread keeps is that of the open file, and that an entry which does not fit goes to
an empty one (`SizeInv`); that while no request is waiting the entries of the open file,
and the one under way, were begun after the last request (`EpochInv`); that an entry
for which a new file is being made has a reason, where a request that it took counts as
one because all entries of the open file were begun before it (`CauseInv`, `BegunBefore`);
and that the entry under way belongs in the file that was chosen for it (`IntervalInv`). From it `SizeIsLimited`, `RequestsHonoured`
and `IntervalsHonoured`. The size of a file is a sum over a sequence, defined by a
recursive function; that the sum exists, is unique and grows by the entry that is
appended is proved by induction over a set of numbers (`NatSetInduction`, from the
least element of a set that is not empty).

**LoggingProofs**, for `LogManager`. `ManagerInv`: what is stored and the list together
are numbered 1, 2, 3, ... but for an entry that is written and not yet removed, which is
in both (`Numbered`); the iterator, which moves without the mutex, points to the head of
the list or to the entry after the one being erased (`IteratorValid`); once the destructor
runs nobody else logs, and its run over the list leaves nothing unless a write fails
(`DestructorAlone`). From it `NoEntryLost` and `NothingLeftBehind`, for any number of
entries and of threads that log.

**AppLifecycleProofs.** The invariant says, for each point of `execute()`, how far
the lock, the start-up calls and the conditions of the loop are (`LockStage`,
`ShutdownStage`, `ConditionStage`), and how the power-on counter relates to the
loops since the power came back (`BootStage`). From it `LoopIsSafe`,
`LockIsReleased`, `StartupIsUndone`, `BootWaitHolds` and `LifecycleTypes`, for any
number of events.

**PidLockProofs.** `ExclusionHolds` and `HolderAlwaysRecorded`, for any number of
instances and PIDs. The invariant says that without a disturbance at most one
process is in `lockPID` (`Serial`), that a running instance is the one the file
names and that whoever is locking has read, or will read, its number
(`LockStands`), and that the file somebody is writing is empty (`WriterAlone`);
`DistinctPids` and `DirKept` say what the system and `mkdir` give.

**IndiSubscriptionsProofs.** `BeliefHolds` needs that a definition in the FIFO that
is not followed by the request of a new server is one the server still forwards
(`Fresh`): a definition older than a restart is always in front of that request.

**OutletControllerProofs.** `PolledExactHolds` needs that the answers left in the
connection are in order and that the newest differs from the unit only where it was
switched since (`AnswersFresh`, with a lemma on how much of the connection a dialogue
reads); `OrderHolds` needs that the outlets before the present one of a command are
in its state or were refused by the unit (`PrefixDone`), for which the channels must be disjoint and the orders
permutations, as `OutletAssumption` says.

**CameraStreamProofs.** A frame is written inside the stream of the camera, for any
set of regions of interest and length of the circular buffer. `CameraWritesInside`
speaks of one place of the loop; the invariant says how it gets there: from the
creation of the stream until the loop is left, the stream is at least as large as the
members say (`Fits`), and the slot is 0 whenever the loop is not running (`FirstSlot`).
`Fits` allows for `onPowerOff`, which clears the size under the thread's feet but only
ever makes it smaller. The steps of the monitor and the removal of the stale file
leave the grabber and the geometry alone (`OthersStep`).

**Only model-checked.** All liveness: fairness and `ENABLED` are out of the prover's
reach. These are `StopCompletes`, `WindowReturned`, `ShutdownEnds`, `ToggleSettles`,
`SizingEnds`, `EntriesFlushed`, `DestructorEnds`, `PublicationSettles`, `PowerFollowed`,
`AllSubscribed`, `RetriesEnd`, `OperatorSucceeds`, `RestartHonoured`, `FollowsStream` and
`FramesAsConfigured`.

## 7 Findings

Each is a configuration in which TLC shows that the code does not do what its
comment says. The first two are runs of `PROJECT.json`; the others are reproduced
with the configuration that is named.

1. `log_signal`: `handlerSigTerm` logs, and takes `m_qMutex`; on a thread that
   already holds it, it never returns (`MagAOXApp.hpp:409`, 2323).
2. `shmim_create`: `create()` of shmimMonitor says that it is "all local to this
   function" (`shmimMonitor.hpp:864`), but opens and destroys the existing stream in
   `m_imageStream`, which the monitor thread is using.
3. `StreamWriterSavingLog.cfg`: a writer that is armed while its stream is replaced
   records without a `saving_start` entry. `restartWriting` and
   `m_resumeAfterReconnect` are documented to suppress it for the restart of a
   recording only (`streamWriter.hpp:1531`, 165, 1693).
4. `LogManagerBatch.cfg`: `logManager.hpp:510` says that a batch holds what is in the
   list when it begins. `end()` of a list moves with it, so a batch goes on as long
   as entries arrive, and the flush waits; `EntriesFlushed` therefore asks for the flush
   only once the logging pauses.
5. `AppRefresh.cfg`: `state( state() )` at the end of the event loop "purely"
   refreshes INDI (`MagAOXApp.hpp:2095`), but takes back a state that a callback sets
   between the reading and the writing.
6. `AppPowerOff.cfg`: `onPowerOff` is documented for a detected change to power off
   (`MagAOXApp.hpp:1239`); it is also called when the wait for the power state ends
   with the state unknown (line 1983).
7. `OutletSkip.cfg`: `turnChannelOn` and `turnChannelOff` "take no other action if
   already" in that state (`outletController.hpp`), but decide by the last poll: a
   command given after a change and before the next poll is passed over although
   the outlets are in the other state. `OperatorSucceeds` shows that repeating it
   helps.

Facts met on the way that no configuration shows:

- PID lock: the documentation says that the configured name counts and not
  `argv[0]` (`MagAOXApp.hpp:497-499`); `lockPID` also compares `argv[0]`, so an
  instance started by another path is not recognised. A stale file with the
  process's own new PID makes it refuse itself. `unlockPID` removes the file
  whoever's number is in it.
- frameGrabber: a setting that falls between `configureAcquisition` and
  `m_reconfig = false` (lines 856 to 943) is lost until the next one
  (`missed` in `FrameGrabber`). After a power cycle `m_circBuffLength` stays 1, as
  `onPowerOff` leaves it, whatever was configured. The data type is not compared, so
  a stream of the same size and another type is kept. A power loss between the
  comparison and the creation makes a stream of size 0x0 for a moment.
- shmimMonitor: the image is left open on the ways that go round the outer loop
  before it is set up; the thread ends, and is not restarted, when a stream has no
  free semaphore or its file disappears before `stat`. The state is read once by the
  loop that opens the stream (548) and again behind it (611): if it leaves and returns
  between them the thread goes on without having opened anything, with the image of an
  earlier round or, where the model ends it, with none at all.
- trippLitePDU: the answer to a command is read and not looked at, so that an outlet the
  unit refuses to switch counts as switched and the next one of its channel follows; the
  poll corrects what is published, not what was done.
- outletController: `log<outlet_state>` is given the index in the order and not the
  outlet; the target of an ignored command is still published as busy; a failed poll
  publishes nothing. With one answer left behind every poll reads the answer to the
  dialogue before it, which is why one late answer does no harm and two do.

## 8 Limits of the models

- Flags that threads share without a lock (`m_shutdown`, `m_restart`,
  `m_logShutdown`, `m_logThreadRunning`) and the unlocked `++it` are data races in
  C++; the models take each access as one step, in any interleaving.
- **StreamWriter**: short writes and encoder errors that the code only logs count
  as written; the backlog summary, telemetry and encoder statistics are left out.
  The number of frames is bounded in the runs.
- **LogFile**: every reading of the clock is later than the one before
  (`CLOCK_REALTIME` set back is not modelled); how much a failing write leaves
  behind is not either. The comment at `logFileRaw.hpp:457`, that a file's name is
  not later than its entries, is about the entry that starts the file: a late entry
  goes into the open file on purpose.
- **LogManager**: the destructor runs when the threads that log have ended, as it
  does at the end of `main`. Entries are bounded, so a batch that feeds itself
  through `logMessage` is not told from one that ends. The properties do not rest on
  the bound: each entry is promised by its number, and the flush when no more are logged.
- **AppLifecycle**: the derived application is any application that sets states
  of `AppStates`, never POWERON or POWEROFF, which only `execute()` sets; `try_lock`
  on a mutex that the thread holds already is taken as busy; errors of `unlockPID`
  are logged only, and the lock counts as released.
- **CircBuffLengths**: products do not overflow (the code multiplies width, height
  and type size in 32 bits, line 1040 of `streamWriter.hpp`), and a write length of
  zero, by which `appStartup` divides at line 765, is not a configuration.
- **PidLock**: the status directory is not removed while processes exist; a command
  line is what a process was invoked with.
- **OutletController**: delays between two outlets are any interleaving; orders are
  permutations and channels have no outlet in common: this is assumed of the
  configuration (`OutletAssumption`), of which the code checks the lengths only (lines
  469, 486). The event loop may connect while the INDI thread is in a
  dialogue on the same connection (`trippLitePDU.hpp:525`); the model connects
  between two dialogues.
- **ShmimMonitor, FrameGrabber**: ImageStreamIO is modelled from its use: `createIm`
  makes the semaphores last, `destroyIm` marks the stream and removes the file.
  Every stream has one reader and one semaphore. Cameras that do not own their
  stream, the latency statistics and the flips are left out.

Not modelled, and why: stdMotionStage, stateRuleEngine and xindiserver are in the
plan; device and adaptive-optics applications (their behaviour is
that of a device or a vendor library, or numerical), the rest of `indiserver` and the
INDI libraries (third-party or parsing), flatlogs (memory layout), GUI, Python and
scripts (presentation and tooling). `components` in `PROJECT.json` lists every part.

## 9 Running it

    tlc -config StreamWriterSafety.cfg MCStreamWriter
    tlapm StreamWriterProofs.tla

`PROJECT.json` lists the module and configuration of every run.
