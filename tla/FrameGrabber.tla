----------------------------- MODULE FrameGrabber -----------------------------
(***************************************************************************)
(* frameGrabber with a camera (pvcamCtrl): a thread of the camera's        *)
(* application configures the acquisition, creates the image stream for    *)
(* its geometry and writes frames to it, until a reconfiguration is asked  *)
(* for, the power is lost or the process ends.  The main thread and the    *)
(* INDI thread change the geometry, the region of interest and the flag    *)
(* m_reconfig under it, without a lock.  Streams are numbered by inode.    *)
(***************************************************************************)
EXTENDS Naturals

CONSTANTS
    Stream, None,   \* inodes, and none
    Roi,            \* sizes of the region of interest
    Default,        \* the one at power-on
    Depth,          \* the configured m_circBuffLength
    MaxCamera       \* bound: settings, losses of power, errors and ends of the process

NoRoi == "0x0"
Geometry == (Roi \cup {NoRoi}) \X {1, Depth}

VARIABLES
    file, geom, ready, cleaned,  \* the streams, see ShmimMonitor
    fgPc,         \* the thread
    mine,         \* m_imageStream
    roi, depth,   \* m_width and m_height, m_circBuffLength
    cnt1,         \* next_cnt1, 0 outside the loop it belongs to
    reconfig,     \* m_reconfig
    nextROI,      \* m_nextROI
    powered,      \* powerState() > 0
    camera,       \* the FSM state: "ready" stands for READY and OPERATING
    fgShutdown,   \* m_shutdown of the camera's application
    cameraEvents,
    missed        \* history: m_nextROI was changed and not set, or m_reconfig was set
                  \* between configureAcquisition and its reset

sharedVars == <<file, geom, ready, cleaned>>
threadVars == <<fgPc, mine, cnt1>>
memberVars == <<roi, depth, reconfig, nextROI, powered, camera, fgShutdown>>
fgVars == <<threadVars, memberVars, cameraEvents, missed>>

GrabberTypeOK ==
    /\ file \in Stream \cup {None} /\ mine \in Stream \cup {None}
    /\ geom \in [Stream -> Geometry] /\ ready \subseteq Stream /\ cleaned \subseteq Stream
    /\ fgPc \in {"wait", "configure", "compare", "create", "semaphores", "start",
                 "grab", "load", "end"}
    /\ roi \in Roi \cup {NoRoi} /\ depth \in {1, Depth} /\ cnt1 \in 0 .. Depth - 1
    /\ nextROI \in Roi /\ camera \in {"off", "error", "connecting", "ready"}
    /\ reconfig \in BOOLEAN /\ powered \in BOOLEAN /\ fgShutdown \in BOOLEAN
    /\ missed \in BOOLEAN /\ cameraEvents \in 0 .. MaxCamera

GrabberInit ==
    /\ file = None /\ ready = {} /\ cleaned = {}
    /\ geom = [s \in Stream |-> <<NoRoi, 1>>]
    /\ fgPc = "wait" /\ mine = None /\ cnt1 = 0
    /\ roi = NoRoi /\ depth = Depth /\ nextROI = Default /\ reconfig = FALSE
    /\ camera = "off" /\ fgShutdown = FALSE /\ missed = FALSE
    /\ powered = TRUE /\ cameraEvents = 0

Happens == cameraEvents < MaxCamera /\ cameraEvents' = cameraEvents + 1

-----------------------------------------------------------------------------
(* The thread: fgThreadExec *)

FgGoto(l) == fgPc' = l

\* It waits for a camera that is ready and has power.
FgWait ==
    /\ fgPc = "wait"
    /\ ~fgShutdown /\ camera = "ready" /\ powered
    /\ FgGoto("configure")
    /\ UNCHANGED <<sharedVars, mine, cnt1, memberVars, cameraEvents, missed>>

\* The stream is destroyed with the thread.
FgExit ==
    /\ fgPc = "wait" /\ fgShutdown
    /\ file' = IF mine = None THEN file ELSE None
    /\ cleaned' = cleaned \cup ({mine} \ {None})
    /\ mine' = None
    /\ FgGoto("end")
    /\ UNCHANGED <<geom, ready, cnt1, memberVars, cameraEvents, missed>>

\* configureAcquisition sets the size from the region of interest, and leaves the depth.
FgConfigure ==
    /\ fgPc = "configure"
    /\ roi' = nextROI /\ missed' = FALSE
    /\ FgGoto("compare")
    /\ UNCHANGED <<sharedVars, mine, cnt1, depth, reconfig, nextROI, powered, camera,
                   fgShutdown, cameraEvents>>

\* The camera refuses; some refusals end the application.
FgConfigureFails ==
    /\ fgPc = "configure"
    /\ Happens
    /\ roi' \in {roi, nextROI} /\ fgShutdown' \in {fgShutdown, TRUE}
    /\ FgGoto("wait")
    /\ UNCHANGED <<sharedVars, mine, cnt1, depth, reconfig, nextROI, powered, camera, missed>>

\* Variant: a stream is created once.
FgCompareOnce ==
    /\ fgPc = "compare"
    /\ FgGoto(IF mine = None THEN "create" ELSE "start")
    /\ UNCHANGED <<sharedVars, mine, cnt1, memberVars, cameraEvents, missed>>

\* A stream of another geometry is destroyed: cleaned up, and its file removed.
FgCompare ==
    /\ fgPc = "compare"
    /\ IF mine # None /\ geom[mine] = <<roi, depth>>
       THEN FgGoto("start") /\ UNCHANGED <<file, cleaned>>
       ELSE /\ FgGoto("create")
            /\ cleaned' = cleaned \cup ({mine} \ {None})
            /\ file' = IF mine = None THEN file ELSE None
    /\ UNCHANGED <<geom, ready, mine, cnt1, memberVars, cameraEvents, missed>>

\* createIm for the members as they are now: a new inode, or that of the file which is there.
FgCreate(s) ==
    /\ fgPc = "create"
    /\ file' = s /\ mine' = s
    /\ geom' = [geom EXCEPT ![s] = <<roi, depth>>]
    /\ ready' = ready \ {s} /\ cleaned' = cleaned \ {s}
    /\ FgGoto("semaphores")
    /\ UNCHANGED <<cnt1, memberVars, cameraEvents, missed>>

FgSemaphores ==
    /\ fgPc = "semaphores"
    /\ ready' = ready \cup {mine}
    /\ FgGoto("start")
    /\ UNCHANGED <<file, geom, cleaned, mine, cnt1, memberVars, cameraEvents, missed>>

\* "This completes the reconfiguration", and the acquisition is started.
FgStart ==
    /\ fgPc = "start"
    /\ reconfig' = FALSE
    /\ FgGoto("grab")
    /\ UNCHANGED <<sharedVars, mine, cnt1, roi, depth, nextROI, powered, camera, fgShutdown,
                   cameraEvents, missed>>

\* startAcquisition, acquireAndCheckValid or loadImageIntoStream fails.
FgFails ==
    /\ fgPc \in {"grab", "load"}
    /\ Happens
    /\ FgGoto("wait") /\ cnt1' = 0
    /\ UNCHANGED <<sharedVars, mine, memberVars, missed>>

Grabbing == ~fgShutdown /\ ~reconfig /\ powered

\* The wait for a frame, after the test of the loop.
FgAcquire ==
    /\ fgPc = "grab" /\ Grabbing
    /\ FgGoto("load")
    /\ UNCHANGED <<sharedVars, mine, cnt1, memberVars, cameraEvents, missed>>

\* The frame is written to its slot and posted.
FgPublish ==
    /\ fgPc = "load"
    /\ cnt1' = IF cnt1 + 1 >= depth THEN 0 ELSE cnt1 + 1
    /\ FgGoto("grab")
    /\ UNCHANGED <<sharedVars, mine, memberVars, cameraEvents, missed>>

\* Variant: a setting waits for the power to be lost.
FgLoopEndsUnasked ==
    /\ fgPc = "grab" /\ (fgShutdown \/ ~powered)
    /\ FgGoto("wait") /\ cnt1' = 0
    /\ UNCHANGED <<sharedVars, mine, memberVars, cameraEvents, missed>>

FgLoopEnds ==
    /\ fgPc = "grab" /\ ~Grabbing
    /\ FgGoto("wait") /\ cnt1' = 0
    /\ UNCHANGED <<sharedVars, mine, memberVars, cameraEvents, missed>>

FgThread(s) ==
    \/ FgWait \/ FgConfigure \/ FgCompare \/ FgCreate(s) \/ FgSemaphores
    \/ FgStart \/ FgPublish \/ FgLoopEnds \/ FgExit

-----------------------------------------------------------------------------
(* The main thread and the INDI thread of the camera *)

\* m_reconfig is set for the thread, wherever it is.
AskReconfig ==
    /\ reconfig' = TRUE
    /\ missed' = (fgPc \in {"compare", "create", "semaphores", "start"})

\* A target of the region of interest, to be set with roi_set.
TargetROI(r) ==
    /\ Happens
    /\ camera # "connecting"
    /\ r # nextROI
    /\ nextROI' = r /\ missed' = TRUE
    /\ UNCHANGED <<sharedVars, threadVars, roi, depth, reconfig, powered, camera, fgShutdown>>

\* roi_set, or the setting of something else that takes a reconfiguration.
Set ==
    /\ Happens
    /\ camera # "connecting"
    /\ AskReconfig
    /\ UNCHANGED <<sharedVars, threadVars, roi, depth, nextROI, powered, camera, fgShutdown>>

PowerLost ==
    /\ Happens
    /\ powered /\ powered' = FALSE
    /\ UNCHANGED <<sharedVars, threadVars, roi, depth, reconfig, nextROI, camera, fgShutdown, missed>>

\* The event loop finds the power off: onPowerOff.
OnPowerOff ==
    /\ ~powered /\ camera \in {"ready", "error"} /\ fgPc # "end"
    /\ camera' = "off"
    /\ roi' = NoRoi /\ depth' = 1 /\ AskReconfig
    /\ UNCHANGED <<sharedVars, threadVars, nextROI, powered, fgShutdown, cameraEvents>>

PowerBack ==
    /\ ~powered /\ powered' = TRUE
    /\ UNCHANGED <<sharedVars, threadVars, roi, depth, reconfig, nextROI, camera, fgShutdown,
                   cameraEvents, missed>>

\* A call to the camera fails.
CameraError ==
    /\ Happens
    /\ camera = "ready" /\ camera' = "error"
    /\ UNCHANGED <<sharedVars, threadVars, roi, depth, reconfig, nextROI, powered, fgShutdown, missed>>

\* appLogic, without a camera: after the power has come back the defaults are set.
Connect ==
    /\ powered /\ camera \in {"off", "error"} /\ fgPc # "end"
    /\ camera' = "connecting" /\ AskReconfig
    /\ nextROI' = IF camera = "off" THEN Default ELSE nextROI
    /\ UNCHANGED <<sharedVars, threadVars, roi, depth, powered, fgShutdown, cameraEvents>>

\* The camera is found or not, with m_indiMutex locked meanwhile.
Connected ==
    /\ camera = "connecting"
    /\ camera' \in {"ready", "error"}
    /\ UNCHANGED <<sharedVars, threadVars, roi, depth, reconfig, nextROI, powered,
                   fgShutdown, cameraEvents, missed>>

Terminate ==
    /\ Happens
    /\ ~fgShutdown /\ fgShutdown' = TRUE
    /\ UNCHANGED <<sharedVars, threadVars, roi, depth, reconfig, nextROI, powered, camera, missed>>

\* The process starts anew after it has ended, or was killed and has left its file.
Restart ==
    /\ Happens
    /\ fgPc' = "wait" /\ mine' = None /\ cnt1' = 0
    /\ roi' = NoRoi /\ depth' = Depth /\ nextROI' = Default /\ reconfig' = FALSE
    /\ camera' = "off" /\ fgShutdown' = FALSE /\ missed' = FALSE
    /\ UNCHANGED <<sharedVars, powered>>

CameraNext(s) ==
    \/ FgThread(s) \/ FgConfigureFails \/ FgFails \/ FgAcquire
    \/ PowerLost \/ OnPowerOff \/ PowerBack \/ CameraError \/ Connect \/ Connected \/ Set \/ Terminate \/ Restart
    \/ \E r \in Roi : TargetROI(r)

-----------------------------------------------------------------------------
(***************************************************************************)
(* A frame is written inside the stream that was created for it: whatever  *)
(* onPowerOff or a setting changes in the members between the comparison,  *)
(* the creation, the test of the loop and the copy.                        *)
(***************************************************************************)
WritesInside ==
    fgPc = "load" =>
        /\ mine # None /\ roi \in {geom[mine][1], NoRoi}
        /\ cnt1 < geom[mine][2]
=============================================================================
