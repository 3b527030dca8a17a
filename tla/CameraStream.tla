----------------------------- MODULE CameraStream -----------------------------
(***************************************************************************)
(* A camera and an application that follows its image stream: FrameGrabber *)
(* is the owner that ShmimMonitor leaves open.  The camera creates and     *)
(* destroys the stream as its geometry changes, its process may be killed  *)
(* and started anew, and the stale file be removed in between.             *)
(***************************************************************************)
EXTENDS ShmimMonitor

CONSTANTS
    Roi, Default, Depth, MaxCamera,  \* see FrameGrabber
    MaxTotal                         \* bound: requests and events on either side

VARIABLES
    fgPc, mine, roi, depth, cnt1, reconfig, nextROI, powered, camera,
    fgShutdown, cameraEvents, missed

Camera == INSTANCE FrameGrabber

ASSUME CameraAssumption ==
    /\ Default \in Roi /\ "0x0" \notin Roi /\ Depth \in Nat \ {0}
    /\ MaxCamera \in Nat /\ MaxTotal \in Nat /\ Size = Camera!Geometry

cameraVars ==
    <<fgPc, mine, roi, depth, cnt1, reconfig, nextROI, powered, camera,
      fgShutdown, cameraEvents, missed>>
allVars == <<vars, cameraVars>>

CameraInit == Init /\ Camera!GrabberInit /\ size = <<Camera!NoRoi, 1>>

-----------------------------------------------------------------------------
\* The first inode that nobody refers to any more, and that of the file which is there.
NewInode ==
    LET free == Stream \ {file, mine, image, inode}
    IN  {s \in free : \A t \in free : s <= t} \cup ({file} \ {None})

\* Bounds; what happens after the end of the monitor thread is left out.
Followed == pc # "end" /\ requests' + events' + cameraEvents' <= MaxTotal

\* A step of the camera; the semaphores of its stream are posted with a frame.
CameraStep ==
    /\ \E s \in NewInode : Camera!CameraNext(s)
    /\ posted' = (posted \/ (Camera!FgPublish /\ image = mine))
    /\ UNCHANGED <<created, monitorVars, restart, appVars, asked>>
    /\ Followed

\* The file that a dead process has left is removed.
RemoveStale == Remove /\ mine = None /\ UNCHANGED cameraVars /\ Followed

ApplicationStep ==
    /\ Monitor \/ SetupFails \/ AllocFails \/ WaitFails \/ Request \/ StateChange \/ Shutdown
    /\ UNCHANGED cameraVars
    /\ Followed

CameraSystem == CameraStep \/ ApplicationStep \/ RemoveStale

(***************************************************************************)
(* Both threads go on.  Nothing is asked of the camera: not that there are *)
(* frames, power or a connection.                                          *)
(***************************************************************************)
CameraSpec ==
    /\ CameraInit /\ [][CameraSystem]_allVars
    /\ WF_allVars(Monitor /\ UNCHANGED cameraVars)
    /\ WF_allVars(CameraStep /\ \E s \in Stream : Camera!FgThread(s))

-----------------------------------------------------------------------------
\* The camera is on, its process running and connected.
CameraOn == powered /\ camera = "ready" /\ ~fgShutdown /\ fgPc # "end"

(***************************************************************************)
(* The application ends up with the frames that were asked of the camera.  *)
(* Once both have come to rest the stream is the one the camera writes, of *)
(* the region of interest that was set last, but for a setting between     *)
(* configureAcquisition and the reset of m_reconfig, which is missed; and  *)
(* if there are frames the monitor is on that stream and has allocated for *)
(* its geometry, unless its thread has ended or it is mistaken about the   *)
(* file it has open (see ShmimMonitor).  This is so through                *)
(* reconfigurations, power cycles, errors and restarts on either side.     *)
(***************************************************************************)
FramesAsConfigured ==
    <>[](CameraOn /\ active) =>
        /\ <>[](pc = "end" \/ missed \/ (file # None /\ file = mine /\ geom[file][1] = nextROI))
        /\ []<>(fgPc = "load") =>
              <>[](\/ pc = "end"
                   \/ pc = "grab" /\ Mistaken
                   \/ pc = "grab" /\ image = file /\ file = mine /\ size = geom[file])

(***************************************************************************)
(* Inside: see FrameGrabber, for the camera of this system.                *)
(***************************************************************************)
CameraWritesInside == Camera!WritesInside
=============================================================================
