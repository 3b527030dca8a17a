-------------------------- MODULE CameraStreamProofs --------------------------
(***************************************************************************)
(* That a camera writes its frames inside the stream, for any regions of   *)
(* interest, length of the circular buffer and number of events.           *)
(***************************************************************************)
EXTENDS CameraStream, TLAPS

\* What is known of the streams and of the members of the grabber.
Types ==
    /\ geom \in [Stream -> (Roi \cup {"0x0"}) \X {1, Depth}]
    /\ file \in Stream \cup {None} /\ mine \in Stream \cup {None}
    /\ roi \in Roi \cup {"0x0"} /\ nextROI \in Roi /\ depth \in {1, Depth}
    /\ cnt1 \in Nat

\* From its creation until the loop is left, the stream is at least as large as the
\* members say; onPowerOff only makes them smaller.
Fits ==
    fgPc \in {"semaphores", "start", "grab", "load"} =>
        /\ mine \in Stream
        /\ roi \in {geom[mine][1], "0x0"}
        /\ depth <= geom[mine][2] /\ cnt1 < geom[mine][2]

\* The slot is the first one whenever the loop is not running.
FirstSlot == fgPc \notin {"grab", "load"} => cnt1 = 0

IndInv == Types /\ Fits /\ FirstSlot

\* CameraInit establishes the invariant.
LEMMA InitHolds == CameraInit => IndInv
<1> SUFFICES ASSUME CameraInit PROVE IndInv
    OBVIOUS
<1> USE CameraAssumption
<1>1. Types
    BY DEF CameraInit, Camera!GrabberInit, Camera!NoRoi, Types
<1>2. Fits /\ FirstSlot
    BY DEF CameraInit, Camera!GrabberInit, Fits, FirstSlot
<1> QED
    BY <1>1, <1>2 DEF IndInv

\* An inode that is given to a stream is one of the bounded number.
LEMMA InodeType == Types => NewInode \subseteq Stream
BY DEF Types, NewInode, Stream, None

\* The monitor and the removal of a stale file leave the grabber and the geometry alone.
LEMMA OthersStep ==
    ASSUME IndInv, ApplicationStep \/ RemoveStale
    PROVE  IndInv'
<1>1. UNCHANGED geom /\ file' \in {file, None} /\ UNCHANGED cameraVars
  <2>1. CASE ApplicationStep
    BY <2>1 DEF ApplicationStep, Monitor, Wake, Reset, Open, OpenUnready, OpenEnds, Recheck, Stat,
                Check, Setup, Alloc, Existing, GrabEnds, Frame, Timeout, Close, SetupFails, AllocFails,
                WaitFails, Request, StateChange, Shutdown, Idle, streamVars
  <2>2. CASE RemoveStale
    BY <2>2 DEF RemoveStale, Remove
  <2> QED
    BY <2>1, <2>2
<1> QED
    BY <1>1 DEF IndInv, Types, Fits, FirstSlot, cameraVars

\* A step of the thread: one step per action.
LEMMA ThreadStep ==
    ASSUME IndInv, NEW s \in Stream,
           Camera!FgThread(s) \/ Camera!FgConfigureFails \/ Camera!FgFails \/ Camera!FgAcquire
    PROVE  IndInv'
<1> USE CameraAssumption DEF IndInv, Camera!sharedVars, Camera!memberVars, Camera!FgGoto
<1>1. CASE Camera!FgWait
    BY <1>1 DEF Camera!FgWait, Types, Fits, FirstSlot
<1>2. CASE Camera!FgConfigure
    BY <1>2 DEF Camera!FgConfigure, Types, Fits, FirstSlot
<1>3. CASE Camera!FgCompare
    BY <1>3 DEF Camera!FgCompare, Types, Fits, FirstSlot
<1>4. CASE Camera!FgCreate(s)
    BY <1>4 DEF Camera!FgCreate, Types, Fits, FirstSlot
<1>5. CASE Camera!FgSemaphores
    BY <1>5 DEF Camera!FgSemaphores, Types, Fits, FirstSlot
<1>6. CASE Camera!FgStart
    BY <1>6 DEF Camera!FgStart, Types, Fits, FirstSlot
<1>7. CASE Camera!FgPublish
    BY <1>7 DEF Camera!FgPublish, Types, Fits, FirstSlot
<1>8. CASE Camera!FgLoopEnds
    BY <1>8 DEF Camera!FgLoopEnds, Types, Fits, FirstSlot
<1>9. CASE Camera!FgExit
    BY <1>9 DEF Camera!FgExit, Types, Fits, FirstSlot
<1>10. CASE Camera!FgConfigureFails
    BY <1>10 DEF Camera!FgConfigureFails, Types, Fits, FirstSlot
<1>11. CASE Camera!FgFails
    BY <1>11 DEF Camera!FgFails, Types, Fits, FirstSlot
<1>12. CASE Camera!FgAcquire
    BY <1>12 DEF Camera!FgAcquire, Types, Fits, FirstSlot
<1> QED
    BY <1>1, <1>2, <1>3, <1>4, <1>5, <1>6, <1>7, <1>8, <1>9, <1>10, <1>11, <1>12
    DEF Camera!FgThread

\* A step of the main thread or of the INDI thread, at any point of the other.
LEMMA MembersStep ==
    ASSUME IndInv,
           \/ Camera!PowerLost \/ Camera!OnPowerOff \/ Camera!PowerBack \/ Camera!CameraError
           \/ Camera!Connect \/ Camera!Connected \/ Camera!Set \/ Camera!Terminate
           \/ Camera!Restart \/ \E r \in Roi : Camera!TargetROI(r)
    PROVE  IndInv'
<1> USE CameraAssumption DEF IndInv, Camera!sharedVars, Camera!threadVars
<1>1. CASE Camera!PowerLost \/ Camera!PowerBack \/ Camera!CameraError \/ Camera!Connected
           \/ Camera!Set \/ Camera!Terminate
    BY <1>1 DEF Camera!PowerLost, Camera!PowerBack, Camera!CameraError, Camera!Connected,
                Camera!Set, Camera!Terminate, Types, Fits, FirstSlot
<1>2. CASE Camera!OnPowerOff
    BY <1>2 DEF Camera!OnPowerOff, Camera!NoRoi, Types, Fits, FirstSlot
<1>3. CASE Camera!Connect \/ \E r \in Roi : Camera!TargetROI(r)
    BY <1>3 DEF Camera!Connect, Camera!TargetROI, Types, Fits, FirstSlot
<1>4. CASE Camera!Restart
    BY <1>4 DEF Camera!Restart, Camera!NoRoi, Types, Fits, FirstSlot
<1> QED
    BY <1>1, <1>2, <1>3, <1>4

(***************************************************************************)
(* The invariant of frameGrabber holds: the stream a frame is written to   *)
(* is at least as large as the members of the grabber say.                 *)
(***************************************************************************)
THEOREM InvariantHolds == CameraSpec => []IndInv
<1>1. IndInv /\ [CameraSystem]_allVars => IndInv'
  <2> SUFFICES ASSUME IndInv, [CameraSystem]_allVars PROVE IndInv'
    OBVIOUS
  <2>1. CASE CameraStep
    <3>1. PICK s \in NewInode : Camera!CameraNext(s)
      BY <2>1 DEF CameraStep
    <3>2. s \in Stream
      BY <3>1, InodeType DEF IndInv
    <3> QED
      BY <3>1, <3>2, ThreadStep, MembersStep DEF Camera!CameraNext
  <2>2. CASE ApplicationStep \/ RemoveStale
    BY <2>2, OthersStep
  <2>3. CASE UNCHANGED allVars
    BY <2>3 DEF allVars, vars, streamVars, cameraVars, IndInv, Types, Fits, FirstSlot
  <2> QED
    BY <2>1, <2>2, <2>3 DEF CameraSystem
<1> QED
    BY <1>1, InitHolds, PTL DEF CameraSpec

(***************************************************************************)
(* A frame is always written inside the stream, whatever onPowerOff or a   *)
(* setting changes between the comparison and the copy, for any regions of *)
(* interest, length of the circular buffer, faults and restarts.           *)
(***************************************************************************)
THEOREM WritesInsideHolds == CameraSpec => []CameraWritesInside
<1>1. IndInv => CameraWritesInside
    BY DEF IndInv, Fits, CameraWritesInside, Camera!WritesInside, Camera!NoRoi, Stream, None
<1> QED
    BY <1>1, InvariantHolds, PTL
=============================================================================
