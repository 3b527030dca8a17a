----------------------------- MODULE ShmimMonitor -----------------------------
(***************************************************************************)
(* shmimMonitor: a thread of the application follows a shared-memory image *)
(* stream of another process.  It opens the file of that name, has the     *)
(* application allocate for its geometry, and passes on every frame, until *)
(* a restart is requested, the application leaves the target state, or the *)
(* stream is destroyed, removed or replaced.  Streams are numbered by      *)
(* inode: a name may refer to another one at any time.                     *)
(***************************************************************************)
EXTENDS Naturals, FiniteSets

CONSTANTS
    Size,           \* geometries of a stream
    GetExisting,    \* m_getExistingFirst
    MaxStreams,     \* bound: inodes
    MaxRequests,    \* bound: restarts requested by the application
    MaxEvents       \* bound: changes of the state or a geometry, frames, errors

ASSUME ShmimAssumption ==
    /\ Size # {} /\ GetExisting \in BOOLEAN
    /\ MaxStreams \in Nat /\ MaxRequests \in Nat /\ MaxEvents \in Nat

Stream == 1 .. MaxStreams
None == 0

VARIABLES
    file,        \* the stream the name refers to
    created,     \* number of streams there have been
    geom,        \* geometry of each stream
    ready,       \* streams with all their semaphores
    cleaned,     \* streams whose owner has cleaned up
    posted,      \* the semaphore of the monitor is posted
    pc,          \* the monitor thread
    image,       \* m_imageStream
    inode,       \* m_inode
    size,        \* m_dataType, m_width, m_height, m_depth
    restart,     \* m_restart
    active,      \* state() = m_targetState
    shutdown,
    requests, events,
    asked        \* history: a restart was requested and allocate() not called since

streamVars == <<file, created, geom, ready, cleaned>>
monitorVars == <<pc, image, inode, size>>
appVars == <<active, shutdown, requests, events>>
vars == <<streamVars, posted, monitorVars, restart, appVars, asked>>

TypeOK ==
    /\ file \in Stream \cup {None} /\ created \in 0 .. MaxStreams
    /\ geom \in [Stream -> Size]
    /\ ready \subseteq Stream /\ cleaned \subseteq Stream
    /\ image \in Stream \cup {None} /\ inode \in Stream \cup {None}
    /\ size \in Size
    /\ pc \in {"wait", "reset", "open", "recheck", "stat", "check", "setup", "alloc",
               "existing", "grab", "close", "end"}
    /\ posted \in BOOLEAN /\ restart \in BOOLEAN /\ active \in BOOLEAN
    /\ shutdown \in BOOLEAN /\ asked \in BOOLEAN
    /\ requests \in 0 .. MaxRequests /\ events \in 0 .. MaxEvents

Init ==
    /\ file = None /\ created = 0
    /\ geom \in [Stream -> Size]
    /\ ready = {} /\ cleaned = {} /\ posted = FALSE
    /\ pc = "wait" /\ image = None /\ inode = None /\ size \in Size
    /\ restart = FALSE /\ active = FALSE /\ shutdown = FALSE
    /\ requests = 0 /\ events = 0 /\ asked = FALSE

-----------------------------------------------------------------------------
(* The monitor thread: smThreadExec *)

Goto(at) == pc' = at

Idle == UNCHANGED <<streamVars, appVars, asked>>

\* The conditions under which its loops go on.
Wanted == ~shutdown /\ ~restart /\ active

Wake ==
    /\ pc = "wait"
    /\ \/ shutdown /\ Goto("end")
       \/ ~shutdown /\ (active \/ restart) /\ Goto("reset")
    /\ UNCHANGED <<posted, image, inode, size, restart>> /\ Idle

\* A request made since the test is dropped: the stream is about to be opened.
Reset ==
    /\ pc = "reset"
    /\ restart' = FALSE
    /\ Goto("open")
    /\ UNCHANGED <<posted, image, inode, size>> /\ Idle

\* ImageStreamIO_openIm of a stream with all its semaphores.
Open ==
    /\ pc = "open" /\ Wanted
    /\ file # None /\ file \in ready \ cleaned
    /\ image' = file
    /\ Goto("stat")
    /\ UNCHANGED <<posted, inode, size, restart>> /\ Idle

\* A stream without all its semaphores is opened and closed again.
OpenUnready ==
    /\ pc = "open" /\ Wanted
    /\ file # None /\ file \notin ready /\ image # None
    /\ image' = None
    /\ UNCHANGED <<posted, pc, inode, size, restart>> /\ Idle

\* The loop ends without an image.
OpenEnds ==
    /\ pc = "open" /\ ~Wanted
    /\ Goto("recheck")
    /\ UNCHANGED <<posted, image, inode, size, restart>> /\ Idle

\* Why it ended is looked at anew.  When the application has left the target state and
\* is back in it there seems to be no reason, and the thread goes on: with an image that
\* an earlier round has left open, or with none, where it does not survive.
Recheck ==
    /\ pc = "recheck"
    /\ \/ (restart \/ ~active) /\ Goto("wait")
       \/ ~restart /\ active /\ Goto(IF shutdown \/ image = None THEN "end" ELSE "setup")
    /\ UNCHANGED <<posted, image, inode, size, restart>> /\ Idle

\* The inode of the name, which may not be the stream that was opened.
Stat ==
    /\ pc = "stat"
    /\ IF file = None
       THEN image' = None /\ Goto("end") /\ UNCHANGED inode
       ELSE inode' = file /\ Goto("check") /\ UNCHANGED image
    /\ UNCHANGED <<posted, size, restart>> /\ Idle

\* The image stays open when there is something else to do first.
Check ==
    /\ pc = "check"
    /\ \/ Wanted /\ Goto("setup") /\ UNCHANGED image
       \/ (restart \/ ~active) /\ Goto("wait") /\ UNCHANGED image
       \/ shutdown /\ ~restart /\ active /\ Goto("end") /\ image' = None
    /\ UNCHANGED <<posted, inode, size, restart>> /\ Idle

\* A semaphore is taken and flushed, the geometry read.
Setup ==
    /\ pc = "setup"
    /\ posted' = FALSE /\ size' = geom[image]
    /\ Goto("alloc")
    /\ UNCHANGED <<image, inode, restart>> /\ Idle

\* Every semaphore of the stream is taken.
SetupFails ==
    /\ pc = "setup"
    /\ Goto("end")
    /\ UNCHANGED <<posted, image, inode, size, restart>> /\ Idle

\* The application's allocate() is called.
Alloc ==
    /\ pc = "alloc"
    /\ asked' = FALSE
    /\ Goto(IF GetExisting THEN "existing" ELSE "grab")
    /\ UNCHANGED <<streamVars, posted, image, inode, size, restart, appVars>>

AllocFails ==
    /\ pc = "alloc"
    /\ asked' = FALSE
    /\ image' = None
    /\ Goto("end")
    /\ UNCHANGED <<streamVars, posted, inode, size, restart, appVars>>

\* The image that is there is processed without waiting, unless it has changed.
Existing ==
    /\ pc = "existing"
    /\ Goto(IF ~restart /\ ~shutdown /\ size # geom[image] THEN "wait" ELSE "grab")
    /\ UNCHANGED <<posted, image, inode, size, restart>> /\ Idle

\* Variant: a request is not looked at while there are frames.
GrabEndsUnasked ==
    /\ pc = "grab" /\ (shutdown \/ ~active)
    /\ Goto("close")
    /\ UNCHANGED <<posted, image, inode, size, restart>> /\ Idle

GrabEnds ==
    /\ pc = "grab" /\ ~Wanted
    /\ Goto("close")
    /\ UNCHANGED <<posted, image, inode, size, restart>> /\ Idle

\* A frame: it is processed, or the stream set up anew.
Frame ==
    /\ pc = "grab" /\ Wanted /\ posted
    /\ posted' = FALSE
    /\ Goto(IF size = geom[image] THEN "grab" ELSE "close")
    /\ UNCHANGED <<image, inode, size, restart>> /\ Idle

\* Variant: only a file that has disappeared is noticed.
TimeoutDisappeared ==
    /\ pc = "grab" /\ Wanted /\ ~posted
    /\ IF image \in cleaned
       THEN Goto("close") /\ UNCHANGED restart
       ELSE file = None /\ restart' = TRUE /\ UNCHANGED pc
    /\ UNCHANGED <<posted, image, inode, size>> /\ Idle

\* No frame for a second: is the stream still the one of that name?
Timeout ==
    /\ pc = "grab" /\ Wanted /\ ~posted
    /\ IF image \in cleaned
       THEN Goto("close") /\ UNCHANGED restart
       ELSE file # inode /\ restart' = TRUE /\ UNCHANGED pc
    /\ UNCHANGED <<posted, image, inode, size>> /\ Idle

\* The semaphore is given back, the image closed.
Close ==
    /\ pc = "close"
    /\ image' = None
    /\ Goto(IF shutdown THEN "end" ELSE "wait")
    /\ UNCHANGED <<posted, inode, size, restart>> /\ Idle

Event == events < MaxEvents /\ events' = events + 1

\* sem_timedwait is interrupted or fails, or there is no clock.
WaitFails ==
    /\ pc = "grab" /\ Wanted
    /\ Event
    /\ Goto("close") \/ Goto("end")
    /\ UNCHANGED <<streamVars, posted, image, inode, size, restart, active, shutdown, requests, asked>>

-----------------------------------------------------------------------------
(* The application's other threads *)

Request ==
    /\ requests < MaxRequests
    /\ requests' = requests + 1
    /\ restart' = TRUE /\ asked' = TRUE
    /\ UNCHANGED <<streamVars, posted, monitorVars, active, shutdown, events>>

\* create(): the stream of that name is opened in m_imageStream and destroyed, and made anew.
CreateOwn ==
    /\ created < MaxStreams
    /\ image' = IF file = None THEN image ELSE None
    /\ cleaned' = cleaned \cup ({file} \ {None})
    /\ created' = created + 1 /\ file' = created + 1 /\ ready' = ready \cup {created + 1}
    /\ UNCHANGED <<geom, posted, pc, inode, size, restart, appVars, asked>>

StateChange ==
    /\ Event
    /\ active' = ~active
    /\ UNCHANGED <<streamVars, posted, monitorVars, restart, shutdown, requests, asked>>

Shutdown ==
    /\ ~shutdown
    /\ shutdown' = TRUE
    /\ UNCHANGED <<streamVars, posted, monitorVars, restart, active, requests, events, asked>>

-----------------------------------------------------------------------------
(* The process that owns the stream *)

Create ==
    /\ file = None /\ created < MaxStreams
    /\ created' = created + 1 /\ file' = created + 1
    /\ UNCHANGED <<geom, ready, cleaned, posted, monitorVars, restart, appVars, asked>>

MakeReady ==
    /\ file # None /\ file \notin ready
    /\ ready' = ready \cup {file}
    /\ UNCHANGED <<file, created, geom, cleaned, posted, monitorVars, restart, appVars, asked>>

\* With ImageStreamIO_destroyIm, or by the removal of the file of a dead process.
Remove ==
    /\ file # None
    /\ file' = None
    /\ cleaned' \in {cleaned, cleaned \cup {file}}
    /\ UNCHANGED <<created, geom, ready, posted, monitorVars, restart, appVars, asked>>

\* The image is set up anew in the same file.
Reshape ==
    /\ Event
    /\ file # None
    /\ \E s \in Size \ {geom[file]} : geom' = [geom EXCEPT ![file] = s]
    /\ UNCHANGED <<file, created, ready, cleaned, posted, monitorVars, restart,
                   active, shutdown, requests, asked>>

Post ==
    /\ Event
    /\ file # None /\ file = image /\ ~posted
    /\ posted' = TRUE
    /\ UNCHANGED <<streamVars, monitorVars, restart, active, shutdown, requests, asked>>

Monitor ==
    \/ Wake \/ Reset \/ Open \/ OpenUnready \/ OpenEnds \/ Recheck \/ Stat \/ Check
    \/ Setup \/ Alloc \/ Existing \/ GrabEnds \/ Frame \/ Timeout \/ Close

Next ==
    \/ Monitor \/ SetupFails \/ AllocFails \/ WaitFails
    \/ Request \/ StateChange \/ Shutdown
    \/ Create \/ MakeReady \/ Remove \/ Reshape \/ Post

Spec == Init /\ [][Next]_vars /\ WF_vars(Monitor)

\* An application that calls create() itself.
SpecCreate == Init /\ [][Next \/ CreateOwn]_vars

-----------------------------------------------------------------------------
\* The application and the owner of the stream have come to rest, with a stream to follow.
Settled == active /\ file # None /\ file \in ready \ cleaned

(***************************************************************************)
(* Every restart is honoured: however a request falls between the test of  *)
(* m_restart and its reset, while the stream is opened, allocated for or   *)
(* grabbed, allocate() is called again, unless the thread ends.            *)
(***************************************************************************)
RestartHonoured ==
    <>[]Settled => [](asked => <>(~asked \/ pc = "end"))

\* The stream was replaced between openIm and stat, and its owner has not cleaned up:
\* m_inode is that of the file, which nothing distinguishes from the one that is open.
Mistaken == inode = file /\ image \notin cleaned \cup {file}

(***************************************************************************)
(* The monitor ends up on the stream its name refers to, through every     *)
(* removal and replacement, cleaned up or not, unless the thread ends or   *)
(* is mistaken about the file it has open.                                 *)
(***************************************************************************)
FollowsStream ==
    <>[]Settled => <>[](pc = "end" \/ (pc = "grab" /\ (image = file \/ Mistaken)))

(***************************************************************************)
(* "This is all local to this function, so the smThread itself will find   *)
(* out about the changes when the inode goes stale" (create): the stream   *)
(* the thread is working on stays open.                                    *)
(***************************************************************************)
ImageStays ==
    pc \in {"stat", "check", "setup", "alloc", "existing", "grab", "close"} => image # None
=============================================================================
