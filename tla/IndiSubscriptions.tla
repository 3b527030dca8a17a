-------------------------- MODULE IndiSubscriptions --------------------------
(***************************************************************************)
(* How a MagAOXApp stays subscribed to the properties of other devices.    *)
(* The event loop asks for every property whose definition is missing,     *)
(* with a growing delay; the INDI thread records the definitions and, when *)
(* the server may have been restarted, asks for everything again.  Both    *)
(* decide under m_indiCallBackMutex what to send and send after releasing  *)
(* it.  The application is a driver of the server, behind an xindidriver   *)
(* and two FIFOs: of the server (indiserver.c) the model has what concerns *)
(* one such driver, its list of snooped properties and its restart.  The   *)
(* processes of the other devices are external.                            *)
(***************************************************************************)
EXTENDS Naturals, Sequences, FiniteSets

CONSTANTS
    Key,          \* the keys of m_indiSetCallBacks
    Aliased,      \* keys whose property object now carries another key
    InitialDelay, MaxDelay,                 \* of the retries, in ticks
    MaxQueue,     \* bound: messages waiting in the input FIFO
    MaxRestarts,  \* bound: restarts of the server
    MaxFaults     \* bound: sends that throw, and devices that go down

ASSUME SubscriptionAssumption ==
    /\ Aliased \subseteq Key /\ "get" \notin Key
    /\ InitialDelay \in Nat \ {0} /\ MaxDelay \in Nat /\ InitialDelay <= MaxDelay
    /\ MaxQueue \in Nat \ {0} /\ MaxRestarts \in Nat /\ MaxFaults \in Nat

VARIABLES
    defReceived, allDefsReceived,  \* m_defReceived of each key, m_allDefsReceived
    retryDelay,   \* m_retryDelay
    remaining,    \* the ticks left until m_nextRetry; 0: due
    missingLogged,
    mainPc,       \* startINDI, then the event loop
    mainSends,    \* propsToGet of the event loop's sendGetPropertySetList
    indiSends,    \* propsToGet of the INDI thread's
    toServer,     \* requests on their way
    fromServer,   \* the input FIFO: keys of definitions, and "get"
    interest,     \* sprops: the properties the server forwards to the application
    up,           \* the properties whose device is running
    restarts, faults

callBackVars == <<defReceived, allDefsReceived, retryDelay, remaining, missingLogged>>
serverVars   == <<interest, up, restarts>>
vars == <<callBackVars, mainPc, mainSends, indiSends, toServer, fromServer, serverVars, faults>>

Requested == Key \ Aliased

TypeOK ==
    /\ defReceived \in [Key -> BOOLEAN] /\ allDefsReceived \in BOOLEAN
    /\ retryDelay \in [Key -> 0 .. MaxDelay] /\ remaining \in [Key -> 0 .. MaxDelay]
    /\ missingLogged \in [Key -> BOOLEAN]
    /\ mainPc \in {"startup", "active", "loop"}
    /\ mainSends \subseteq Requested /\ indiSends \subseteq Requested
    /\ toServer \subseteq Requested /\ interest \subseteq Requested /\ up \subseteq Requested
    /\ fromServer \in Seq(Key \cup {"get"})
    /\ restarts \in 0 .. MaxRestarts /\ faults \in 0 .. MaxFaults

(***************************************************************************)
(* The server may still know an earlier instance of the application, and   *)
(* any of the devices may not be running yet.                              *)
(***************************************************************************)
Init ==
    /\ defReceived = [k \in Key |-> FALSE] /\ allDefsReceived = FALSE
    /\ retryDelay = [k \in Key |-> 0] /\ remaining = [k \in Key |-> 0]
    /\ missingLogged = [k \in Key |-> FALSE]
    /\ mainPc = "startup" /\ mainSends = {} /\ indiSends = {}
    /\ toServer = {} /\ fromServer = << >>
    /\ interest \in SUBSET Requested /\ up \in SUBSET Requested
    /\ restarts = 0 /\ faults = 0

-----------------------------------------------------------------------------
(* The table of subscriptions, under m_indiCallBackMutex *)

\* Variant: everything is asked for, but what was there counts as received.
RequestAllKeepsReceived ==
    /\ retryDelay' = [k \in Key |-> 0] /\ remaining' = [k \in Key |-> 0]
    /\ missingLogged' = [k \in Key |-> FALSE]
    /\ allDefsReceived' = (Requested = {})
    /\ UNCHANGED defReceived

\* sendGetPropertySetList(true): everything is missing again, and due at once.
RequestAll ==
    /\ defReceived' = [k \in Key |-> k \in Aliased]
    /\ retryDelay' = [k \in Key |-> 0] /\ remaining' = [k \in Key |-> 0]
    /\ missingLogged' = [k \in Key |-> FALSE]
    /\ allDefsReceived' = (Requested = {})

Missing == {k \in Requested : ~defReceived[k]}

\* Variant: a property that was requested is not requested again.
DueOnce == {k \in Missing : remaining[k] = 0 /\ retryDelay[k] = 0}

\* indiSetPropertyShouldRequest
Due == {k \in Missing : remaining[k] = 0}

\* noteIndiSetPropertyRequested: the delay starts at InitialDelay and doubles up to MaxDelay.
NextDelay(d) == IF d = 0 THEN InitialDelay ELSE IF 2 * d < MaxDelay THEN 2 * d ELSE MaxDelay

\* sendGetPropertySetList(false)
RequestDue ==
    /\ ~allDefsReceived
    /\ mainSends' = Due
    /\ defReceived' = [k \in Key |-> defReceived[k] \/ k \in Aliased]
    /\ retryDelay' = [k \in Key |-> IF k \in Due THEN NextDelay(retryDelay[k]) ELSE retryDelay[k]]
    /\ remaining'  = [k \in Key |-> IF k \in Due THEN retryDelay'[k] ELSE remaining[k]]
    /\ missingLogged' = [k \in Key |-> missingLogged[k] \/ (k \in Due /\ retryDelay'[k] >= MaxDelay)]
    /\ allDefsReceived' = (Missing = {})

\* Variant: only the retry is reset.
ReceivedUnmarked(k) ==
    /\ retryDelay' = [retryDelay EXCEPT ![k] = 0] /\ remaining' = [remaining EXCEPT ![k] = 0]
    /\ missingLogged' = [missingLogged EXCEPT ![k] = FALSE]
    /\ UNCHANGED <<defReceived, allDefsReceived>>

Received(k) ==
    /\ defReceived' = [defReceived EXCEPT ![k] = TRUE]
    /\ retryDelay' = [retryDelay EXCEPT ![k] = 0] /\ remaining' = [remaining EXCEPT ![k] = 0]
    /\ missingLogged' = [missingLogged EXCEPT ![k] = FALSE]
    /\ UNCHANGED allDefsReceived

-----------------------------------------------------------------------------
(* The main thread *)

\* The driver is activated: the INDI thread handles messages from here on ...
Activate ==
    /\ mainPc = "startup" /\ mainPc' = "active"
    /\ UNCHANGED <<callBackVars, mainSends, indiSends, toServer, fromServer, serverVars, faults>>

\* ... before startINDI has asked for anything.
StartRequests ==
    /\ mainPc = "active" /\ mainPc' = "loop"
    /\ RequestAll
    /\ mainSends' = Requested
    /\ UNCHANGED <<indiSends, toServer, fromServer, serverVars, faults>>

LoopRequests ==
    /\ mainPc = "loop" /\ mainSends = {}
    /\ RequestDue
    /\ UNCHANGED <<mainPc, indiSends, toServer, fromServer, serverVars, faults>>

\* sendGetProperties of one property; an exception is logged and the request is gone.
MainSend ==
    \E k \in mainSends :
        /\ mainSends' = mainSends \ {k}
        /\ \/ toServer' = toServer \cup {k} /\ UNCHANGED faults
           \/ faults < MaxFaults /\ faults' = faults + 1 /\ UNCHANGED toServer
        /\ UNCHANGED <<callBackVars, mainPc, indiSends, fromServer, serverVars>>

\* Time passes for every retry.
Tick ==
    /\ \E k \in Key : remaining[k] > 0
    /\ remaining' = [k \in Key |-> IF remaining[k] > 0 THEN remaining[k] - 1 ELSE 0]
    /\ UNCHANGED <<defReceived, allDefsReceived, retryDelay, missingLogged,
                   mainPc, mainSends, indiSends, toServer, fromServer, serverVars, faults>>

-----------------------------------------------------------------------------
(* The INDI thread: it takes the next message when it has sent what the last asked for *)

IndiReady == mainPc # "startup" /\ indiSends = {} /\ fromServer # << >>

\* handleDefProperty, handleSetProperty
HandleSet ==
    /\ IndiReady
    /\ Head(fromServer) # "get"
    /\ Received(Head(fromServer))
    /\ fromServer' = Tail(fromServer)
    /\ UNCHANGED <<mainPc, mainSends, indiSends, toServer, serverVars, faults>>

\* handleGetProperties without a name: a possible restart of the server.
HandleGetAll ==
    /\ IndiReady
    /\ Head(fromServer) = "get"
    /\ RequestAll
    /\ indiSends' = Requested
    /\ fromServer' = Tail(fromServer)
    /\ UNCHANGED <<mainPc, mainSends, toServer, serverVars, faults>>

IndiSend ==
    \E k \in indiSends :
        /\ indiSends' = indiSends \ {k}
        /\ \/ toServer' = toServer \cup {k} /\ UNCHANGED faults
           \/ faults < MaxFaults /\ faults' = faults + 1 /\ UNCHANGED toServer
        /\ UNCHANGED <<callBackVars, mainPc, mainSends, fromServer, serverVars>>

-----------------------------------------------------------------------------
(* The server and the other devices *)

\* A bound of the model.
Room == Len(fromServer) < MaxQueue

(***************************************************************************)
(* A getProperties of the application: the server notes the interest       *)
(* (addSnoopDevice), whether there is such a device or not, and passes the *)
(* request on (q2Drivers).  A device that runs defines the property, which *)
(* goes to those who snoop it; one that does not run never gets to see it. *)
(***************************************************************************)
ServerTakes ==
    \E k \in toServer :
        /\ Room
        /\ toServer' = toServer \ {k}
        /\ interest' = interest \cup {k}
        /\ fromServer' = IF k \in up THEN Append(fromServer, k) ELSE fromServer
        /\ UNCHANGED <<callBackVars, mainPc, mainSends, indiSends, up, restarts, faults>>

\* q2SnoopingDrivers: a device defines or sets a property the application snoops.
Publish ==
    \E k \in interest \cap up :
        /\ Room
        /\ fromServer' = Append(fromServer, k)
        /\ UNCHANGED <<callBackVars, mainPc, mainSends, indiSends, toServer, serverVars, faults>>

\* flushFIFO: of the messages in a FIFO, those the application had taken out are left.
Flushed(q) == {[m \in 1 .. n |-> q[m]] : n \in 0 .. Len(q)}

(***************************************************************************)
(* The server, or the driver it keeps for the application, is started      *)
(* anew: nothing is snooped and the first message asks the application for *)
(* its properties.  The new xindidriver empties both FIFOs before.         *)
(***************************************************************************)
ServerRestart ==
    /\ restarts < MaxRestarts
    /\ restarts' = restarts + 1
    /\ interest' = {} /\ toServer' = {}
    /\ \E q \in Flushed(fromServer) : fromServer' = Append(q, "get")
    /\ UNCHANGED <<callBackVars, mainPc, mainSends, indiSends, up, faults>>

DeviceUp ==
    \E k \in Requested \ up :
        /\ up' = up \cup {k}
        /\ UNCHANGED <<callBackVars, mainPc, mainSends, indiSends, toServer, fromServer,
                       interest, restarts, faults>>

DeviceDown ==
    \E k \in up :
        /\ faults < MaxFaults
        /\ faults' = faults + 1 /\ up' = up \ {k}
        /\ UNCHANGED <<callBackVars, mainPc, mainSends, indiSends, toServer, fromServer,
                       interest, restarts>>

Next ==
    \/ Activate \/ StartRequests \/ LoopRequests \/ MainSend \/ Tick
    \/ HandleSet \/ HandleGetAll \/ IndiSend
    \/ ServerTakes \/ Publish \/ ServerRestart \/ DeviceUp \/ DeviceDown

(***************************************************************************)
(* Both threads go on, time passes, the server handles what it is sent and *)
(* the devices are started in the end; nothing has to fail or to publish.  *)
(***************************************************************************)
Fairness ==
    /\ WF_vars(Activate) /\ WF_vars(StartRequests) /\ WF_vars(LoopRequests) /\ WF_vars(MainSend)
    /\ WF_vars(HandleSet) /\ WF_vars(HandleGetAll) /\ WF_vars(IndiSend)
    /\ WF_vars(Tick) /\ SF_vars(ServerTakes) /\ WF_vars(DeviceUp)

Spec == Init /\ [][Next]_vars /\ Fairness

-----------------------------------------------------------------------------
(***************************************************************************)
(* m_defReceived can be trusted: unless the request of a new server is     *)
(* still waiting in the FIFO, the server forwards every property that the  *)
(* application believes it has.  A definition that is older than a restart *)
(* never makes it stop asking.                                             *)
(***************************************************************************)
BelievesRightly ==
    (\A n \in DOMAIN fromServer : fromServer[n] # "get") =>
        \A k \in Requested : defReceived[k] => k \in interest

(***************************************************************************)
(* Once restarts and failures end, every registered property is subscribed *)
(* to and stays so: the loop "will make sure we are up-to-date if          *)
(* indiserver restarts without us", whatever requests were lost.           *)
(***************************************************************************)
AllSubscribed == <>[](Requested \subseteq interest)

(***************************************************************************)
(* The retries end: every definition is recorded in the end, and           *)
(* m_allDefsReceived, which silences the loop, is only then set for good.  *)
(***************************************************************************)
RetriesEnd == <>[](allDefsReceived /\ \A k \in Key : defReceived[k])

=============================================================================
