--------------------------- MODULE OutletController ---------------------------
(***************************************************************************)
(* A power distribution unit: outletController with the trippLitePDU as    *)
(* its device.  Channels of several outlets are switched by the INDI       *)
(* thread, outlet by outlet, in a configured order and with delays, while  *)
(* the event loop polls the unit and publishes what it found.  Commands    *)
(* are decided on the polled states, not on the outlets themselves.        *)
(* m_indiMutex serialises the dialogues with the unit.  A dialogue writes  *)
(* a request and reads up to a prompt, so the answer to a request that     *)
(* timed out is read as the answer to a later one.                         *)
(***************************************************************************)
EXTENDS Naturals, Sequences, FiniteSets

CONSTANTS
    N,                \* number of outlets
    Channel,
    Outlets,          \* m_outlets of each channel
    OnOrder, OffOrder,\* m_onOrder, m_offOrder: indices of m_outlets, << >> if not configured
    StateDelays,      \* how many polls of the event loop can fit in m_stateDelay
    MaxWants,         \* bound: how often the operator changes his mind
    MaxFaults         \* bound: failed dialogues with the unit

Outlet == 1 .. N

\* Assumed of the configuration: the code checks the length of an order, no more.
IsOrder(s, n) ==
    \/ s = << >>
    \/ /\ Len(s) = n
       /\ \A i \in 1 .. n : s[i] \in 1 .. n
       /\ \A i, j \in 1 .. n : s[i] = s[j] => i = j

ASSUME OutletAssumption ==
    /\ N \in Nat \ {0} /\ MaxWants \in Nat /\ MaxFaults \in Nat
    /\ StateDelays \subseteq Nat /\ StateDelays # {}
    /\ Channel # {} /\ Outlets \in [Channel -> Seq(Outlet) \ {<< >>}]
    /\ OnOrder \in [Channel -> Seq(Nat)] /\ OffOrder \in [Channel -> Seq(Nat)]
    /\ \A c \in Channel :
        /\ IsOrder(OnOrder[c], Len(Outlets[c])) /\ IsOrder(OffOrder[c], Len(Outlets[c]))
        /\ \A i, j \in DOMAIN Outlets[c] : Outlets[c][i] = Outlets[c][j] => i = j
        /\ \A d \in Channel \ {c} : \A i \in DOMAIN Outlets[c], j \in DOMAIN Outlets[d] :
               Outlets[c][i] # Outlets[d][j]

VARIABLES
    device,        \* the outlets of the unit
    pending,       \* answers of the unit that nobody has read yet
    outletStates,  \* m_outletStates: what the last polls found
    published,     \* the state of each channel as INDI clients see it
    fsm,           \* the FSM state
    status,        \* the status that is being parsed
    mixed,         \* the text being parsed holds the answer to a command, too
    pollPc, pollNext,       \* the event loop: where it is, the next outlet to set
    indiPc, command, index, \* the INDI thread: where it is, the command, its next outlet
    recent,        \* polls until m_stateDelay has passed since the channel was switched
    want,          \* what the operator wants of each channel
    wants, faults,
    refused,       \* history: outlets of the present command that the unit refused
    dirty,         \* history: outlets switched since the poll that set their state
    late           \* history: number of answers left behind on this connection

unitVars == <<device, pending, dirty, late>>
pollVars == <<outletStates, published, status, mixed, pollPc, pollNext>>
indiVars == <<indiPc, command, index, refused>>
vars == <<unitVars, pollVars, indiVars, recent, fsm, want, wants, faults>>

Switch == {"On", "Off"}

\* The answer to a switching command: it tells nothing of the outlets.
Ack == [o \in Outlet |-> "None"]

\* What the unit answers: to a command, or its status.
Answer == [Outlet -> Switch] \cup {Ack}

TypeOK ==
    /\ device \in [Outlet -> Switch] /\ dirty \subseteq Outlet
    /\ pending \in Seq(Answer) /\ status \in Answer
    /\ mixed \in BOOLEAN /\ late \in Nat
    /\ outletStates \in [Outlet -> Switch \cup {"Unknown"}]
    /\ published \in [Channel -> Switch \cup {"Unknown", "Int"}]
    /\ fsm \in {"NOTCONNECTED", "READY", "FAILURE"}
    /\ pollPc \in {"idle", "set", "publish"} /\ pollNext \in 1 .. N
    /\ indiPc \in {"idle", "decide", "switch"}
    /\ command \in [channel : Channel, to : Switch] /\ index \in Nat \ {0}
    /\ recent \in [Channel -> Nat] /\ refused \subseteq Outlet
    /\ want \in [Channel -> Switch]
    /\ wants \in 0 .. MaxWants /\ faults \in 0 .. MaxFaults

\* The event loop holds m_indiMutex from the request of the status to its publication.
MutexFree == pollPc = "idle"

\* channelState
ChannelState(s, c) ==
    IF \A i \in DOMAIN Outlets[c] : s[Outlets[c][i]] = s[Outlets[c][1]]
    THEN s[Outlets[c][1]] ELSE "Int"

\* The i-th outlet of the channel that is switched on the way to a state.
InOrder(c, to, i) ==
    LET order == IF to = "On" THEN OnOrder[c] ELSE OffOrder[c]
    IN  Outlets[c][IF Len(order) = Len(Outlets[c]) THEN order[i] ELSE i]

\* A read ends at a prompt: it returns the oldest answer, and later ones that have arrived.
Read(answers, n) ==
    n \in 1 .. Len(answers) /\ pending' = SubSeq(answers, n + 1, Len(answers))

\* The status in the first n answers: the last one wins.
StatusIn(answers, n) ==
    LET Last(i) == answers[i] # Ack /\ \A j \in i + 1 .. n : answers[j] = Ack
    IN  IF \E i \in 1 .. n : Last(i) THEN answers[CHOOSE i \in 1 .. n : Last(i)] ELSE Ack

NoCommand == [channel |-> CHOOSE c \in Channel : TRUE, to |-> "Off"]

Init ==
    /\ device \in [Outlet -> Switch] /\ pending = << >>
    /\ outletStates = [o \in Outlet |-> "Unknown"] /\ dirty = {} /\ late = 0
    /\ published = [c \in Channel |-> "Unknown"]
    /\ fsm = "NOTCONNECTED"
    /\ status = Ack /\ mixed = FALSE /\ pollPc = "idle" /\ pollNext = 1
    /\ indiPc = "idle" /\ index = 1 /\ command = NoCommand /\ refused = {}
    /\ recent = [c \in Channel |-> 0]
    /\ want = [c \in Channel |-> "Off"]
    /\ wants = 0 /\ faults = 0

Fault == faults < MaxFaults /\ faults' = faults + 1

-----------------------------------------------------------------------------
(* The event loop: trippLitePDU::appLogic *)

\* A new connection and the login; a connection that is refused is tried again.
Connect ==
    /\ fsm = "NOTCONNECTED"
    /\ pending' = << >> /\ late' = 0
    /\ \/ fsm' = "READY" /\ UNCHANGED faults
       \/ fsm' = "FAILURE" /\ Fault        \* the login is refused
    /\ UNCHANGED <<device, dirty, pollVars, indiVars, recent, want, wants>>

\* Time passes with the polls.  How many of them fit in m_stateDelay is open: the loop
\* pauses for 2 of its 5 s, a dialogue takes its time, and a poll is left out when the
\* INDI thread has the mutex.
Tick == recent' = [c \in Channel |-> IF recent[c] > 0 THEN recent[c] - 1 ELSE 0]

Poll ==
    /\ fsm = "READY" /\ MutexFree
    /\ LET answers == Append(pending, device)
       IN  \E n \in 1 .. Len(answers) :
            /\ Read(answers, n)
            /\ status' = StatusIn(answers, n)
            /\ mixed' = (\E i \in 1 .. n : answers[i] = Ack)
    /\ pollPc' = "set" /\ pollNext' = 1
    /\ Tick
    /\ UNCHANGED <<device, dirty, late, outletStates, published, indiVars, fsm, want, wants, faults>>

\* Variant: after a timeout the answer is not waited for.
PollLateUnread ==
    /\ fsm = "READY" /\ MutexFree
    /\ Fault
    /\ pending' = Append(pending, device)
    /\ Tick
    /\ UNCHANGED <<device, dirty, late, pollVars, indiVars, fsm, want, wants>>

\* The answer comes during the re-read: it is dropped.
PollLate ==
    /\ fsm = "READY" /\ MutexFree
    /\ Fault
    /\ \E n \in 1 .. Len(pending) + 1 : Read(Append(pending, device), n)
    /\ Tick
    /\ UNCHANGED <<device, dirty, late, pollVars, indiVars, fsm, want, wants>>

\* The dialogue fails, the re-read too: nothing is known, nothing is published.
PollFails ==
    /\ fsm = "READY" /\ MutexFree
    /\ Fault
    /\ fsm' = "NOTCONNECTED"
    /\ outletStates' = [o \in Outlet |-> "Unknown"]
    /\ Tick
    /\ UNCHANGED <<unitVars, published, status, mixed, pollPc, pollNext, indiVars, want, wants>>

\* parsePDUStatus sets the outlets one by one, each under m_outletStateMutex.
PollSet ==
    /\ pollPc = "set" /\ status # Ack
    /\ outletStates' = [outletStates EXCEPT ![pollNext] = status[pollNext]]
    /\ dirty' = dirty \ {pollNext}
    /\ IF pollNext = N
       THEN pollPc' = "publish" /\ UNCHANGED pollNext
       ELSE pollNext' = pollNext + 1 /\ UNCHANGED pollPc
    /\ UNCHANGED <<device, pending, late, published, status, mixed, indiVars, recent, fsm, want, wants, faults>>

\* Only the answers to commands were read: there is no line of the outlets.
PollNoStatus ==
    /\ pollPc = "set" /\ status = Ack
    /\ pollPc' = "publish"
    /\ UNCHANGED <<unitVars, outletStates, published, status, mixed, pollNext, indiVars,
                   recent, fsm, want, wants, faults>>

\* The poll is over, and the mutex free.
PollEnds == pollPc' = "idle" /\ pollNext' = 1 /\ status' = Ack /\ mixed' = FALSE

\* A line before or behind that of the outlets cannot be parsed.
PollUnparsed ==
    /\ pollPc = "publish" \/ (pollPc = "set" /\ pollNext = 1)
    /\ IF mixed THEN UNCHANGED faults ELSE Fault
    /\ PollEnds
    /\ UNCHANGED <<unitVars, outletStates, published, indiVars, recent, fsm, want, wants>>

\* updateINDI
PollPublish ==
    /\ pollPc = "publish"
    /\ published' = [c \in Channel |-> ChannelState(outletStates, c)]
    /\ PollEnds
    /\ UNCHANGED <<unitVars, outletStates, indiVars, recent, fsm, want, wants, faults>>

-----------------------------------------------------------------------------
(* The INDI thread: newCallBack_channels, turnChannelOn, turnChannelOff *)

Begin(c, to) ==
    /\ indiPc = "idle" /\ fsm = "READY"
    /\ indiPc' = "decide" /\ command' = [channel |-> c, to |-> to] /\ index' = 1
    /\ UNCHANGED <<refused, unitVars, pollVars, recent, fsm, want, wants, faults>>

Return == indiPc' = "idle" /\ command' = NoCommand /\ index' = 1 /\ refused' = {}

\* Variant: a channel counts as switched when one of its outlets is.
AlreadyPartly ==
    /\ indiPc = "decide"
    /\ \E i \in DOMAIN Outlets[command.channel] :
           outletStates[Outlets[command.channel][i]] = command.to
    /\ Return
    /\ UNCHANGED <<unitVars, pollVars, recent, fsm, want, wants, faults>>

\* Nothing is done: the channel is there already, as far as is known.
Already ==
    /\ indiPc = "decide"
    /\ ChannelState(outletStates, command.channel) = command.to
    /\ Return
    /\ UNCHANGED <<unitVars, pollVars, recent, fsm, want, wants, faults>>

\* Nothing is done: the last change is too recent.
TooSoon ==
    /\ indiPc = "decide"
    /\ ChannelState(outletStates, command.channel) # command.to
    /\ recent[command.channel] > 0
    /\ Return
    /\ UNCHANGED <<unitVars, pollVars, recent, fsm, want, wants, faults>>

Accept ==
    /\ indiPc = "decide"
    /\ ChannelState(outletStates, command.channel) # command.to
    /\ recent[command.channel] = 0
    /\ indiPc' = "switch"
    /\ UNCHANGED <<unitVars, pollVars, command, index, refused, recent, fsm, want, wants, faults>>

NextOutlet == InOrder(command.channel, command.to, index)

\* The unit executes the command.
Executed ==
    /\ device' = [device EXCEPT ![NextOutlet] = command.to]
    /\ dirty' = dirty \cup {NextOutlet}

\* The next outlet follows, or the change is complete and its time is noted; the
\* delay then counted from it lasts for some number of polls.
Proceed(refusal) ==
    IF index = Len(Outlets[command.channel])
    THEN Return /\ \E d \in StateDelays : recent' = [recent EXCEPT ![command.channel] = d]
    ELSE index' = index + 1 /\ refused' = refused \cup refusal
         /\ UNCHANGED <<indiPc, command, recent>>

\* Some answer is read; it is not looked at.
ReadAnswer == \E n \in 1 .. Len(pending) + 1 : Read(Append(pending, Ack), n)

SwitchOutlet ==
    /\ indiPc = "switch" /\ MutexFree
    /\ Executed
    /\ ReadAnswer
    /\ Proceed({})
    /\ UNCHANGED <<late, pollVars, fsm, want, wants, faults>>

\* The unit refuses, and says so; the command goes on as if the outlet had switched.
SwitchRefused ==
    /\ indiPc = "switch" /\ MutexFree
    /\ Fault
    /\ ReadAnswer
    /\ Proceed({NextOutlet})
    /\ UNCHANGED <<device, dirty, late, pollVars, fsm, want, wants>>

\* Variant: the other outlets are switched although one has failed.
SwitchFailsGoesOn ==
    /\ indiPc = "switch" /\ MutexFree
    /\ Fault
    /\ Proceed({})
    /\ UNCHANGED <<unitVars, pollVars, fsm, want, wants>>

\* An error ends the command: it was not sent, or its answer is late, be it the
\* answer to an outlet switched or a refusal.
SwitchFails ==
    /\ indiPc = "switch" /\ MutexFree
    /\ Fault
    /\ \/ UNCHANGED unitVars
       \/ /\ Executed \/ UNCHANGED <<device, dirty>>
          /\ pending' = Append(pending, Ack) /\ late' = late + 1
    /\ Return
    /\ UNCHANGED <<pollVars, recent, fsm, want, wants>>

-----------------------------------------------------------------------------
(* The operator *)

ChangeMind(c) ==
    /\ wants < MaxWants
    /\ wants' = wants + 1
    /\ want' = [want EXCEPT ![c] = IF @ = "On" THEN "Off" ELSE "On"]
    /\ UNCHANGED <<unitVars, pollVars, indiVars, recent, fsm, faults>>

\* A command, at any time and as often as the operator likes.
Ask(c) == Begin(c, want[c])

Next ==
    \/ Connect \/ Poll \/ PollLate \/ PollFails
    \/ PollSet \/ PollNoStatus \/ PollUnparsed \/ PollPublish
    \/ Already \/ TooSoon \/ Accept \/ SwitchOutlet \/ SwitchRefused \/ SwitchFails
    \/ \E c \in Channel : ChangeMind(c) \/ Ask(c)

(***************************************************************************)
(* Both threads go on.  The INDI thread gets the mutex in the end, because *)
(* the event loop sleeps between two polls, and the operator repeats a     *)
(* command while the published state is not the one he wants.              *)
(***************************************************************************)
Fairness ==
    /\ WF_vars(Connect) /\ WF_vars(Poll)
    /\ WF_vars(PollSet \/ PollNoStatus) /\ WF_vars(PollPublish)
    /\ WF_vars(Already \/ TooSoon \/ Accept) /\ SF_vars(SwitchOutlet)
    /\ \A c \in Channel : SF_vars(published[c] # want[c] /\ Ask(c))

Spec == Init /\ [][Next]_vars /\ Fairness

-----------------------------------------------------------------------------
(***************************************************************************)
(* The polled states are exact: but for the outlets that were switched     *)
(* since they were polled, a known state is the state of the outlet, in    *)
(* every interleaving of a poll with a command, after failures and         *)
(* reconnections, and even with one answer left behind, when every poll    *)
(* reads the answer to the dialogue before it.  With two left behind the   *)
(* answer may be older than a command, and the states wrong.               *)
(***************************************************************************)
PolledExact ==
    late <= 1 => \A o \in Outlet \ dirty : outletStates[o] \in {device[o], "Unknown"}

(***************************************************************************)
(* The order protects the hardware: an outlet changes to on, or to off,    *)
(* only when every outlet before it in that order has, however commands,   *)
(* failures and repetitions follow each other.  Only a refusal, whose text *)
(* turnOutletOn and turnOutletOff do not look at, lets the next outlet     *)
(* change before it.                                                       *)
(***************************************************************************)
OrderRespected ==
    [][\A c \in Channel, to \in Switch : \A i, j \in DOMAIN Outlets[c] :
          LET first == InOrder(c, to, i)
              then  == InOrder(c, to, j)
          IN  i < j /\ device[then] # to /\ device'[then] = to
                 => device'[first] = to \/ first \in refused]_vars

\* What the operator sees is what the unit does; and both are what he wants.
Truthful == \A c \in Channel : published[c] = ChannelState(device, c)
Obeyed == Truthful /\ \A c \in Channel : published[c] = want[c]

(***************************************************************************)
(* An operator who repeats his command while the published state is not    *)
(* what he wants gets it, and what is published is then the truth: no      *)
(* command lost to a stale state, to the delay between changes, to a       *)
(* refusal or to a failure is lost for good.  A connection with an answer  *)
(* left behind is excepted: there a repeated command can read, each time,  *)
(* the status that the poll before it asked for, and the polls see nothing *)
(* but answers to commands.  But even there, once no more commands are     *)
(* sent, the truth is published.                                           *)
(***************************************************************************)
OperatorSucceeds ==
    /\ <>[](fsm = "FAILURE" \/ late > 0 \/ Obeyed)
    /\ <>[](indiPc # "switch") => <>[](fsm = "FAILURE" \/ Truthful)

(***************************************************************************)
(* "Take no other action if already off" (turnChannelOff, turnChannelOn):  *)
(* a command is passed over only when the outlets really are in its state. *)
(***************************************************************************)
PassedOverRightly ==
    [][Already => ChannelState(device, command.channel) = command.to]_vars

=============================================================================
