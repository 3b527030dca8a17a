------------------------ MODULE OutletControllerProofs ------------------------
(***************************************************************************)
(* The outlets of a unit of any size, with any disjoint channels: the      *)
(* polled states are exact, and the order of a channel is respected.       *)
(* Exactness rests on what is left in the connection: with at most one     *)
(* answer behind, whatever waits there was said since the last command.    *)
(***************************************************************************)
EXTENDS OutletController, SequenceTheorems, TLAPS

\* What the FSM state says of a poll, and of the polled states.
FsmInv ==
    /\ pollPc # "idle" => fsm = "READY"
    /\ fsm = "NOTCONNECTED" => \A o \in Outlet : outletStates[o] = "Unknown"

\* What waits in the connection, and what was read from it, is not older than a command.
AnswersFresh ==
    /\ Len(pending) <= late
    /\ late <= 1 => \A i \in DOMAIN pending : pending[i] = Ack \/ pending[i] = device
    /\ late <= 1 /\ pollPc = "set" => status = Ack \/ status = device

\* The outlets before the next one are in the state that was commanded, or refused.
PrefixDone ==
    /\ indiPc = "decide" => index = 1
    /\ indiPc = "switch" => index \in DOMAIN Outlets[command.channel]
    /\ indiPc = "switch" => \A i \in DOMAIN Outlets[command.channel] :
           i < index => \/ device[InOrder(command.channel, command.to, i)] = command.to
                        \/ InOrder(command.channel, command.to, i) \in refused

IndInv == TypeOK /\ FsmInv /\ AnswersFresh /\ PolledExact /\ PrefixDone

-----------------------------------------------------------------------------
\* The outlets of a channel, counted (loadConfig).
LEMMA ChannelShape ==
    ASSUME NEW c \in Channel
    PROVE  /\ Outlets[c] \in Seq(Outlet) /\ Len(Outlets[c]) \in Nat \ {0}
           /\ DOMAIN Outlets[c] = 1 .. Len(Outlets[c])
           /\ \A i \in DOMAIN Outlets[c] : Outlets[c][i] \in Outlet
  <1>1. Outlets[c] \in Seq(Outlet) /\ Outlets[c] # << >>
    BY OutletAssumption
  <1>2. QED
    BY <1>1, EmptySeq

\* The order of a channel picks one of its outlets (turnChannelOn, turnChannelOff).
LEMMA OrderPicks ==
    ASSUME NEW c \in Channel, NEW to, NEW i \in DOMAIN Outlets[c]
    PROVE  /\ \E k \in DOMAIN Outlets[c] : InOrder(c, to, i) = Outlets[c][k]
           /\ InOrder(c, to, i) \in Outlet
  <1> DEFINE order == IF to = "On" THEN OnOrder[c] ELSE OffOrder[c]
             k == IF Len(order) = Len(Outlets[c]) THEN order[i] ELSE i
  <1>1. IsOrder(order, Len(Outlets[c]))
    BY OutletAssumption
  <1>2. Len(order) = Len(Outlets[c]) => order # << >>
    BY ChannelShape
  <1>3. k \in DOMAIN Outlets[c]
    BY <1>1, <1>2, ChannelShape DEF IsOrder
  <1>4. InOrder(c, to, i) = Outlets[c][k]
    BY DEF InOrder
  <1>5. QED
    BY <1>3, <1>4, ChannelShape

\* It picks each of them once.
LEMMA OrderInjective ==
    ASSUME NEW c \in Channel, NEW to, NEW i \in DOMAIN Outlets[c], NEW j \in DOMAIN Outlets[c],
           InOrder(c, to, i) = InOrder(c, to, j)
    PROVE  i = j
  <1> DEFINE order == IF to = "On" THEN OnOrder[c] ELSE OffOrder[c]
             k(x) == IF Len(order) = Len(Outlets[c]) THEN order[x] ELSE x
  <1>1. IsOrder(order, Len(Outlets[c]))
    BY OutletAssumption
  <1>2. Len(order) = Len(Outlets[c]) => order # << >>
    BY ChannelShape
  <1>3. k(i) \in DOMAIN Outlets[c] /\ k(j) \in DOMAIN Outlets[c]
    BY <1>1, <1>2, ChannelShape DEF IsOrder
  <1>4. Outlets[c][k(i)] = Outlets[c][k(j)]
    BY DEF InOrder
  <1>5. k(i) = k(j)
    BY <1>3, <1>4, OutletAssumption
  <1>6. QED
    BY <1>1, <1>2, <1>5, ChannelShape DEF IsOrder

\* No outlet is in two channels.
LEMMA OrderDisjoint ==
    ASSUME NEW c \in Channel, NEW d \in Channel, NEW to, NEW up,
           NEW i \in DOMAIN Outlets[c], NEW j \in DOMAIN Outlets[d],
           InOrder(c, to, i) = InOrder(d, up, j)
    PROVE  c = d
  <1>1. PICK k \in DOMAIN Outlets[c] : InOrder(c, to, i) = Outlets[c][k]
    BY OrderPicks
  <1>2. PICK l \in DOMAIN Outlets[d] : InOrder(d, up, j) = Outlets[d][l]
    BY OrderPicks
  <1>3. QED
    BY <1>1, <1>2, OutletAssumption

-----------------------------------------------------------------------------
\* What a read leaves behind (telnetConn::read): the answers after those it returned.
LEMMA ReadShape ==
    ASSUME NEW a \in Seq(Answer), NEW n \in 1 .. Len(a)
    PROVE  /\ SubSeq(a, n + 1, Len(a)) \in Seq(Answer)
           /\ Len(SubSeq(a, n + 1, Len(a))) = Len(a) - n
           /\ \A i \in DOMAIN SubSeq(a, n + 1, Len(a)) :
                  n + i \in n + 1 .. Len(a) /\ SubSeq(a, n + 1, Len(a))[i] = a[n + i]
  <1> DEFINE rest == SubSeq(a, n + 1, Len(a))
  <1>1. Len(a) \in Nat /\ \A i \in 1 .. Len(a) : a[i] \in Answer
    OBVIOUS
  <1>2. /\ rest \in Seq(Answer)
        /\ Len(rest) = IF n + 1 <= Len(a) THEN Len(a) - (n + 1) + 1 ELSE 0
        /\ \A i \in 1 .. Len(a) - (n + 1) + 1 : rest[i] = a[(n + 1) + i - 1]
    <2>1. n + 1 \in Int /\ Len(a) \in Int /\ \A i \in n + 1 .. Len(a) : a[i] \in Answer
      BY <1>1
    <2>2. QED
      BY <2>1, SubSeqProperties
  <1> HIDE DEF rest
  <1>3. Len(rest) = Len(a) - n
    BY <1>1, <1>2
  <1>4. DOMAIN rest = 1 .. Len(a) - n
    BY <1>2, <1>3
  <1>5. ASSUME NEW i \in DOMAIN rest
        PROVE  n + i \in n + 1 .. Len(a) /\ rest[i] = a[n + i]
    <2>1. i \in 1 .. Len(a) - (n + 1) + 1 /\ i \in Int /\ n \in Int
      BY <1>1, <1>4
    <2>2. rest[i] = a[(n + 1) + i - 1]
      BY <1>2, <2>1, Zenon
    <2>3. (n + 1) + i - 1 = n + i /\ n + i \in n + 1 .. Len(a)
      BY <1>1, <2>1
    <2>4. QED
      BY <2>2, <2>3
  <1>6. QED
    BY <1>2, <1>3, <1>5 DEF rest

\* The status in a text is one of its answers (parsePDUStatus).
LEMMA StatusShape ==
    ASSUME NEW a \in Seq(Answer), NEW n \in 1 .. Len(a)
    PROVE  StatusIn(a, n) = Ack \/ \E i \in 1 .. Len(a) : StatusIn(a, n) = a[i]
  <1> DEFINE Last(i) == a[i] # Ack /\ \A j \in i + 1 .. n : a[j] = Ack
  <1>1. CASE \E i \in 1 .. n : Last(i)
    <2>1. PICK k \in 1 .. n : k = CHOOSE i \in 1 .. n : Last(i)
      BY <1>1
    <2>2. StatusIn(a, n) = a[k]
      BY <1>1, <2>1 DEF StatusIn
    <2>3. QED
      BY <2>2
  <1>2. CASE ~\E i \in 1 .. n : Last(i)
    BY <1>2 DEF StatusIn
  <1>3. QED
    BY <1>1, <1>2

\* The answer to a command has no outlets; a status has.
LEMMA AckShape == Ack \in Answer /\ \A d \in [Outlet -> Switch] : d \in Answer /\ d # Ack
  <1>1. Ack \in Answer
    BY DEF Ack, Answer
  <1>2. ASSUME NEW d \in [Outlet -> Switch] PROVE d \in Answer /\ d # Ack
    <2>1. 1 \in Outlet
      BY OutletAssumption DEF Outlet
    <2>2. d[1] # Ack[1]
      BY <2>1 DEF Ack, Switch
    <2>3. QED
      BY <2>2 DEF Answer
  <1>3. QED
    BY <1>1, <1>2

\* A read takes the oldest answer at least: what is left is the new answer, or not the oldest.
LEMMA ReadRest ==
    ASSUME NEW q \in Seq(Answer), NEW e \in Answer, NEW n \in 1 .. Len(Append(q, e)),
           NEW rest, rest = SubSeq(Append(q, e), n + 1, Len(Append(q, e)))
    PROVE  /\ rest \in Seq(Answer) /\ Len(rest) <= Len(q)
           /\ \A i \in DOMAIN rest : rest[i] = e \/ \E j \in DOMAIN q : rest[i] = q[j]
           /\ Len(q) <= 1 => \A i \in DOMAIN rest : rest[i] = e
  <1>1. PICK a \in Seq(Answer) : a = Append(q, e)
    <2>1. Append(q, e) \in Seq(Answer)
      OBVIOUS
    <2>2. QED
      BY <2>1, Zenon
  <1>2. /\ Len(a) = Len(q) + 1 /\ Len(q) \in Nat /\ DOMAIN q = 1 .. Len(q)
        /\ a[Len(q) + 1] = e /\ \A j \in 1 .. Len(q) : a[j] = q[j]
    BY <1>1
  <1>3. n \in 1 .. Len(a) /\ rest = SubSeq(a, n + 1, Len(a))
    BY <1>1
  <1>4. /\ rest \in Seq(Answer) /\ Len(rest) = Len(a) - n
        /\ \A i \in DOMAIN rest : n + i \in n + 1 .. Len(a) /\ rest[i] = a[n + i]
    BY <1>3, ReadShape
  <1>5. DOMAIN rest = 1 .. Len(rest)
    BY <1>4
  <1>6. ASSUME NEW i \in DOMAIN rest
        PROVE  \E j \in 2 .. Len(q) + 1 : rest[i] = a[j]
    <2>1. n + i \in 2 .. Len(q) + 1
      BY <1>2, <1>3, <1>4, <1>5
    <2>2. QED
      BY <1>4, <2>1, Zenon
  <1>7. ASSUME NEW i \in DOMAIN rest
        PROVE  /\ rest[i] = e \/ \E j \in DOMAIN q : rest[i] = q[j]
               /\ Len(q) <= 1 => rest[i] = e
    <2>1. PICK j \in 2 .. Len(q) + 1 : rest[i] = a[j]
      BY <1>6
    <2>2. CASE j = Len(q) + 1
      BY <1>2, <2>1, <2>2
    <2>3. CASE j # Len(q) + 1
      <3>1. j \in DOMAIN q /\ ~(Len(q) <= 1)
        BY <1>2, <2>3
      <3>2. QED
        BY <1>2, <2>1, <3>1
    <2>4. QED
      BY <2>2, <2>3
  <1>8. Len(rest) <= Len(q)
    BY <1>2, <1>3, <1>4
  <1>9. QED
    BY <1>4, <1>7, <1>8

\* The same for an action that reads.
LEMMA ReadLeaves ==
    ASSUME pending \in Seq(Answer), NEW e \in Answer,
           \E n \in 1 .. Len(Append(pending, e)) : Read(Append(pending, e), n)
    PROVE  /\ pending' \in Seq(Answer) /\ Len(pending') <= Len(pending)
           /\ \A i \in DOMAIN pending' :
                  pending'[i] = e \/ \E j \in DOMAIN pending : pending'[i] = pending[j]
           /\ Len(pending) <= 1 => \A i \in DOMAIN pending' : pending'[i] = e
  <1>1. PICK n \in 1 .. Len(Append(pending, e)) :
            pending' = SubSeq(Append(pending, e), n + 1, Len(Append(pending, e)))
    BY DEF Read
  <1>2. PICK rest : rest = pending'
    OBVIOUS
  <1>3. QED
    BY <1>1, <1>2, ReadRest

\* What a poll reads: no status, the present one, or one that was waiting.
LEMMA PollReads ==
    ASSUME TypeOK, Poll
    PROVE  /\ pending' \in Seq(Answer) /\ Len(pending') <= Len(pending)
           /\ \A i \in DOMAIN pending' :
                  pending'[i] = device \/ \E j \in DOMAIN pending : pending'[i] = pending[j]
           /\ status' \in Answer
           /\ status' \in {Ack, device} \/ \E j \in DOMAIN pending : status' = pending[j]
           /\ mixed' \in BOOLEAN
  <1>1. device \in Answer /\ pending \in Seq(Answer)
    BY AckShape DEF TypeOK
  <1>2. PICK n \in 1 .. Len(Append(pending, device)) :
            /\ Read(Append(pending, device), n)
            /\ status' = StatusIn(Append(pending, device), n)
            /\ mixed' = (\E i \in 1 .. n : Append(pending, device)[i] = Ack)
    BY DEF Poll
  <1>3. mixed' \in BOOLEAN
    BY <1>2, Zenon
  <1>4. PICK a \in Seq(Answer) : a = Append(pending, device)
    <2>1. Append(pending, device) \in Seq(Answer)
      BY <1>1
    <2>2. QED
      BY <2>1, Zenon
  <1>5. /\ Len(a) = Len(pending) + 1 /\ Len(pending) \in Nat /\ DOMAIN pending = 1 .. Len(pending)
        /\ a[Len(pending) + 1] = device /\ \A j \in 1 .. Len(pending) : a[j] = pending[j]
        /\ \A i \in 1 .. Len(a) : a[i] \in Answer
    BY <1>1, <1>4
  <1>6. status' = Ack \/ \E i \in 1 .. Len(a) : status' = a[i]
    BY <1>2, <1>4, StatusShape
  <1>7. status' \in Answer
    BY <1>5, <1>6, AckShape
  <1>8. status' \in {Ack, device} \/ \E j \in DOMAIN pending : status' = pending[j]
    BY <1>5, <1>6
  <1>9. QED
    BY <1>1, <1>2, <1>3, <1>7, <1>8, ReadLeaves

-----------------------------------------------------------------------------
\* The next outlet of a command is one of the unit's.
LEMMA NextOutletShape ==
    ASSUME TypeOK, PrefixDone, indiPc = "switch"
    PROVE  NextOutlet \in Outlet /\ command.channel \in Channel /\ command.to \in Switch
  <1>1. command.channel \in Channel /\ command.to \in Switch
    BY DEF TypeOK
  <1>2. index \in DOMAIN Outlets[command.channel]
    BY DEF PrefixDone
  <1>3. QED
    BY <1>1, <1>2, OrderPicks DEF NextOutlet

\* A command that is no command.
LEMMA NoCommandShape == NoCommand \in [channel : Channel, to : Switch]
  <1>1. Channel # {}
    BY OutletAssumption
  <1>2. (CHOOSE c \in Channel : TRUE) \in Channel
    BY <1>1, Zenon
  <1>3. QED
    BY <1>2 DEF NoCommand, Switch

\* Init of the outlets, of the connection and of the threads.
LEMMA InitHolds == Init => IndInv
  <1> SUFFICES ASSUME Init PROVE IndInv
    OBVIOUS
  <1>1. << >> \in Seq(Answer) /\ Len(<< >>) = 0 /\ DOMAIN << >> = {}
    OBVIOUS
  <1>2. Ack \in Answer /\ 1 \in 1 .. N
    BY AckShape, OutletAssumption
  <1>3. mixed \in BOOLEAN
    BY Zenon DEF Init
  <1>4. recent \in [Channel -> Nat] /\ refused \subseteq Outlet
    BY DEF Init
  <1>5. command \in [channel : Channel, to : Switch]
    BY NoCommandShape DEF Init
  <1>6. TypeOK
    BY <1>1, <1>2, <1>3, <1>4, <1>5, OutletAssumption DEF TypeOK, Init, Switch
  <1>7. FsmInv /\ PrefixDone
    BY DEF Init, FsmInv, PrefixDone
  <1>8. AnswersFresh
    BY <1>1 DEF Init, AnswersFresh
  <1>9. PolledExact
    BY DEF Init, PolledExact
  <1>10. QED
    BY <1>6, <1>7, <1>8, <1>9 DEF IndInv

\* The types, action by action.
LEMMA TypeStep == IndInv /\ [Next]_vars => TypeOK'
  <1> SUFFICES ASSUME IndInv, [Next]_vars PROVE TypeOK'
    OBVIOUS
  <1>0. TypeOK /\ PrefixDone
    BY DEF IndInv
  <1>1. Ack \in Answer /\ device \in Answer /\ N \in Nat \ {0} /\ 1 \in 1 .. N
        /\ StateDelays \subseteq Nat /\ NoCommand \in [channel : Channel, to : Switch]
    BY <1>0, AckShape, NoCommandShape, OutletAssumption DEF TypeOK
  <1>2. CASE Connect
    <2>1. << >> \in Seq(Answer)
      OBVIOUS
    <2>2. QED
      BY <1>0, <1>2, <2>1, OutletAssumption DEF TypeOK, Connect, Fault, pollVars, indiVars
  <1>3. ASSUME Tick PROVE recent' \in [Channel -> Nat]
    BY <1>0, <1>1, <1>3 DEF TypeOK, Tick
  <1>4. CASE Poll
    <2>1. pending' \in Seq(Answer) /\ status' \in Answer /\ mixed' \in BOOLEAN
      BY <1>0, <1>4, PollReads
    <2>2. recent' \in [Channel -> Nat]
      BY <1>3, <1>4 DEF Poll
    <2>3. QED
      BY <1>0, <1>1, <1>4, <2>1, <2>2 DEF TypeOK, Poll, indiVars
  <1>5. CASE PollLate
    <2>1. Len(Append(pending, device)) = Len(pending) + 1
      BY <1>0, <1>1 DEF TypeOK
    <2>2. pending' \in Seq(Answer)
      BY <1>0, <1>1, <1>5, <2>1, ReadLeaves DEF TypeOK, PollLate
    <2>3. recent' \in [Channel -> Nat]
      BY <1>3, <1>5 DEF PollLate
    <2>4. QED
      BY <1>0, <1>5, <2>2, <2>3, OutletAssumption DEF TypeOK, PollLate, Fault, pollVars, indiVars
  <1>6. CASE PollFails
    <2>1. recent' \in [Channel -> Nat]
      BY <1>3, <1>6 DEF PollFails
    <2>2. QED
      BY <1>0, <1>6, <2>1, OutletAssumption DEF TypeOK, PollFails, Fault, unitVars, indiVars
  <1>7. CASE PollSet
    <2>1. status \in [Outlet -> Switch] /\ pollNext \in Outlet
      BY <1>0, <1>7 DEF TypeOK, PollSet, Answer, Outlet
    <2>2. pollNext' \in 1 .. N
      BY <1>0, <1>1, <1>7 DEF TypeOK, PollSet
    <2>3. outletStates' \in [Outlet -> Switch \cup {"Unknown"}]
      BY <1>0, <1>7, <2>1 DEF TypeOK, PollSet
    <2>4. QED
      BY <1>0, <1>7, <2>2, <2>3 DEF TypeOK, PollSet, indiVars
  <1>8. CASE PollNoStatus
    BY <1>0, <1>8 DEF TypeOK, PollNoStatus, unitVars, indiVars
  <1>9. ASSUME PollEnds
        PROVE  pollPc' = "idle" /\ pollNext' \in 1 .. N /\ status' \in Answer /\ mixed' \in BOOLEAN
    <2>1. mixed' \in BOOLEAN
      BY <1>9, Zenon DEF PollEnds
    <2>2. QED
      BY <1>1, <1>9, <2>1 DEF PollEnds
  <1>10. CASE PollUnparsed
    <2>1. faults' \in 0 .. MaxFaults
      BY <1>0, <1>10, OutletAssumption DEF TypeOK, PollUnparsed, Fault
    <2>2. PollEnds /\ UNCHANGED <<unitVars, outletStates, published, indiVars, recent, fsm, want, wants>>
      BY <1>10 DEF PollUnparsed
    <2>3. QED
      BY <1>0, <1>9, <2>1, <2>2 DEF TypeOK, unitVars, indiVars
  <1>11. CASE PollPublish
    <2>1. \A c \in Channel : ChannelState(outletStates, c) \in Switch \cup {"Unknown", "Int"}
      <3>1. SUFFICES ASSUME NEW c \in Channel
                     PROVE  ChannelState(outletStates, c) \in Switch \cup {"Unknown", "Int"}
        OBVIOUS
      <3>2. Outlets[c][1] \in Outlet
        BY ChannelShape
      <3>3. QED
        BY <1>0, <3>2 DEF TypeOK, ChannelState
    <2>2. published' \in [Channel -> Switch \cup {"Unknown", "Int"}]
      BY <1>11, <2>1 DEF PollPublish
    <2>3. PollEnds /\ UNCHANGED <<unitVars, outletStates, indiVars, recent, fsm, want, wants, faults>>
      BY <1>11 DEF PollPublish
    <2>4. QED
      BY <1>0, <1>9, <2>2, <2>3 DEF TypeOK, unitVars, indiVars
  <1>12. CASE Already \/ TooSoon
    BY <1>0, <1>1, <1>12 DEF TypeOK, Already, TooSoon, Return, unitVars, pollVars
  <1>13. CASE Accept
    BY <1>0, <1>13 DEF TypeOK, Accept, unitVars, pollVars
  <1>14. ASSUME indiPc = "switch", Executed
         PROVE  device' \in [Outlet -> Switch] /\ dirty' \subseteq Outlet
    BY <1>0, <1>14, NextOutletShape DEF TypeOK, Executed
  <1>15. ASSUME indiPc = "switch", NEW refusal \in SUBSET Outlet, Proceed(refusal)
         PROVE  /\ indiPc' \in {"idle", "decide", "switch"} /\ index' \in Nat \ {0}
                /\ command' \in [channel : Channel, to : Switch]
                /\ recent' \in [Channel -> Nat] /\ refused' \subseteq Outlet
    <2>1. CASE index = Len(Outlets[command.channel])
      <3>1. PICK d \in StateDelays : recent' = [recent EXCEPT ![command.channel] = d]
        BY <1>15, <2>1 DEF Proceed
      <3>2. recent' \in [Channel -> Nat]
        BY <1>0, <1>1, <3>1 DEF TypeOK
      <3>3. QED
        BY <1>1, <1>15, <2>1, <3>2 DEF Proceed, Return
    <2>2. CASE index # Len(Outlets[command.channel])
      BY <1>0, <1>15, <2>2 DEF TypeOK, Proceed
    <2>3. QED
      BY <2>1, <2>2
  <1>16. ASSUME ReadAnswer PROVE pending' \in Seq(Answer)
    <2>1. Len(Append(pending, Ack)) = Len(pending) + 1
      BY <1>0, <1>1 DEF TypeOK
    <2>2. QED
      BY <1>0, <1>1, <1>16, <2>1, ReadLeaves DEF TypeOK, ReadAnswer
  <1>17. CASE SwitchOutlet
    <2>1. device' \in [Outlet -> Switch] /\ dirty' \subseteq Outlet
      BY <1>14, <1>17 DEF SwitchOutlet
    <2>2. {} \in SUBSET Outlet /\ indiPc = "switch" /\ Proceed({}) /\ ReadAnswer
      BY <1>17 DEF SwitchOutlet
    <2>3. QED
      BY <1>0, <1>15, <1>16, <1>17, <2>1, <2>2 DEF TypeOK, SwitchOutlet, pollVars
  <1>18. CASE SwitchRefused
    <2>1. {NextOutlet} \in SUBSET Outlet
      BY <1>0, <1>18, NextOutletShape DEF SwitchRefused
    <2>2. indiPc = "switch" /\ Proceed({NextOutlet}) /\ ReadAnswer
      BY <1>18 DEF SwitchRefused
    <2>3. faults' \in 0 .. MaxFaults
      BY <1>0, <1>18, OutletAssumption DEF TypeOK, SwitchRefused, Fault
    <2>4. QED
      BY <1>0, <1>15, <1>16, <1>18, <2>1, <2>2, <2>3 DEF TypeOK, SwitchRefused, pollVars
  <1>19. CASE SwitchFails
    <2>1. CASE UNCHANGED unitVars
      BY <1>0, <1>1, <1>19, <2>1, OutletAssumption
      DEF TypeOK, SwitchFails, Fault, Return, unitVars, pollVars
    <2>2. CASE /\ Executed \/ UNCHANGED <<device, dirty>>
               /\ pending' = Append(pending, Ack) /\ late' = late + 1
      <3>1. pending' \in Seq(Answer) /\ late' \in Nat
        BY <1>0, <1>1, <2>2 DEF TypeOK
      <3>2. device' \in [Outlet -> Switch] /\ dirty' \subseteq Outlet
        BY <1>0, <1>14, <1>19, <2>2 DEF SwitchFails, TypeOK
      <3>3. QED
        BY <1>0, <1>1, <1>19, <3>1, <3>2, OutletAssumption
        DEF TypeOK, SwitchFails, Fault, Return, pollVars
    <2>3. QED
      BY <1>19, <2>1, <2>2 DEF SwitchFails
  <1>20. ASSUME NEW c \in Channel, ChangeMind(c) \/ Ask(c) PROVE TypeOK'
    <2>1. CASE ChangeMind(c)
      BY <1>0, <2>1, OutletAssumption
      DEF TypeOK, ChangeMind, Switch, unitVars, pollVars, indiVars
    <2>2. CASE Ask(c)
      BY <1>0, <2>2 DEF TypeOK, Ask, Begin, unitVars, pollVars
    <2>3. QED
      BY <1>20, <2>1, <2>2
  <1>21. CASE UNCHANGED vars
    BY <1>0, <1>21 DEF TypeOK, vars, unitVars, pollVars, indiVars
  <1>22. QED
    BY <1>2, <1>4, <1>5, <1>6, <1>7, <1>8, <1>10, <1>11, <1>12, <1>13, <1>17, <1>18, <1>19, <1>20, <1>21
    DEF Next

\* What the FSM state says, action by action.
LEMMA FsmStep == IndInv /\ [Next]_vars => FsmInv'
  <1> SUFFICES ASSUME IndInv, [Next]_vars PROVE FsmInv'
    OBVIOUS
  <1>0. TypeOK /\ FsmInv
    BY DEF IndInv
  <1>1. CASE Connect
    BY <1>0, <1>1 DEF FsmInv, Connect, pollVars
  <1>2. CASE Poll
    BY <1>0, <1>2 DEF FsmInv, Poll
  <1>3. CASE PollLate
    BY <1>0, <1>3 DEF FsmInv, PollLate, pollVars
  <1>4. CASE PollFails
    BY <1>0, <1>4 DEF FsmInv, PollFails, MutexFree
  <1>5. CASE PollSet \/ PollNoStatus
    BY <1>0, <1>5 DEF FsmInv, PollSet, PollNoStatus
  <1>6. CASE PollUnparsed \/ PollPublish
    BY <1>0, <1>6 DEF FsmInv, PollUnparsed, PollPublish, PollEnds
  <1>7. CASE Already \/ TooSoon \/ Accept
    BY <1>0, <1>7 DEF FsmInv, Already, TooSoon, Accept, pollVars
  <1>8. CASE SwitchOutlet \/ SwitchRefused \/ SwitchFails
    BY <1>0, <1>8 DEF FsmInv, SwitchOutlet, SwitchRefused, SwitchFails, pollVars
  <1>9. ASSUME NEW c \in Channel, ChangeMind(c) \/ Ask(c) PROVE FsmInv'
    BY <1>0, <1>9 DEF FsmInv, ChangeMind, Ask, Begin, pollVars
  <1>10. CASE UNCHANGED vars
    BY <1>0, <1>10 DEF FsmInv, vars, pollVars
  <1>11. QED
    BY <1>1, <1>2, <1>3, <1>4, <1>5, <1>6, <1>7, <1>8, <1>9, <1>10 DEF Next

(***************************************************************************)
(* The freshness of what waits.  A command makes every status that waits   *)
(* old; with one answer behind, its own read takes that one away, and      *)
(* leaves at most the answer to the command.                               *)
(***************************************************************************)
LEMMA FreshStep == IndInv /\ [Next]_vars => AnswersFresh'
  <1> SUFFICES ASSUME IndInv, [Next]_vars PROVE AnswersFresh'
    OBVIOUS
  <1>0. /\ TypeOK /\ FsmInv /\ AnswersFresh
        /\ Len(pending) \in Nat /\ late \in Nat /\ pending \in Seq(Answer)
    BY DEF IndInv, TypeOK
  <1>1. Ack \in Answer /\ device \in Answer
    BY <1>0, AckShape DEF TypeOK
  <1>2. CASE Connect
    <2>1. Len(<< >>) = 0 /\ DOMAIN << >> = {}
      OBVIOUS
    <2>2. QED
      BY <1>0, <1>2, <2>1 DEF AnswersFresh, FsmInv, Connect, pollVars
  <1>3. CASE Poll
    <2>1. late' = late /\ device' = device
      BY <1>3 DEF Poll
    <2>2. Len(pending') <= late'
      BY <1>0, <1>3, <2>1, PollReads DEF AnswersFresh, TypeOK
    <2>3. ASSUME late <= 1, NEW i \in DOMAIN pending' PROVE pending'[i] = Ack \/ pending'[i] = device
      BY <1>0, <1>3, <2>3, PollReads DEF AnswersFresh
    <2>4. ASSUME late <= 1 PROVE status' = Ack \/ status' = device
      BY <1>0, <1>3, <2>4, PollReads DEF AnswersFresh
    <2>5. QED
      BY <2>1, <2>2, <2>3, <2>4 DEF AnswersFresh
  <1>4. CASE PollLate
    <2>1. late' = late /\ device' = device /\ status' = status /\ pollPc' = pollPc
      BY <1>4 DEF PollLate, pollVars
    <2>2. Len(Append(pending, device)) = Len(pending) + 1
      BY <1>0, <1>1
    <2>3. /\ Len(pending') <= Len(pending)
          /\ pending' \in Seq(Answer)
          /\ \A i \in DOMAIN pending' :
                 pending'[i] = device \/ \E j \in DOMAIN pending : pending'[i] = pending[j]
      BY <1>0, <1>1, <1>4, <2>2, ReadLeaves DEF PollLate
    <2>4. Len(pending') <= late'
      BY <1>0, <2>1, <2>3 DEF AnswersFresh
    <2>5. ASSUME late <= 1, NEW i \in DOMAIN pending' PROVE pending'[i] = Ack \/ pending'[i] = device
      BY <1>0, <2>3, <2>5 DEF AnswersFresh
    <2>6. QED
      BY <1>0, <2>1, <2>4, <2>5 DEF AnswersFresh
  <1>5. CASE PollFails
    BY <1>0, <1>5 DEF AnswersFresh, PollFails, unitVars
  <1>6. CASE PollSet \/ PollNoStatus
    BY <1>0, <1>6 DEF AnswersFresh, PollSet, PollNoStatus, unitVars
  <1>7. CASE PollUnparsed \/ PollPublish
    BY <1>0, <1>7 DEF AnswersFresh, PollUnparsed, PollPublish, PollEnds, unitVars
  <1>8. CASE Already \/ TooSoon \/ Accept
    BY <1>0, <1>8 DEF AnswersFresh, Already, TooSoon, Accept, pollVars, unitVars
  <1>9. CASE SwitchOutlet \/ SwitchRefused
    <2>1. late' = late /\ pollPc' = "idle" /\ ReadAnswer
      BY <1>9 DEF SwitchOutlet, SwitchRefused, MutexFree, pollVars
    <2>2. Len(Append(pending, Ack)) = Len(pending) + 1
      BY <1>0, <1>1
    <2>3. /\ Len(pending') <= Len(pending) /\ pending' \in Seq(Answer)
          /\ Len(pending) <= 1 => \A i \in DOMAIN pending' : pending'[i] = Ack
      BY <1>0, <1>1, <2>1, <2>2, ReadLeaves DEF ReadAnswer
    <2>4. Len(pending') <= late'
      BY <1>0, <2>1, <2>3 DEF AnswersFresh
    <2>5. ASSUME late' <= 1, NEW i \in DOMAIN pending' PROVE pending'[i] = Ack
      BY <1>0, <2>1, <2>3, <2>5 DEF AnswersFresh
    <2>6. QED
      BY <2>1, <2>4, <2>5 DEF AnswersFresh
  <1>10. CASE SwitchFails
    <2>1. pollPc' = "idle"
      BY <1>10 DEF SwitchFails, MutexFree, pollVars
    <2>2. CASE UNCHANGED unitVars
      BY <1>0, <2>1, <2>2 DEF AnswersFresh, unitVars
    <2>3. CASE pending' = Append(pending, Ack) /\ late' = late + 1
      <3>1. Len(pending') <= late'
        BY <1>0, <1>1, <2>3 DEF AnswersFresh
      <3>2. ASSUME late' <= 1, NEW i \in DOMAIN pending' PROVE pending'[i] = Ack
        <4>1. Len(pending) = 0
          BY <1>0, <2>3, <3>2 DEF AnswersFresh
        <4>2. QED
          BY <1>0, <1>1, <2>3, <4>1
      <3>3. QED
        BY <2>1, <3>1, <3>2 DEF AnswersFresh
    <2>4. QED
      BY <1>10, <2>2, <2>3 DEF SwitchFails
  <1>11. ASSUME NEW c \in Channel, ChangeMind(c) \/ Ask(c) PROVE AnswersFresh'
    BY <1>0, <1>11 DEF AnswersFresh, ChangeMind, Ask, Begin, pollVars, unitVars
  <1>12. CASE UNCHANGED vars
    BY <1>0, <1>12 DEF AnswersFresh, vars, pollVars, unitVars
  <1>13. QED
    BY <1>2, <1>3, <1>4, <1>5, <1>6, <1>7, <1>8, <1>9, <1>10, <1>11, <1>12 DEF Next

\* The exactness of the polled states, action by action.
LEMMA ExactStep == IndInv /\ [Next]_vars => PolledExact'
  <1> SUFFICES ASSUME IndInv, [Next]_vars PROVE PolledExact'
    OBVIOUS
  <1>0. TypeOK /\ FsmInv /\ AnswersFresh /\ PolledExact /\ PrefixDone
    BY DEF IndInv
  <1>1. CASE Connect
    BY <1>0, <1>1 DEF PolledExact, FsmInv, Connect, pollVars
  <1>2. CASE Poll \/ PollLate
    BY <1>0, <1>2 DEF PolledExact, Poll, PollLate, pollVars
  <1>3. CASE PollFails
    BY <1>0, <1>3 DEF PolledExact, PollFails
  <1>4. CASE PollSet
    <2>1. late <= 1 => status = device
      BY <1>0, <1>4 DEF AnswersFresh, PollSet
    <2>2. SUFFICES ASSUME late <= 1, NEW o \in Outlet \ dirty'
                   PROVE  outletStates'[o] \in {device[o], "Unknown"}
      BY <1>4 DEF PolledExact, PollSet
    <2>3. CASE o = pollNext
      BY <1>0, <1>4, <2>1, <2>2, <2>3 DEF TypeOK, PollSet
    <2>4. CASE o # pollNext
      BY <1>0, <1>4, <2>2, <2>4 DEF TypeOK, PollSet, PolledExact
    <2>5. QED
      BY <2>3, <2>4
  <1>5. CASE PollNoStatus
    BY <1>0, <1>5 DEF PolledExact, PollNoStatus, unitVars
  <1>6. CASE PollUnparsed \/ PollPublish
    BY <1>0, <1>6 DEF PolledExact, PollUnparsed, PollPublish, unitVars
  <1>7. CASE Already \/ TooSoon \/ Accept
    BY <1>0, <1>7 DEF PolledExact, Already, TooSoon, Accept, pollVars, unitVars
  <1>8. ASSUME indiPc = "switch", Executed, late' <= 1 => late <= 1, UNCHANGED outletStates
        PROVE  PolledExact'
    <2>1. SUFFICES ASSUME late <= 1, NEW o \in Outlet \ dirty'
                   PROVE  outletStates[o] \in {device'[o], "Unknown"}
      BY <1>8 DEF PolledExact
    <2>2. o # NextOutlet /\ o \notin dirty
      BY <1>8 DEF Executed
    <2>3. device'[o] = device[o]
      BY <1>0, <1>8, <2>2, NextOutletShape DEF TypeOK, Executed
    <2>4. QED
      BY <1>0, <2>1, <2>2, <2>3 DEF PolledExact
  <1>9. CASE SwitchOutlet
    BY <1>8, <1>9 DEF SwitchOutlet, pollVars
  <1>10. CASE SwitchRefused
    BY <1>0, <1>10 DEF PolledExact, SwitchRefused, pollVars
  <1>11. CASE SwitchFails
    <2>1. CASE UNCHANGED unitVars
      BY <1>0, <1>11, <2>1 DEF PolledExact, SwitchFails, unitVars, pollVars
    <2>2. CASE /\ Executed \/ UNCHANGED <<device, dirty>>
               /\ pending' = Append(pending, Ack) /\ late' = late + 1
      <3>1. late' <= 1 => late <= 1
        BY <1>0, <2>2 DEF TypeOK
      <3>2. UNCHANGED outletStates /\ indiPc = "switch"
        BY <1>11 DEF SwitchFails, pollVars
      <3>3. CASE Executed
        BY <1>8, <3>1, <3>2, <3>3
      <3>4. CASE UNCHANGED <<device, dirty>>
        BY <1>0, <3>1, <3>2, <3>4 DEF PolledExact
      <3>5. QED
        BY <2>2, <3>3, <3>4
    <2>3. QED
      BY <1>11, <2>1, <2>2 DEF SwitchFails
  <1>12. ASSUME NEW c \in Channel, ChangeMind(c) \/ Ask(c) PROVE PolledExact'
    BY <1>0, <1>12 DEF PolledExact, ChangeMind, Ask, Begin, pollVars, unitVars
  <1>13. CASE UNCHANGED vars
    BY <1>0, <1>13 DEF PolledExact, vars, pollVars, unitVars
  <1>14. QED
    BY <1>1, <1>2, <1>3, <1>4, <1>5, <1>6, <1>7, <1>9, <1>10, <1>11, <1>12, <1>13 DEF Next

\* The progress of a command, action by action.
LEMMA PrefixStep == IndInv /\ [Next]_vars => PrefixDone'
  <1> SUFFICES ASSUME IndInv, [Next]_vars PROVE PrefixDone'
    OBVIOUS
  <1>0. TypeOK /\ PrefixDone
    BY DEF IndInv
  <1>1. ASSUME UNCHANGED <<indiVars, device>> PROVE PrefixDone'
    BY <1>0, <1>1 DEF PrefixDone, indiVars, InOrder
  <1>2. CASE Connect \/ Poll \/ PollLate \/ PollFails \/ PollSet
    BY <1>1, <1>2 DEF Connect, Poll, PollLate, PollFails, PollSet, unitVars
  <1>3. CASE PollNoStatus \/ PollUnparsed \/ PollPublish
    BY <1>1, <1>3 DEF PollNoStatus, PollUnparsed, PollPublish, unitVars
  <1>4. CASE Already \/ TooSoon
    BY <1>4 DEF Already, TooSoon, Return, PrefixDone
  <1>5. CASE Accept
    <2>1. index = 1 /\ index' = 1 /\ indiPc' = "switch" /\ command' = command
      BY <1>0, <1>5 DEF Accept, PrefixDone
    <2>2. command.channel \in Channel
      BY <1>0 DEF TypeOK
    <2>3. 1 \in DOMAIN Outlets[command.channel]
          /\ \A i \in DOMAIN Outlets[command.channel] : ~(i < 1)
      BY <2>2, ChannelShape
    <2>4. QED
      BY <2>1, <2>3 DEF PrefixDone
  <1>6. ASSUME indiPc = "switch", NEW refusal, Proceed(refusal), Executed \/ UNCHANGED device,
               Executed \/ NextOutlet \in refusal
        PROVE  PrefixDone'
    <2>1. CASE index = Len(Outlets[command.channel])
      BY <1>6, <2>1 DEF Proceed, Return, PrefixDone
    <2>2. CASE index # Len(Outlets[command.channel])
      <3>1. /\ index' = index + 1 /\ indiPc' = "switch" /\ command' = command
            /\ refused' = refused \cup refusal
        BY <1>6, <2>2 DEF Proceed
      <3>2. /\ indiPc = "switch" /\ index \in DOMAIN Outlets[command.channel]
            /\ command.channel \in Channel /\ NextOutlet \in Outlet
        BY <1>0, <1>6, NextOutletShape DEF PrefixDone
      <3>3. DOMAIN Outlets[command.channel] = 1 .. Len(Outlets[command.channel])
            /\ Len(Outlets[command.channel]) \in Nat
        BY <3>2, ChannelShape
      <3>4. index' \in DOMAIN Outlets[command.channel]
        BY <2>2, <3>1, <3>2, <3>3
      <3>5. \A o \in Outlet : device[o] = command.to => device'[o] = command.to
        BY <1>0, <1>6, <3>2 DEF Executed, TypeOK
      <3>6. device'[NextOutlet] = command.to \/ NextOutlet \in refused'
        BY <1>0, <1>6, <3>1, <3>2 DEF Executed, TypeOK
      <3>7. ASSUME NEW i \in DOMAIN Outlets[command.channel], i < index'
            PROVE  \/ device'[InOrder(command.channel, command.to, i)] = command.to
                   \/ InOrder(command.channel, command.to, i) \in refused'
        <4>1. InOrder(command.channel, command.to, i) \in Outlet
          BY <3>2, OrderPicks
        <4>2. CASE i = index
          BY <3>6, <4>2 DEF NextOutlet
        <4>3. CASE i # index
          <5>1. i < index
            BY <3>1, <3>2, <3>3, <3>7, <4>3
          <5>2. \/ device[InOrder(command.channel, command.to, i)] = command.to
                \/ InOrder(command.channel, command.to, i) \in refused
            BY <1>0, <3>2, <5>1 DEF PrefixDone
          <5>3. QED
            BY <3>1, <3>5, <4>1, <5>2
        <4>4. QED
          BY <4>2, <4>3
      <3>8. QED
        BY <3>1, <3>4, <3>7 DEF PrefixDone, InOrder
    <2>3. QED
      BY <2>1, <2>2
  <1>7. CASE SwitchOutlet \/ SwitchRefused
    <2>1. CASE SwitchOutlet
      BY <1>6, <2>1 DEF SwitchOutlet
    <2>2. CASE SwitchRefused
      <3>1. /\ indiPc = "switch" /\ Proceed({NextOutlet}) /\ UNCHANGED device
            /\ NextOutlet \in {NextOutlet}
        BY <2>2 DEF SwitchRefused
      <3>2. QED
        BY <1>6, <3>1
    <2>3. QED
      BY <1>7, <2>1, <2>2
  <1>8. CASE SwitchFails
    BY <1>8 DEF SwitchFails, Return, PrefixDone
  <1>9. ASSUME NEW c \in Channel, ChangeMind(c) \/ Ask(c) PROVE PrefixDone'
    <2>1. CASE ChangeMind(c)
      BY <1>1, <2>1 DEF ChangeMind, unitVars
    <2>2. CASE Ask(c)
      BY <2>2 DEF Ask, Begin, PrefixDone
    <2>3. QED
      BY <1>9, <2>1, <2>2
  <1>10. CASE UNCHANGED vars
    BY <1>1, <1>10 DEF vars, unitVars
  <1>11. QED
    BY <1>2, <1>3, <1>4, <1>5, <1>7, <1>8, <1>9, <1>10 DEF Next

-----------------------------------------------------------------------------
(***************************************************************************)
(* Every state of a unit with its controller satisfies the invariant: the  *)
(* types, what the FSM state says, the freshness of the answers, the       *)
(* exactness of the polled states and the progress of a command.           *)
(***************************************************************************)
THEOREM InvariantHolds == Spec => []IndInv
  <1>1. Init => IndInv
    BY InitHolds
  <1>2. IndInv /\ [Next]_vars => IndInv'
    BY TypeStep, FsmStep, FreshStep, ExactStep, PrefixStep DEF IndInv
  <1>3. QED
    BY <1>1, <1>2, PTL DEF Spec

(***************************************************************************)
(* The polled states of parsePDUStatus are exact, but for outlets switched *)
(* since: for any number of outlets, channels, commands and failures.      *)
(***************************************************************************)
THEOREM PolledExactHolds == Spec => []PolledExact
  <1>1. IndInv => PolledExact
    BY DEF IndInv
  <1>2. QED
    BY <1>1, InvariantHolds, PTL

(***************************************************************************)
(* turnChannelOn and turnChannelOff switch the outlets of every channel in *)
(* its order, whatever fails or is repeated in between, but for the        *)
(* outlets that the unit refused to switch.                                *)
(***************************************************************************)
THEOREM OrderHolds == Spec => OrderRespected
  <1> DEFINE Step == \A c \in Channel, to \in Switch : \A i, j \in DOMAIN Outlets[c] :
          LET first == InOrder(c, to, i)
              then  == InOrder(c, to, j)
          IN  i < j /\ device[then] # to /\ device'[then] = to
                 => device'[first] = to \/ first \in refused
  <1>1. IndInv /\ [Next]_vars => [Step]_vars
    <2> SUFFICES ASSUME IndInv, [Next]_vars,
                        NEW c \in Channel, NEW to \in Switch,
                        NEW i \in DOMAIN Outlets[c], NEW j \in DOMAIN Outlets[c],
                        i < j, device[InOrder(c, to, j)] # to, device'[InOrder(c, to, j)] = to
                 PROVE  device'[InOrder(c, to, i)] = to \/ InOrder(c, to, i) \in refused
      OBVIOUS
    <2>0. TypeOK /\ PrefixDone
      BY DEF IndInv
    <2>1. device' # device
      OBVIOUS
    <2>2. indiPc = "switch" /\ Executed
      BY <2>1 DEF Next, vars, Connect, Poll, PollLate, PollFails, PollSet, PollNoStatus,
                  PollUnparsed, PollPublish, Already, TooSoon, Accept, SwitchOutlet, SwitchRefused,
                  SwitchFails, ChangeMind, Ask, Begin, unitVars
    <2>3. /\ NextOutlet \in Outlet /\ command.channel \in Channel
          /\ index \in DOMAIN Outlets[command.channel]
      BY <2>0, <2>2, NextOutletShape DEF PrefixDone
    <2>4. InOrder(c, to, i) \in Outlet /\ InOrder(c, to, j) \in Outlet
      BY OrderPicks
    <2>5. InOrder(c, to, j) = NextOutlet /\ command.to = to
      BY <2>0, <2>2, <2>3, <2>4 DEF Executed, TypeOK
    <2>6. c = command.channel
      BY <2>3, <2>5, OrderDisjoint DEF NextOutlet
    <2>7. j = index
      BY <2>3, <2>5, <2>6, OrderInjective DEF NextOutlet
    <2>8. device[InOrder(c, to, i)] = to \/ InOrder(c, to, i) \in refused
      BY <2>0, <2>2, <2>5, <2>6, <2>7 DEF PrefixDone
    <2>9. QED
      BY <2>0, <2>2, <2>3, <2>4, <2>5, <2>8 DEF Executed, TypeOK
  <1>2. QED
    BY <1>1, InvariantHolds, PTL DEF Spec, OrderRespected

=============================================================================
