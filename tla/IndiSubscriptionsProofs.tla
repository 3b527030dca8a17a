----------------------- MODULE IndiSubscriptionsProofs -----------------------
(***************************************************************************)
(* What the application believes about its subscriptions is right, for any *)
(* set of properties and any number of restarts, losses and retries.  The  *)
(* belief rests on the FIFO: definitions behind the last request of a new  *)
(* server come from that server, which has the subscription.               *)
(***************************************************************************)
EXTENDS IndiSubscriptions, TLAPS

\* No request of a new server waits at position n or behind it.
NoGetFrom(q, n) == \A m \in DOMAIN q : m >= n => q[m] # "get"

\* A definition that no such request follows is of a subscribed property.
Fresh(q, sub) == \A n \in DOMAIN q : NoGetFrom(q, n) => q[n] \in sub

IndInv == TypeOK /\ Fresh(fromServer, interest) /\ BelievesRightly

-----------------------------------------------------------------------------
\* Delays stay within their limits (noteIndiSetPropertyRequested).
LEMMA DelayBounded ==
    ASSUME NEW d \in 0 .. MaxDelay PROVE NextDelay(d) \in 0 .. MaxDelay
  BY SubscriptionAssumption DEF NextDelay

\* A message behind the others, and the others where they were.
LEMMA AppendShape ==
    ASSUME NEW S, NEW q \in Seq(S), NEW e \in S
    PROVE  /\ Append(q, e) \in Seq(S)
           /\ Len(Append(q, e)) = Len(q) + 1
           /\ DOMAIN Append(q, e) = 1 .. Len(q) + 1
           /\ Append(q, e)[Len(q) + 1] = e
           /\ \A n \in 1 .. Len(q) : Append(q, e)[n] = q[n]
           /\ DOMAIN q = 1 .. Len(q) /\ Len(q) \in Nat
  OBVIOUS

\* The messages behind the first one, moved up.
LEMMA TailShape ==
    ASSUME NEW S, NEW q \in Seq(S), q # << >>
    PROVE  /\ Tail(q) \in Seq(S) /\ Head(q) \in S /\ Head(q) = q[1]
           /\ Len(q) \in Nat \ {0} /\ Len(Tail(q)) = Len(q) - 1
           /\ DOMAIN q = 1 .. Len(q) /\ DOMAIN Tail(q) = 1 .. Len(q) - 1
           /\ \A n \in 1 .. Len(q) - 1 : Tail(q)[n] = q[n + 1]
  OBVIOUS

\* The definition of a subscribed property may join the FIFO.
LEMMA FreshAppend ==
    ASSUME NEW S, NEW q \in Seq(S), NEW sub, NEW sub2, NEW k \in S,
           Fresh(q, sub), sub \subseteq sub2, k \in sub2
    PROVE  Fresh(Append(q, k), sub2)
  <1> DEFINE r == Append(q, k)
  <1>1. /\ DOMAIN r = 1 .. Len(q) + 1 /\ r[Len(q) + 1] = k
        /\ \A n \in 1 .. Len(q) : r[n] = q[n]
        /\ DOMAIN q = 1 .. Len(q) /\ Len(q) \in Nat
    BY AppendShape
  <1> HIDE DEF r
  <1> SUFFICES ASSUME NEW n \in DOMAIN r, NoGetFrom(r, n) PROVE r[n] \in sub2
    BY DEF Fresh, r
  <1>2. CASE n = Len(q) + 1
    BY <1>1, <1>2
  <1>3. CASE n \in 1 .. Len(q)
    <2>1. NoGetFrom(q, n)
      BY <1>1, <1>3 DEF NoGetFrom
    <2> QED
      BY <1>1, <1>3, <2>1 DEF Fresh
  <1> QED
    BY <1>1, <1>2, <1>3

\* Taking the first message leaves the others what they were.
LEMMA FreshTail ==
    ASSUME NEW S, NEW q \in Seq(S), NEW sub, q # << >>, Fresh(q, sub)
    PROVE  Fresh(Tail(q), sub)
  <1> DEFINE r == Tail(q)
  <1>1. /\ Len(q) \in Nat \ {0} /\ DOMAIN q = 1 .. Len(q) /\ DOMAIN r = 1 .. Len(q) - 1
        /\ \A n \in 1 .. Len(q) - 1 : r[n] = q[n + 1]
    BY TailShape
  <1> HIDE DEF r
  <1> SUFFICES ASSUME NEW n \in DOMAIN r, NoGetFrom(r, n) PROVE r[n] \in sub
    BY DEF Fresh, r
  <1>2. n + 1 \in DOMAIN q /\ r[n] = q[n + 1]
    BY <1>1
  <1>3. ASSUME NEW m \in DOMAIN q, m >= n + 1 PROVE q[m] # "get"
    <2>1. m - 1 \in DOMAIN r /\ m - 1 >= n /\ r[m - 1] = q[m]
      BY <1>1, <1>3
    <2> QED
      BY <2>1 DEF NoGetFrom
  <1>4. NoGetFrom(q, n + 1)
    BY <1>3 DEF NoGetFrom
  <1> QED
    BY <1>2, <1>4 DEF Fresh

-----------------------------------------------------------------------------
\* Asking for everything again keeps the table in its type.
LEMMA RequestAllType ==
    ASSUME TypeOK, RequestAll
    PROVE  /\ defReceived' \in [Key -> BOOLEAN] /\ allDefsReceived' \in BOOLEAN
           /\ retryDelay' \in [Key -> 0 .. MaxDelay] /\ remaining' \in [Key -> 0 .. MaxDelay]
           /\ missingLogged' \in [Key -> BOOLEAN]
           /\ \A k \in Requested : ~defReceived'[k]
  <1>1. allDefsReceived' \in BOOLEAN
    BY Zenon DEF RequestAll
  <1>2. defReceived' \in [Key -> BOOLEAN] /\ missingLogged' \in [Key -> BOOLEAN]
    BY DEF RequestAll
  <1>3. retryDelay' \in [Key -> 0 .. MaxDelay] /\ remaining' \in [Key -> 0 .. MaxDelay]
    BY SubscriptionAssumption DEF RequestAll
  <1>4. \A k \in Requested : ~defReceived'[k]
    BY DEF RequestAll, Requested
  <1> QED
    BY <1>1, <1>2, <1>3, <1>4

\* Asking for what is due keeps the table in its type, and marks no requested key.
LEMMA RequestDueType ==
    ASSUME TypeOK, RequestDue
    PROVE  /\ defReceived' \in [Key -> BOOLEAN] /\ allDefsReceived' \in BOOLEAN
           /\ retryDelay' \in [Key -> 0 .. MaxDelay] /\ remaining' \in [Key -> 0 .. MaxDelay]
           /\ missingLogged' \in [Key -> BOOLEAN]
           /\ mainSends' \subseteq Requested
           /\ \A k \in Requested : defReceived'[k] = defReceived[k]
  <1>1. allDefsReceived' \in BOOLEAN
    BY Zenon DEF RequestDue
  <1>2. defReceived' \in [Key -> BOOLEAN] /\ \A k \in Requested : defReceived'[k] = defReceived[k]
    BY DEF RequestDue, TypeOK, Requested
  <1>3. retryDelay' \in [Key -> 0 .. MaxDelay]
    BY DelayBounded DEF RequestDue, TypeOK
  <1>4. remaining' \in [Key -> 0 .. MaxDelay]
    BY <1>3 DEF RequestDue, TypeOK
  <1>5. missingLogged' \in [Key -> BOOLEAN]
    <2>1. missingLogged' = [k \in Key |-> missingLogged[k] \/ (k \in Due /\ retryDelay'[k] >= MaxDelay)]
      BY DEF RequestDue
    <2>2. \A k \in Key : missingLogged[k] \in BOOLEAN
      BY DEF TypeOK
    <2>3. \A k \in Key : (missingLogged[k] \/ (k \in Due /\ retryDelay'[k] >= MaxDelay)) \in BOOLEAN
      BY <2>2, Zenon
    <2> QED
      BY <2>1, <2>3, Zenon
  <1>6. mainSends' \subseteq Requested
    BY DEF RequestDue, Due, Missing
  <1> QED
    BY <1>1, <1>2, <1>3, <1>4, <1>5, <1>6

\* Recording one definition.
LEMMA ReceivedType ==
    ASSUME TypeOK, NEW k \in Key, Received(k)
    PROVE  /\ defReceived' \in [Key -> BOOLEAN] /\ allDefsReceived' \in BOOLEAN
           /\ retryDelay' \in [Key -> 0 .. MaxDelay] /\ remaining' \in [Key -> 0 .. MaxDelay]
           /\ missingLogged' \in [Key -> BOOLEAN]
           /\ \A j \in Requested : j # k => defReceived'[j] = defReceived[j]
  BY SubscriptionAssumption DEF TypeOK, Received, Requested

\* The steps that only move requests, time and devices leave the belief alone.
LEMMA QuietStep ==
    ASSUME IndInv, TypeOK', UNCHANGED fromServer, interest \subseteq interest',
           \A k \in Requested : defReceived'[k] = defReceived[k]
    PROVE  IndInv'
  <1>1. Fresh(fromServer, interest)'
    BY DEF IndInv, Fresh, NoGetFrom
  <1>2. BelievesRightly'
    BY DEF IndInv, BelievesRightly
  <1> QED
    BY <1>1, <1>2 DEF IndInv

\* Every step of the threads, the server and the devices keeps the belief right.
LEMMA InvStep == IndInv /\ [Next]_vars => IndInv'
  <1> SUFFICES ASSUME IndInv, [Next]_vars PROVE IndInv'
    OBVIOUS
  <1>t. TypeOK /\ fromServer \in Seq(Key \cup {"get"})
    BY DEF IndInv, TypeOK
  <1> USE SubscriptionAssumption
  <1>1. CASE UNCHANGED vars
    <2>1. TypeOK' /\ UNCHANGED <<fromServer, interest, defReceived>>
      BY <1>1, <1>t DEF TypeOK, vars, callBackVars, serverVars
    <2> QED
      BY <2>1, QuietStep
  <1>2. CASE Activate
    <2>1. TypeOK' /\ UNCHANGED <<fromServer, interest, defReceived>>
      BY <1>2, <1>t DEF TypeOK, Activate, callBackVars, serverVars
    <2> QED
      BY <2>1, QuietStep
  <1>3. CASE StartRequests
    <2>1. TypeOK' /\ UNCHANGED <<fromServer, interest>>
      BY <1>3, <1>t, RequestAllType DEF TypeOK, StartRequests, serverVars
    <2>2. \A k \in Requested : ~defReceived'[k]
      BY <1>3, <1>t, RequestAllType DEF StartRequests
    <2>3. BelievesRightly'
      BY <2>2 DEF BelievesRightly
    <2>4. Fresh(fromServer, interest)'
      BY <2>1 DEF IndInv, Fresh, NoGetFrom
    <2> QED
      BY <2>1, <2>3, <2>4 DEF IndInv
  <1>4. CASE LoopRequests
    <2>1. TypeOK' /\ UNCHANGED <<fromServer, interest>>
      BY <1>4, <1>t, RequestDueType DEF TypeOK, LoopRequests, serverVars
    <2>2. \A k \in Requested : defReceived'[k] = defReceived[k]
      BY <1>4, <1>t, RequestDueType DEF LoopRequests
    <2> QED
      BY <2>1, <2>2, QuietStep
  <1>5. CASE MainSend \/ IndiSend
    <2>1. TypeOK' /\ UNCHANGED <<fromServer, interest, defReceived>>
      BY <1>5, <1>t DEF TypeOK, MainSend, IndiSend, callBackVars, serverVars
    <2> QED
      BY <2>1, QuietStep
  <1>6. CASE Tick
    <2>1. remaining' \in [Key -> 0 .. MaxDelay]
      BY <1>6, <1>t DEF TypeOK, Tick
    <2>2. TypeOK' /\ UNCHANGED <<fromServer, interest, defReceived>>
      BY <1>6, <1>t, <2>1 DEF TypeOK, Tick, serverVars
    <2> QED
      BY <2>2, QuietStep
  <1>7. CASE HandleSet
    <2> DEFINE k == Head(fromServer)
    <2>1. k \in Key /\ fromServer # << >> /\ Tail(fromServer) \in Seq(Key \cup {"get"})
      BY <1>7, <1>t, TailShape DEF HandleSet, IndiReady
    <2>2. TypeOK' /\ UNCHANGED interest /\ fromServer' = Tail(fromServer)
      BY <1>7, <1>t, <2>1, ReceivedType DEF TypeOK, HandleSet, serverVars
    <2>3. Fresh(fromServer, interest)'
      BY <1>t, <2>1, <2>2, FreshTail DEF IndInv
    <2>4. ASSUME \A n \in DOMAIN fromServer' : fromServer'[n] # "get",
                 NEW j \in Requested, defReceived'[j]
          PROVE  j \in interest'
      <3>1. NoGetFrom(fromServer, 1) /\ 1 \in DOMAIN fromServer /\ fromServer[1] = k
        <4>1. /\ Len(fromServer) \in Nat \ {0} /\ DOMAIN fromServer = 1 .. Len(fromServer)
              /\ fromServer[1] = k /\ DOMAIN fromServer' = 1 .. Len(fromServer) - 1
              /\ \A n \in 1 .. Len(fromServer) - 1 : fromServer'[n] = fromServer[n + 1]
          BY <1>t, <2>1, <2>2, TailShape
        <4>2. k # "get"
          BY <1>7 DEF HandleSet
        <4>3. ASSUME NEW m \in DOMAIN fromServer PROVE fromServer[m] # "get"
          <5>1. CASE m = 1
            BY <4>1, <4>2, <5>1
          <5>2. CASE m # 1
            <6>1. m - 1 \in DOMAIN fromServer' /\ fromServer'[m - 1] = fromServer[m]
              BY <4>1, <5>2
            <6> QED
              BY <2>4, <6>1
          <5> QED
            BY <5>1, <5>2
        <4> QED
          BY <4>1, <4>3 DEF NoGetFrom
      <3>2. CASE j = k
        BY <2>2, <3>1, <3>2 DEF IndInv, Fresh
      <3>3. CASE j # k
        <4>1. defReceived[j]
          BY <1>7, <1>t, <2>1, <2>4, <3>3, ReceivedType DEF HandleSet
        <4>2. \A m \in DOMAIN fromServer : fromServer[m] # "get"
          <5>1. \A m \in DOMAIN fromServer : m >= 1
            BY <1>t
          <5> QED
            BY <3>1, <5>1 DEF NoGetFrom
        <4> QED
          BY <2>2, <4>1, <4>2 DEF IndInv, BelievesRightly
      <3> QED
        BY <3>2, <3>3
    <2>5. BelievesRightly'
      BY <2>4 DEF BelievesRightly
    <2> QED
      BY <2>2, <2>3, <2>5 DEF IndInv
  <1>8. CASE HandleGetAll
    <2>1. fromServer # << >> /\ fromServer' = Tail(fromServer) /\ UNCHANGED interest
      BY <1>8 DEF HandleGetAll, IndiReady, serverVars
    <2>2. Tail(fromServer) \in Seq(Key \cup {"get"})
      BY <1>t, <2>1, TailShape
    <2>3. TypeOK'
      BY <1>8, <1>t, <2>1, <2>2, RequestAllType DEF TypeOK, HandleGetAll, serverVars
    <2>4. Fresh(fromServer, interest)'
      BY <1>t, <2>1, FreshTail DEF IndInv
    <2>5. BelievesRightly'
      BY <1>8, <1>t, RequestAllType DEF HandleGetAll, BelievesRightly
    <2> QED
      BY <2>3, <2>4, <2>5 DEF IndInv
  <1>9. CASE ServerTakes \/ Publish
    <2>1. PICK k \in Requested :
            /\ \/ fromServer' = Append(fromServer, k) /\ k \in interest'
               \/ UNCHANGED fromServer
            /\ interest' \in {interest, interest \cup {k}}
            /\ toServer' \subseteq toServer
            /\ UNCHANGED <<callBackVars, mainPc, mainSends, indiSends, up, restarts, faults>>
      BY <1>9, <1>t DEF ServerTakes, Publish, TypeOK, serverVars
    <2>2. k \in Key \cup {"get"} /\ UNCHANGED defReceived
      BY <2>1 DEF Requested, callBackVars
    <2>3. fromServer' \in Seq(Key \cup {"get"})
      BY <1>t, <2>1, <2>2, AppendShape
    <2>4. TypeOK'
      BY <1>t, <2>1, <2>3 DEF TypeOK, callBackVars
    <2>5. CASE UNCHANGED fromServer
      BY <2>1, <2>2, <2>4, <2>5, QuietStep
    <2>6. CASE fromServer' = Append(fromServer, k) /\ k \in interest'
      <3>1. interest \subseteq interest'
        BY <2>1
      <3>2. Fresh(fromServer', interest')
        BY <1>t, <2>2, <2>6, <3>1, FreshAppend DEF IndInv
      <3>3. ASSUME \A n \in DOMAIN fromServer' : fromServer'[n] # "get"
            PROVE  \A n \in DOMAIN fromServer : fromServer[n] # "get"
        BY <1>t, <2>2, <2>6, <3>3, AppendShape
      <3>4. BelievesRightly'
        BY <2>2, <3>1, <3>3 DEF IndInv, BelievesRightly
      <3> QED
        BY <2>4, <3>2, <3>4 DEF IndInv
    <2> QED
      BY <2>1, <2>5, <2>6
  <1>10. CASE ServerRestart
    <2>1. PICK n \in 0 .. Len(fromServer) :
            fromServer' = Append([m \in 1 .. n |-> fromServer[m]], "get")
      BY <1>10 DEF ServerRestart, Flushed
    <2>2. /\ fromServer' \in Seq(Key \cup {"get"}) /\ Fresh(fromServer', interest')
          /\ \E m \in DOMAIN fromServer' : fromServer'[m] = "get"
      <3> DEFINE p == [m \in 1 .. n |-> fromServer[m]]
      <3>1. p \in Seq(Key \cup {"get"}) /\ Len(p) = n /\ n \in Nat
        BY <1>t
      <3> HIDE DEF p
      <3>2. fromServer' = Append(p, "get")
        BY <2>1 DEF p
      <3>3. /\ fromServer' \in Seq(Key \cup {"get"}) /\ DOMAIN fromServer' = 1 .. n + 1
            /\ fromServer'[n + 1] = "get"
        BY <3>1, <3>2, AppendShape
      <3>4. Fresh(fromServer', interest')
        BY <3>1, <3>3 DEF Fresh, NoGetFrom
      <3> QED
        BY <3>1, <3>3, <3>4
    <2>3. TypeOK'
      BY <1>10, <1>t, <2>2 DEF TypeOK, ServerRestart, callBackVars
    <2>4. BelievesRightly'
      BY <2>2 DEF BelievesRightly
    <2> QED
      BY <2>2, <2>3, <2>4 DEF IndInv
  <1>11. CASE DeviceUp \/ DeviceDown
    <2>1. TypeOK' /\ UNCHANGED <<fromServer, interest, defReceived>>
      BY <1>11, <1>t DEF TypeOK, DeviceUp, DeviceDown, callBackVars
    <2> QED
      BY <2>1, QuietStep
  <1> QED
    BY <1>1, <1>2, <1>3, <1>4, <1>5, <1>6, <1>7, <1>8, <1>9, <1>10, <1>11 DEF Next

\* Before startINDI nothing is believed and the FIFO is empty.
LEMMA InitInv == Init => IndInv
  <1> SUFFICES ASSUME Init PROVE IndInv
    OBVIOUS
  <1>1. TypeOK
    <2>1. fromServer \in Seq(Key \cup {"get"})
      BY DEF Init
    <2>2. /\ 0 \in 0 .. MaxDelay /\ restarts \in 0 .. MaxRestarts /\ faults \in 0 .. MaxFaults
          /\ retryDelay \in [Key -> 0 .. MaxDelay] /\ remaining \in [Key -> 0 .. MaxDelay]
      BY SubscriptionAssumption DEF Init
    <2> QED
      BY <2>1, <2>2 DEF Init, TypeOK
  <1>2. DOMAIN fromServer = {}
    BY DEF Init
  <1>3. Fresh(fromServer, interest)
    BY <1>2 DEF Fresh
  <1>4. BelievesRightly
    BY DEF Init, BelievesRightly, Requested
  <1> QED
    BY <1>1, <1>3, <1>4 DEF IndInv

\* The table, the FIFO and the requests keep their types.
THEOREM TypeCorrect == Spec => []TypeOK
  <1>1. IndInv => TypeOK
    BY DEF IndInv
  <1> QED
    BY <1>1, InitInv, InvStep, PTL DEF Spec

\* m_defReceived is right about the server whenever no new server waits to be heard.
THEOREM BeliefHolds == Spec => []BelievesRightly
  <1>1. IndInv => BelievesRightly
    BY DEF IndInv
  <1> QED
    BY <1>1, InitInv, InvStep, PTL DEF Spec
=============================================================================
