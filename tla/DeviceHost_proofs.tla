------------------------- MODULE DeviceHost_proofs -------------------------
(***************************************************************************)
(* Proofs about DeviceHost, for any number of searches.                    *)
(***************************************************************************)
EXTENDS DeviceHost, TLAPS

\* The steps of the listener's own thread and of a Stop of it.
ListenerSteps ==
  L!CreateMutex \/ L!Receive \/ L!Enter \/ L!Unblock \/ L!Leave

\* The listener keeps its types, whichever of its steps it takes.
LEMMA ListenerType ==
  ASSUME L!TypeOK,
         \/ L!Start \/ ListenerSteps
         \/ L!BeginStop(Main) \/ L!Wait(Main) \/ L!StopStep(Main)
         \/ L!Done(Main) \/ UNCHANGED listener
  PROVE  L!TypeOK'
<1> USE HostAssumption DEF L!ListenerAssumption, L!TypeOK, L!Threads, L!Goto
<1>1. CASE L!Start \/ ListenerSteps
  BY <1>1 DEF L!Start, ListenerSteps, L!CreateMutex, L!Receive, L!Enter,
     L!Unblock, L!Leave
<1>2. CASE L!BeginStop(Main) \/ L!Wait(Main) \/ L!StopStep(Main) \/ L!Done(Main)
  BY <1>2 DEF L!BeginStop, L!Wait, L!Acquire, L!AcquireAbandoned, L!StopStep,
     L!AbortSelf, L!Abort, L!CloseMutex, L!CloseSocket, L!Done
<1>3. CASE UNCHANGED listener
  BY <1>3 DEF listener
<1>4. QED
  BY <1>1, <1>2, <1>3

\* Every variable keeps its type.
THEOREM TypeCorrect == Spec => []TypeOK
<1>1. Init => TypeOK
  BY HostAssumption DEF Init, TypeOK, L!Init, L!TypeOK, L!Threads,
     L!ListenerAssumption
<1>2. TypeOK /\ [Next]_vars => TypeOK'
  <2> SUFFICES ASSUME TypeOK, [Next]_vars PROVE TypeOK'
    OBVIOUS
  <2>1. L!TypeOK'
    <3>1. CASE ListenerSteps \/ L!Start
      BY <3>1, ListenerType DEF TypeOK
    <3>2. CASE L!BeginStop(Main) \/ L!Wait(Main) \/ L!StopStep(Main)
                 \/ L!Done(Main)
      BY <3>2, ListenerType DEF TypeOK
    <3>3. CASE UNCHANGED listener
      BY <3>3, ListenerType DEF TypeOK
    <3>4. CASE running' = FALSE /\ UNCHANGED <<ProcessingMutex, owner, socket, pc>>
      BY <3>4 DEF TypeOK, L!TypeOK
    <3>5. QED
      BY <3>1, <3>2, <3>3, <3>4 DEF Next, vars, Start, StartStep, StartListener,
         StartTimer, Bind, Due, SayHi, Listen, ListenerSteps, SayBye, StopStep,
         StopListener, Stopped, StopThrew, StopHttp, DisposeTimer, Stopping,
         Fails, OnSearchRequest, ResponseThrows, Respond, AssignTimer,
         SendSearchResponse, Answer, Transmit
  <2> USE DEF TypeOK, host, Send
  <2>2. CASE Start \/ StartStep \/ Bind \/ Due \/ SayHi \/ Listen
    BY <2>1, <2>2 DEF Start, StartStep, StartListener, StartTimer, Bind, Due,
       SayHi, Listen
  <2>3. CASE SayBye \/ StopStep \/ Stopping \/ Fails \/ Transmit
    BY <2>1, <2>3 DEF SayBye, StopStep, StopListener, Stopped, StopThrew,
       StopHttp, DisposeTimer, Stopping, Fails, Transmit
  <2>4. ASSUME NEW r \in Requests,
               OnSearchRequest(r) \/ ResponseThrows(r) \/ Respond(r)
        PROVE  TypeOK'
    BY <2>1, <2>4 DEF OnSearchRequest, ResponseThrows, Respond, AssignTimer,
       SendSearchResponse, Answer
  <2>5. CASE UNCHANGED vars
    BY <2>1, <2>5 DEF vars
  <2>6. QED
    BY <2>2, <2>3, <2>4, <2>5 DEF Next
<1>3. QED
  BY <1>1, <1>2, PTL DEF Spec

-----------------------------------------------------------------------------
\* Before Start nothing runs.
IdleOK ==
  at = "idle" =>
    /\ http = "off"
    /\ m_AdvertiseTimer = "null"
    /\ pass = "idle"
    /\ \A r \in Requests : item[r] = "none"
    /\ pc[Listener] = "unborn"
    /\ pc[Main] = "idle"

LEMMA IdleStep == TypeOK /\ IdleOK /\ [Next]_vars => IdleOK'
<1> SUFFICES ASSUME TypeOK, IdleOK, [Next]_vars PROVE IdleOK'
  OBVIOUS
<1> USE DEF TypeOK, IdleOK, host, listener, Send
<1>1. CASE at' # "idle"
  BY <1>1
<1>2. CASE at' = "idle" /\ at # "idle"
  BY <1>2 DEF Next, vars, Start, StartStep, StartListener, StartTimer, Bind, Due,
     SayHi, Listen, SayBye, StopStep, StopListener, Stopped, StopThrew, StopHttp,
     DisposeTimer, Stopping, Fails, OnSearchRequest, ResponseThrows, Respond,
     AssignTimer, SendSearchResponse, Answer, Transmit
<1>3. CASE at' = "idle" /\ at = "idle"
  <2>1. UNCHANGED <<http, m_AdvertiseTimer, pass, item, pc>>
    BY <1>3 DEF Next, vars, Start, StartStep, StartListener, StartTimer, Bind, Due,
       SayHi, Listen, SayBye, StopStep, StopListener, Stopped, StopThrew,
       StopHttp, DisposeTimer, Stopping, Fails, OnSearchRequest, ResponseThrows,
       Respond, AssignTimer, SendSearchResponse, Answer, Transmit,
       L!CreateMutex, L!Receive, L!Enter, L!Leave, L!Unblock, L!Wait, L!Acquire,
       L!AcquireAbandoned, L!StopStep, L!AbortSelf, L!Abort, L!CloseMutex,
       L!CloseSocket, L!Done
  <2>2. QED
    BY <1>3, <2>1
<1>4. QED
  BY <1>1, <1>2, <1>3

LEMMA IdleInvariant == Spec => []IdleOK
<1>1. Init => IdleOK
  BY HostAssumption DEF Init, IdleOK, L!Init, L!Threads, L!ListenerAssumption
<1>2. QED
  BY <1>1, IdleStep, TypeCorrect, PTL DEF Spec

-----------------------------------------------------------------------------
\* What Stop has to stop runs, or is stopped.
Intact == socket = "open" /\ http # "stopped" /\ m_AdvertiseTimer = "set"
Over   == socket = "closed" /\ http = "stopped" /\ m_AdvertiseTimer = "disposed"

\* The mutex is made once, before it is waited for, and closed before the socket.
MutexOK ==
  /\ pc[Listener] \in {"unborn", "new"} => ProcessingMutex = "null"
  /\ pc[Main] \in {"wait", "abort", "closemutex", "closesocket"} =>
       ProcessingMutex # "null"
  /\ socket = "closed" \/ pc[Main] = "closesocket" => ProcessingMutex = "closed"

\* Main is inside the Stop of the listener exactly when it called it there.
PlaceOK ==
  IF at = "stopping"
    THEN pc[Main] \in {"wait", "abort", "closemutex", "closesocket", "stopped",
                       "threw"}
    ELSE pc[Main] = "idle"

\* How far Start and Stop are at each place.
StagesOK ==
  /\ at \in {"idle", "listener", "timer"} => socket = "open" /\ http # "stopped"
  /\ at = "started" => Intact
  /\ at \in {"stop", "threw"} => Intact \/ Over
  /\ at = "http" => socket = "closed" /\ http # "stopped"
  /\ at = "dispose" => socket = "closed" /\ http = "stopped"
  /\ at = "stopped" => Over

StoppingOK ==
  /\ pc[Main] \in {"wait", "abort", "closemutex", "closesocket"} => Intact
  /\ pc[Main] = "threw" => Intact \/ Over
  /\ pc[Main] = "stopped" => socket = "closed" /\ http # "stopped"

StopInv == MutexOK /\ PlaceOK /\ StagesOK /\ StoppingOK

LEMMA StopInvStep == TypeOK /\ StopInv /\ [Next]_vars => StopInv'
<1> SUFFICES ASSUME TypeOK, StopInv, [Next]_vars PROVE StopInv'
  OBVIOUS
<1> USE HostAssumption
    DEF L!ListenerAssumption, TypeOK, L!TypeOK, L!Threads, L!Goto, StopInv,
    MutexOK, PlaceOK, StagesOK, StoppingOK, Intact, Over, listener, host
<1>1. CASE Start \/ StartStep
  BY <1>1 DEF Start, StartStep, StartListener, StartTimer, L!Start
<1>2. CASE Bind \/ Due \/ SayHi
  BY <1>2 DEF Bind, Due, SayHi
<1>3. CASE Listen
  BY <1>3 DEF Listen, L!CreateMutex, L!Receive, L!Enter, L!Unblock, L!Leave
<1>4. CASE SayBye
  BY <1>4 DEF SayBye
<1>5. CASE StopListener
  BY <1>5 DEF StopListener, L!BeginStop
<1>6. CASE Stopped \/ StopThrew
  BY <1>6 DEF Stopped, StopThrew, L!Done
<1>7. CASE StopHttp \/ DisposeTimer
  BY <1>7 DEF StopHttp, DisposeTimer
<1>8. CASE Stopping
  BY <1>8 DEF Stopping, L!Wait, L!Acquire, L!AcquireAbandoned, L!StopStep,
     L!AbortSelf, L!Abort, L!CloseMutex, L!CloseSocket
<1>9. CASE Fails \/ Transmit
  BY <1>9 DEF Fails, Transmit
<1>10. ASSUME NEW r \in Requests,
              OnSearchRequest(r) \/ ResponseThrows(r) \/ Respond(r)
       PROVE  StopInv'
  BY <1>10 DEF OnSearchRequest, ResponseThrows, Respond, AssignTimer,
     SendSearchResponse, Answer
<1>11. CASE UNCHANGED vars
  BY <1>11 DEF vars
<1>12. QED
  BY <1>1, <1>2, <1>3, <1>4, <1>5, <1>6, <1>7, <1>8, <1>9, <1>10, <1>11
     DEF Next, StopStep

LEMMA StopInvariant == Spec => []StopInv
<1>1. Init => StopInv
  BY HostAssumption DEF Init, L!Init, L!Threads, L!ListenerAssumption, StopInv,
     MutexOK, PlaceOK, StagesOK, StoppingOK
<1>2. QED
  BY <1>1, StopInvStep, TypeCorrect, PTL DEF Spec

\* A Stop that throws has stopped nothing or finds everything stopped.
THEOREM StopCorrect == Spec => []StopIsAllOrNothing
<1>1. StopInv => StopIsAllOrNothing
  BY DEF StopInv, StagesOK, Intact, Over, StopIsAllOrNothing
<1>2. QED
  BY <1>1, StopInvariant, PTL
-----------------------------------------------------------------------------
\* What a control point sees does not change while the thread of the listener
\* or a Stop of it goes on, but for the end of the process.
LEMMA Unseen ==
  ASSUME running, running' \in BOOLEAN, UNCHANGED <<at, http, wire>>
  PROVE  [Advertised!Next]_(Advertised!vars)
<1>1. CASE running'
  BY <1>1 DEF Phase, Serving, Advertised!vars
<1>2. CASE ~running'
  BY <1>2 DEF Phase, Serving, Advertised!Vanish, Advertised!Host, Advertised!Next
<1>3. QED
  BY <1>1, <1>2

\* DeviceHost implements Advertiser.
THEOREM Refinement == Spec => ImplementsAdvertiser
<1>1. Init => Advertised!Init
  BY DEF Init, L!Init, Phase, Serving, Advertised!Init
<1>2. TypeOK /\ TypeOK' /\ IdleOK /\ StopInv /\ [Next]_vars
        => [Advertised!Next]_(Advertised!vars)
  <2> SUFFICES ASSUME TypeOK, TypeOK', IdleOK, StopInv, [Next]_vars
               PROVE  [Advertised!Next]_(Advertised!vars)
    OBVIOUS
  <2>t. running \in BOOLEAN /\ running' \in BOOLEAN
    BY DEF TypeOK, L!TypeOK
  <2>1. CASE running /\ (Listen \/ Stopping \/ Fails)
    <3>1. UNCHANGED <<at, http, wire>>
      BY <2>1 DEF Listen, Stopping, Fails, host
    <3>2. QED
      BY <2>1, <2>t, <3>1, Unseen
  <2>2. CASE running /\ (Due \/ \E r \in Requests : OnSearchRequest(r)
                         \/ ResponseThrows(r) \/ AssignTimer(r)
                         \/ SendSearchResponse(r))
    <3>1. UNCHANGED <<at, http, wire>>
      BY <2>2 DEF Due, OnSearchRequest, ResponseThrows, AssignTimer,
         SendSearchResponse, host
    <3>2. QED
      BY <2>2, <2>t, <3>1, Unseen
  <2>3. CASE running /\ Start
    <3>1. /\ at = "idle" /\ at' = "listener" /\ http' = "starting"
          /\ wire' = wire /\ running' = running
      BY <2>3 DEF Start, listener
    <3>2. http = "off"
      BY <3>1 DEF IdleOK
    <3>3. Advertised!Start
      BY <2>3, <3>1, <3>2 DEF Phase, Serving, Advertised!Start
    <3>4. QED
      BY <3>3 DEF Advertised!Host, Advertised!Next
  <2>4. CASE running /\ (StartStep \/ Stopped \/ StopThrew \/ DisposeTimer
                         \/ StopListener)
    <3>1. /\ at # "idle" /\ at' # "idle"
          /\ (at \in {"listener", "timer", "started"}
                <=> at' \in {"listener", "timer", "started"})
          /\ http' = http /\ wire' = wire /\ running' = running
      BY <2>4 DEF StartStep, StartListener, StartTimer, Stopped, StopThrew,
         DisposeTimer, StopListener, L!Start, L!Done, L!BeginStop, listener,
         StopInv, PlaceOK
    <3>2. QED
      BY <3>1 DEF Phase, Serving, Advertised!vars
  <2>5. CASE running /\ Bind
    <3>1. /\ http = "starting" /\ http' = "on" /\ at' = at
          /\ wire' = wire /\ running' = running
      BY <2>5 DEF Bind, listener
    <3>2. at # "idle"
      BY <3>1 DEF IdleOK
    <3>3. Advertised!Serve
      BY <2>5, <3>1, <3>2 DEF Phase, Serving, Advertised!Serve
    <3>4. QED
      BY <3>3 DEF Advertised!Host, Advertised!Next
  <2>6. CASE running /\ SayHi
    <3>1. /\ at' = at /\ http' = http /\ running' = running
          /\ wire' = wire \cup {"alive"} /\ at # "idle"
      BY <2>6 DEF SayHi, Send, listener, IdleOK
    <3>2. Advertised!Announce
      BY <2>6, <3>1 DEF Phase, Serving, Advertised!Announce, Advertised!Send
    <3>3. QED
      BY <3>2 DEF Advertised!Host, Advertised!Next
  <2>7. CASE running /\ \E r \in Requests : Answer(r)
    <3>1. /\ at' = at /\ http' = http /\ running' = running
          /\ wire' = wire \cup {"response"} /\ at # "idle"
      BY <2>7 DEF Answer, Send, listener, IdleOK
    <3>2. Advertised!Answer
      BY <2>7, <3>1 DEF Phase, Serving, Advertised!Answer, Advertised!Send
    <3>3. QED
      BY <3>2 DEF Advertised!Host, Advertised!Next
  <2>8. CASE running /\ SayBye
    <3>1. /\ at \in {"started", "stopped", "threw"} /\ at' = "stop"
          /\ http' = http /\ running' = running /\ wire' = wire \cup {"bye"}
      BY <2>8 DEF SayBye, Send, listener
    <3>2. Advertised!SayBye
      BY <2>8, <3>1 DEF Phase, Serving, Advertised!SayBye, Advertised!Send
    <3>3. QED
      BY <3>2 DEF Advertised!Host, Advertised!Next
  <2>9. CASE running /\ StopHttp
    <3>1. /\ at = "http" /\ at' = "dispose" /\ http' = "stopped"
          /\ wire' = wire /\ running' = running
      BY <2>9 DEF StopHttp, listener
    <3>2. http # "stopped"
      BY <3>1 DEF StopInv, StagesOK
    <3>3. Advertised!StopServing
      BY <2>9, <3>1, <3>2 DEF Phase, Serving, Advertised!StopServing
    <3>4. QED
      BY <3>3 DEF Advertised!Host, Advertised!Next
  <2>10. CASE Transmit
    <3>1. UNCHANGED <<at, http, running>>
      BY <2>10 DEF Transmit, listener
    <3>2. \E datagram \in wire : Advertised!Transmit(datagram)
      BY <2>10, <3>1 DEF Transmit, Phase, Serving, Advertised!Transmit
    <3>3. QED
      BY <3>2 DEF Advertised!Next
  <2>11. CASE UNCHANGED vars
    BY <2>11 DEF vars, listener, host, Phase, Serving, Advertised!vars
  <2>12. QED
    BY <2>1, <2>2, <2>3, <2>4, <2>5, <2>6, <2>7, <2>8, <2>9, <2>10, <2>11
       DEF Next, StopStep, Respond
<1>3. QED
  BY <1>1, <1>2, TypeCorrect, IdleInvariant, StopInvariant, PTL
     DEF Spec, ImplementsAdvertiser, Advertised!Spec
=============================================================================
