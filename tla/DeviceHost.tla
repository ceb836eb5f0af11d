----------------------------- MODULE DeviceHost -----------------------------
(***************************************************************************)
(* The host of a root device (src/UPnPStack/DeviceHost.cs): Start starts   *)
(* its HTTPServer, its listener of searches and the timer that advertises; *)
(* Stop says byebye and stops them, in this order.  The thread Main calls  *)
(* both.  A search is answered by a timer of its own, after a random       *)
(* delay that may be 0.                                                    *)
(*                                                                         *)
(* Of the three messages of SayHi and of SayBye only the first,            *)
(* "upnp:rootdevice", is read by a control point: it stands for the three. *)
(***************************************************************************)
EXTENDS Naturals

CONSTANTS
  Main,             \* the thread that calls Start and Stop
  Listener,         \* the thread of the SSDP listener
  None, Abandoned,
  Requests,         \* bound: the searches that come in
  Failures          \* bound: whether a send or a bind may fail

VARIABLES
  ProcessingMutex, owner, socket, pc, running,  \* of the listener
  at,                \* where Main is in the host
  http,              \* the HTTPServer: "off", "starting", "on" or "stopped"
  m_AdvertiseTimer,  \* "null", "set" or "disposed"
  pass,              \* the callback ReAdvertise: "idle" or "send"
  item,              \* item[r]: progress of the response to search r
  wire               \* the datagrams in flight

L == INSTANCE HTTPUDPListener WITH Callers <- {Main}, HandlersStop <- FALSE

ASSUME HostAssumption ==
  /\ L!ListenerAssumption
  /\ Failures \in BOOLEAN

listener == <<ProcessingMutex, owner, socket, pc, running>>
host     == <<at, http, m_AdvertiseTimer, pass, item, wire>>
vars     == <<listener, host>>

Send(datagram) == wire' = wire \cup {datagram}

Init ==
  /\ L!Init
  /\ at = "idle"
  /\ http = "off"
  /\ m_AdvertiseTimer = "null"
  /\ pass = "idle"
  /\ item = [r \in Requests |-> "none"]
  /\ wire = {}

-----------------------------------------------------------------------------
(* Start, and the thread of the HTTPServer.                                *)

Start ==
  /\ at = "idle"
  /\ at' = "listener"
  /\ http' = "starting"
  /\ UNCHANGED <<listener, m_AdvertiseTimer, pass, item, wire>>

StartListener ==
  /\ at = "listener"
  /\ L!Start
  /\ at' = "timer"
  /\ UNCHANGED <<http, m_AdvertiseTimer, pass, item, wire>>

StartTimer ==
  /\ at = "timer"
  /\ m_AdvertiseTimer' = "set"
  /\ at' = "started"
  /\ UNCHANGED <<listener, http, pass, item, wire>>

\* DoListen binds the port, on its own thread.
Bind ==
  /\ http = "starting"
  /\ http' = "on"
  /\ UNCHANGED <<listener, at, m_AdvertiseTimer, pass, item, wire>>

-----------------------------------------------------------------------------
(* ReAdvertise, on a pool thread.                                          *)

Due ==
  /\ m_AdvertiseTimer = "set"
  /\ pass = "idle"
  /\ pass' = "send"
  /\ UNCHANGED <<listener, at, http, m_AdvertiseTimer, item, wire>>

SayHi ==
  /\ pass = "send"
  /\ Send("alive")
  /\ pass' = "idle"
  /\ UNCHANGED <<listener, at, http, m_AdvertiseTimer, item>>

-----------------------------------------------------------------------------
(* OnSearchRequest, a handler of the listener, and SendSearchResponse, on  *)
(* a pool thread.                                                          *)

\* new Timer(...): its callback may begin before item.Timer is assigned.
OnSearchRequest(r) ==
  /\ pc[Listener] = "handle"
  /\ \A other \in Requests : item[other] # "armed"
  /\ item[r] = "none"
  /\ item' = [item EXCEPT ![r] = "armed"]
  /\ UNCHANGED <<listener, at, http, m_AdvertiseTimer, pass, wire>>

AssignTimer(r) ==
  /\ item[r] = "armed"
  /\ item' = [item EXCEPT ![r] = "set"]
  /\ UNCHANGED <<listener, at, http, m_AdvertiseTimer, pass, wire>>

\* Mutant of SendSearchResponse: the timer goes on, the response is sent again.
SendSearchResponseTwice(r) ==
  /\ item[r] = "set"
  /\ item' = [item EXCEPT ![r] = "send again"]
  /\ UNCHANGED <<listener, at, http, m_AdvertiseTimer, pass, wire>>

\* item.Timer.Dispose().
SendSearchResponse(r) ==
  /\ item[r] = "set"
  /\ item' = [item EXCEPT ![r] = "send"]
  /\ UNCHANGED <<listener, at, http, m_AdvertiseTimer, pass, wire>>

\* item.Timer is null still.
ResponseThrows(r) ==
  /\ item[r] = "armed"
  /\ running' = FALSE
  /\ UNCHANGED <<ProcessingMutex, owner, socket, pc, host>>

Answer(r) ==
  /\ item[r] = "send"
  /\ Send("response")
  /\ item' = [item EXCEPT ![r] = "sent"]
  /\ UNCHANGED <<listener, at, http, m_AdvertiseTimer, pass>>

\* DoListen: the handler, if this is a search, is done.
Listen ==
  /\ \/ L!CreateMutex \/ L!Receive \/ L!Enter \/ L!Unblock
     \/ (\A r \in Requests : item[r] # "armed") /\ L!Leave
  /\ UNCHANGED host

-----------------------------------------------------------------------------
(* Stop.                                                                   *)

\* Mutant of SayBye: it is not said.
SayNothing ==
  /\ at \in {"started", "stopped", "threw"}
  /\ at' = "stop"
  /\ UNCHANGED <<listener, http, m_AdvertiseTimer, pass, item, wire>>

\* Stop may be called again, after it returned or threw.  A send that throws
\* leaves everything as it was.
SayBye ==
  /\ at \in {"started", "stopped", "threw"}
  /\ Send("bye")
  /\ at' = "stop"
  /\ UNCHANGED <<listener, http, m_AdvertiseTimer, pass, item>>

\* Mutant of StopListener: the HTTPServer is stopped first.
StopHttpFirst ==
  /\ at = "stop"
  /\ L!BeginStop(Main)
  /\ http' = "stopped"
  /\ at' = "stopping"
  /\ UNCHANGED <<m_AdvertiseTimer, pass, item, wire>>

StopListener ==
  /\ at = "stop"
  /\ L!BeginStop(Main)
  /\ at' = "stopping"
  /\ UNCHANGED <<http, m_AdvertiseTimer, pass, item, wire>>

\* In HTTPUDPListener.Stop.
Stopping ==
  /\ L!Wait(Main) \/ L!StopStep(Main)
  /\ UNCHANGED host

Stopped ==
  /\ pc[Main] = "stopped"
  /\ L!Done(Main)
  /\ at' = "http"
  /\ UNCHANGED <<http, m_AdvertiseTimer, pass, item, wire>>

StopThrew ==
  /\ pc[Main] = "threw"
  /\ L!Done(Main)
  /\ at' = "threw"
  /\ UNCHANGED <<http, m_AdvertiseTimer, pass, item, wire>>

StopHttp ==
  /\ at = "http"
  /\ http' = "stopped"
  /\ at' = "dispose"
  /\ UNCHANGED <<listener, m_AdvertiseTimer, pass, item, wire>>

\* Mutant of DisposeTimer: the timer is left.
DisposeNothing ==
  /\ at = "dispose"
  /\ at' = "stopped"
  /\ UNCHANGED <<listener, http, m_AdvertiseTimer, pass, item, wire>>

\* A callback that has begun goes on.
DisposeTimer ==
  /\ at = "dispose"
  /\ m_AdvertiseTimer' = "disposed"
  /\ at' = "stopped"
  /\ UNCHANGED <<listener, http, pass, item, wire>>

-----------------------------------------------------------------------------
\* The port is taken, or the network is down: the exception leaves the thread
\* of the server, of the timer or of the response.
Fails ==
  /\ Failures
  /\ \/ http = "starting"
     \/ pass = "send"
     \/ \E r \in Requests : item[r] = "send"
  /\ running' = FALSE
  /\ UNCHANGED <<ProcessingMutex, owner, socket, pc, host>>

\* The network delivers a datagram, or loses it.
Transmit ==
  /\ \E datagram \in wire : wire' = wire \ {datagram}
  /\ UNCHANGED <<listener, at, http, m_AdvertiseTimer, pass, item>>

StartStep == StartListener \/ StartTimer

StopStep == StopListener \/ Stopped \/ StopThrew \/ StopHttp \/ DisposeTimer

Respond(r) == AssignTimer(r) \/ SendSearchResponse(r) \/ Answer(r)

Next ==
  \/ /\ running
     /\ \/ Start \/ StartStep \/ Bind \/ Due \/ SayHi \/ Listen
        \/ SayBye \/ StopStep \/ Stopping \/ Fails
        \/ \E r \in Requests :
             OnSearchRequest(r) \/ ResponseThrows(r) \/ Respond(r)
  \/ Transmit

Spec == Init /\ [][Next]_vars

\* Threads are scheduled and timers are due; the mutex is granted to who waits.
\* Datagrams need not come, and nobody need call Start or Stop.
Fairness ==
  /\ WF_vars(running /\ StartStep)
  /\ WF_vars(running /\ Bind)
  /\ WF_vars(running /\ Due) /\ WF_vars(running /\ SayHi)
  /\ \A r \in Requests : WF_vars(running /\ Respond(r))
  /\ WF_vars(running /\ L!CreateMutex /\ UNCHANGED host)
  /\ WF_vars(running /\ (\A r \in Requests : item[r] # "armed") /\ L!Leave
               /\ UNCHANGED host)
  /\ WF_vars(running /\ StopStep)
  /\ SF_vars(running /\ Stopping)

FairSpec == Spec /\ Fairness

-----------------------------------------------------------------------------
(* Properties.                                                             *)

\* The host, its timer and its HTTPServer keep their types, and so does the
\* listener that the host drives (lines 21 to 96).
TypeOK ==
  /\ L!TypeOK
  /\ at \in {"idle", "listener", "timer", "started", "stop", "stopping", "http",
             "dispose", "stopped", "threw"}
  /\ http \in {"off", "starting", "on", "stopped"}
  /\ m_AdvertiseTimer \in {"null", "set", "disposed"}
  /\ pass \in {"idle", "send"}
  /\ item \in [Requests -> {"none", "armed", "set", "send", "sent"}]
  /\ wire \subseteq {"alive", "response", "bye"}

\* A Stop that throws has stopped nothing, or finds everything stopped: the
\* listener, the HTTPServer and the timer (lines 91 to 95) are never left half
\* stopped.
StopIsAllOrNothing ==
  at = "threw" =>
    \/ socket = "open" /\ http # "stopped" /\ m_AdvertiseTimer = "set"
    \/ socket = "closed" /\ http = "stopped" /\ m_AdvertiseTimer = "disposed"

\* What a control point sees of the host.
Phase ==
  IF ~running THEN "gone"
  ELSE IF at = "idle" THEN "off"
  ELSE IF at \in {"listener", "timer", "started"} THEN "up"
  ELSE "leaving"

Serving ==
  IF ~running \/ http = "stopped" THEN "no more"
  ELSE IF http = "on" THEN "yes"
  ELSE "not yet"

Advertised == INSTANCE Advertiser WITH phase <- Phase, serving <- Serving

\* DeviceHost implements Advertiser, whatever its threads, timers and callbacks
\* do in whatever order.
ImplementsAdvertiser == Advertised!Spec

Quiet == pass = "idle" /\ \A r \in Requests : item[r] \in {"none", "sent"}

\* The first announcement may come before the port is bound; a host that stays
\* started announces itself again when it serves (lines 100 to 113).  A host
\* whose Stop returned says, in the end, nothing more: no advertisement, no
\* response to a search (line 95).
AnnouncedWhileServed ==
  /\ at = "started" ~> \/ pass = "send" /\ http = "on"
                       \/ at # "started" \/ ~running
  /\ at = "stopped" ~> [](Quiet \/ ~running)

-----------------------------------------------------------------------------
(* "maximum delay is mx-1" (line 203): a search is answered in time.       *)
SearchAnswered == \A r \in Requests : item[r] = "armed" ~> item[r] = "sent"
=============================================================================
