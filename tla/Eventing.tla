------------------------------ MODULE Eventing ------------------------------
(***************************************************************************)
(* A light and a control point that has subscribed to it: the actions and  *)
(* queries of src/UPnPStack/SoapHandler.cs, the light of                   *)
(* src/SampleDevices/LightDevice.cs, and on the other side the control     *)
(* point's Service (DeviceDescription.cs), EventListener and the window of *)
(* src/DeviceSpy/MainForm.cs.                                              *)
(*                                                                         *)
(* Every host of the light has a web server whose thread serves one        *)
(* request after the other, an action included, and an action ends when    *)
(* each subscriber has answered.  A subscriber answers when its window has *)
(* shown the event; and the window waits, in SUBSCRIBE, UNSUBSCRIBE and    *)
(* queries, for the light's server.                                        *)
(*                                                                         *)
(* The subscriptions are those of the publisher that EventHandler          *)
(* implements (EventPublisher): the steps here add to its steps who asks,  *)
(* who waits, and what value is told.                                      *)
(***************************************************************************)
EXTENDS Naturals, Sequences, Functions

CONSTANTS
  Hosts,    \* the DeviceHosts of the light, each with a web server's thread
  Workers,  \* bound: the threads that invoke actions
  UI,       \* the thread of the control point's window
  Found,    \* Found[c]: the host that caller c has found the light at
  SIDs,     \* bound: the subscriptions; the SID stands for the cookie as well
  NoSID,
  Unknown   \* the text of a node that has not been told a value

Callers == Workers \cup {UI}

ASSUME EventingAssumption ==
  /\ UI \notin Workers
  /\ Found \in [Callers -> Hosts]
  /\ NoSID \notin SIDs
  /\ Hosts \cap SIDs = {}
  /\ Unknown \notin BOOLEAN

VARIABLES
  \* The publisher's: see EventPublisher.
  active, retired, phase, due, told, gone,
  \* The light.
  m_PowerState,    \* its field
  pc,              \* pc[h]: where the server's thread of host h is
  queue,           \* queue[h]: the callers connected to it, the first is served
  value,           \* value[h]: the power state that it tells, till it is done
  init,            \* init[s]: progress of the first event of s
  first,           \* first[s]: the power state that this tells, till it is sent
  running,         \* no exception has ended the light's process
  \* The control point.
  ask,             \* ask[c]: the request that caller c waits for
  window,          \* "idle", "adding" a node, or "closed"
  SubscriptionID,  \* of the Service that the window shows
  nodes,           \* m_ServiceNodes: the subscriptions with a node in the tree
  created,         \* the event view has been shown, and has a handle
  shown,           \* the text of the variable's node
  inbox,           \* the NOTIFYs at the listener, the first is being handled
  listener,        \* where the listener's thread is in OnEvent
  hanging,         \* who waits at a connection that nobody serves or closes
  \* History.
  blurred          \* the last change was told while another was, or not to all

publisher == <<active, retired, phase, due, told, gone>>
light     == <<m_PowerState, pc, queue, value, init, first, running>>
tree      == <<SubscriptionID, nodes, created>>
display   == <<window, tree, shown>>
event     == <<inbox, listener, hanging>>
vars      == <<publisher, light, ask, display, event, blurred>>

P == INSTANCE EventPublisher WITH Threads <- Hosts

Init ==
  /\ P!Init
  /\ m_PowerState = FALSE
  /\ pc = [h \in Hosts |-> "accept"]
  /\ queue = [h \in Hosts |-> <<>>]
  /\ value = [h \in Hosts |-> FALSE]
  /\ init = [s \in SIDs |-> "none"]
  /\ first = [s \in SIDs |-> FALSE]
  /\ running = TRUE
  /\ ask = [c \in Callers |-> "none"]
  /\ window = "idle"
  /\ SubscriptionID = NoSID /\ nodes = {} /\ created = FALSE
  /\ shown = Unknown
  /\ inbox = <<>> /\ listener = "idle" /\ hanging = {}
  /\ blurred = FALSE

-----------------------------------------------------------------------------
(* The callers: a request waits for its answer, with no timeout.           *)

Call(c, request) ==
  /\ ask[c] = "none"
  /\ ask' = [ask EXCEPT ![c] = request]
  /\ queue' = [queue EXCEPT ![Found[c]] = Append(@, c)]
  /\ UNCHANGED <<publisher, m_PowerState, pc, value, init, first, running,
                 display, event, blurred>>

\* InnerInvoke of an InvokeActionForm, on a thread of its own.  (Bound: nothing
\* is invoked once the window is closed.)
Invoke(w) == window # "closed" /\ Call(w, "switch")

\* The window takes input, and what other threads have for it.
Free == window = "idle" /\ ask[UI] = "none"

\* SubscribeToEvents and QueryStateVariable, on the window's thread.
Click ==
  /\ Free
  /\ \/ /\ SubscriptionID = NoSID
        /\ SIDs \ (active \cup retired) # {}  \* bound
        /\ Call(UI, "subscribe")
     \/ SubscriptionID # NoSID /\ Call(UI, "unsubscribe")
     \/ Call(UI, "query")

\* FormClosed: the thread of the listener is aborted and its socket closed, and
\* what the window kept is gone with it.  The connections that wait to be
\* accepted are reset; the one that the thread has accepted stays open
\* (HTTPServer's AtMostOneHangs), and who sent that event hangs.
CloseWindow ==
  /\ Free
  /\ window' = "closed"
  /\ SubscriptionID' = NoSID /\ nodes' = {} /\ created' = FALSE
  /\ shown' = Unknown
  /\ inbox' = <<>> /\ listener' = "ended"
  /\ \/ listener = "idle" /\ hanging' = {}
     \/ inbox # <<>> /\ hanging' = {Head(inbox).from}
  /\ UNCHANGED <<publisher, light, ask, blurred>>

\* The control point's process ends, or finalizes the socket that nothing refers
\* to any more.  Nothing makes either happen: the thread of an InvokeActionForm
\* keeps the process.
ConnectionEnds(f) ==
  /\ f \in hanging
  /\ hanging' = hanging \ {f}
  /\ UNCHANGED <<publisher, light, ask, display, inbox, listener, blurred>>

-----------------------------------------------------------------------------
(* The thread of a host's web server.                                      *)

Serves(h, request) ==
  /\ pc[h] = "accept"
  /\ queue[h] # <<>>
  /\ ask[Head(queue[h])] = request

Goto(h, label) == pc' = [pc EXCEPT ![h] = label]

\* Mutant of Answer: the connection stays.
AnswerKeeps(h) ==
  /\ ask' = [ask EXCEPT ![Head(queue[h])] = "none"]
  /\ UNCHANGED queue

\* The caller has its answer, and the next one is served.
Answer(h) ==
  /\ ask' = [ask EXCEPT ![Head(queue[h])] = "none"]
  /\ queue' = [queue EXCEPT ![h] = Tail(@)]

\* DoSoapAction, and the light's Switch up to FireStateChanged, with the
\* argument of the request.
Switch(h) ==
  /\ Serves(h, "switch")
  /\ m_PowerState' \in BOOLEAN
  /\ Goto(h, "fire")
  /\ UNCHANGED <<publisher, queue, value, init, first, running, ask, display,
                 event, blurred>>

\* Someone is telling a value, which may be older than that of h.
OthersTell(h) ==
  \/ \E g \in Hosts \ {h} : phase[g] = "telling"
  \/ \E s \in SIDs : init[s] \in {"send", "await"}

\* Mutant of Fire: the property is read before it is set.
FireBefore(h) ==
  /\ pc[h] = "fire"
  /\ value' = [value EXCEPT ![h] = ~m_PowerState]
  /\ P!BeginReport(h, active)
  /\ Goto(h, "notify")
  /\ blurred' = OthersTell(h)
  /\ UNCHANGED <<m_PowerState, queue, init, first, running, ask, display,
                 event>>

\* FireStateChanged reads the property; the subscribers are notified in turn.
Fire(h) ==
  /\ pc[h] = "fire"
  /\ value' = [value EXCEPT ![h] = m_PowerState]
  /\ P!BeginReport(h, active)
  /\ Goto(h, "notify")
  /\ blurred' = OthersTell(h)
  /\ UNCHANGED <<m_PowerState, queue, init, first, running, ask, display,
                 event>>

Notify(h, s) ==
  /\ pc[h] = "notify"
  /\ window # "closed"
  /\ s \in active
  /\ P!Tell(h, s)
  /\ inbox' = Append(inbox, [from |-> h, sid |-> s, value |-> value[h]])
  /\ Goto(h, "await")
  /\ UNCHANGED <<m_PowerState, queue, value, init, first, running, ask,
                 display, listener, hanging, blurred>>

Notified(h) ==
  /\ pc[h] = "notify"
  /\ P!Succeed(h)
  /\ Goto(h, "respond")
  /\ UNCHANGED <<m_PowerState, queue, value, init, first, running, ask,
                 display, event, blurred>>

\* The list changed under the walk, or the subscriber is gone and the connection
\* to it refused or reset: the exception passes through Switch, which has set the
\* light, and is answered 500.
NotifyFails(h) ==
  /\ \/ pc[h] = "notify" /\ active # due[h]
     \/ pc[h] = "notify" /\ active \ told[h] # {} /\ window = "closed"
     \/ pc[h] = "await" /\ window = "closed" /\ h \notin hanging
  /\ P!Fail(h)
  /\ Goto(h, "respond")
  /\ blurred' = TRUE
  /\ UNCHANGED <<m_PowerState, queue, value, init, first, running, ask,
                 display, event>>

\* Mutant of Respond: a fault is not answered.
RespondIfOk(h) ==
  /\ pc[h] = "respond"
  /\ phase[h] = "ok"
  /\ P!Close(h)
  /\ Answer(h)
  /\ Goto(h, "accept")
  /\ value' = [value EXCEPT ![h] = FALSE]
  /\ UNCHANGED <<m_PowerState, init, first, running, display, event,
                 blurred>>

Respond(h) ==
  /\ pc[h] = "respond"
  /\ P!Close(h)
  /\ Answer(h)
  /\ Goto(h, "accept")
  /\ value' = [value EXCEPT ![h] = FALSE]
  /\ UNCHANGED <<m_PowerState, init, first, running, display, event,
                 blurred>>

\* DoSoapQueryStateVariable, and QueryStateVariable of the window.
Query(h) ==
  /\ Serves(h, "query")
  /\ shown' = m_PowerState
  /\ Answer(h)
  /\ UNCHANGED <<publisher, m_PowerState, pc, value, init, first, running,
                 window, tree, event, blurred>>

\* The subscription is in force before the window has a node for it.
Subscribe(h, s) ==
  /\ Serves(h, "subscribe")
  /\ P!Accept(s)
  /\ init' = [init EXCEPT ![s] = "armed"]
  /\ SubscriptionID' = s
  /\ window' = "adding"
  /\ Answer(h)
  /\ UNCHANGED <<m_PowerState, pc, value, first, running, nodes, created, shown,
                 event, blurred>>

\* AddServiceNode, and the event view appears.
AddNode ==
  /\ window = "adding"
  /\ window' = "idle"
  /\ nodes' = nodes \cup {SubscriptionID}
  /\ created' = TRUE
  /\ UNCHANGED <<publisher, light, ask, SubscriptionID, shown, event, blurred>>

\* UNSUBSCRIBE is refused if the subscription has expired, which the control
\* point does not look at.
Unsubscribe(h) ==
  /\ Serves(h, "unsubscribe")
  /\ \/ P!Retire(SubscriptionID)
     \/ SubscriptionID \notin active /\ UNCHANGED publisher
  /\ SubscriptionID' = NoSID
  /\ nodes' = nodes \ {SubscriptionID}
  /\ Answer(h)
  /\ UNCHANGED <<m_PowerState, pc, value, init, first, running, window, created,
                 shown, event, blurred>>

\* The control point never renews.
Expire(s) ==
  /\ P!Retire(s)
  /\ UNCHANGED <<light, ask, display, event, blurred>>

-----------------------------------------------------------------------------
(* SendInitEvent, on the timer of subscription s.                          *)

InitRead(s) ==
  /\ init[s] = "armed"
  /\ init' = [init EXCEPT ![s] = "send"]
  /\ first' = [first EXCEPT ![s] = m_PowerState]
  /\ UNCHANGED <<publisher, m_PowerState, pc, queue, value, running, ask,
                 display, event, blurred>>

InitSend(s) ==
  /\ init[s] = "send"
  /\ window # "closed"
  /\ init' = [init EXCEPT ![s] = "await"]
  /\ inbox' = Append(inbox, [from |-> s, sid |-> s, value |-> first[s]])
  /\ first' = [first EXCEPT ![s] = FALSE]
  /\ UNCHANGED <<publisher, m_PowerState, pc, queue, value, running, ask,
                 display, listener, hanging, blurred>>

\* The subscriber is gone, and nothing catches what that throws.
InitFails(s) ==
  /\ \/ init[s] = "send"
     \/ init[s] = "await" /\ s \notin hanging
  /\ window = "closed"
  /\ running' = FALSE
  /\ UNCHANGED <<publisher, m_PowerState, pc, queue, value, init, first, ask,
                 display, event, blurred>>

-----------------------------------------------------------------------------
(* EventListener.Handle and OnEvent, on the listener's thread.             *)

\* Who sent the event goes on.
Reply ==
  LET from == Head(inbox).from IN
    /\ inbox' = Tail(inbox)
    /\ listener' = "idle"
    /\ UNCHANGED hanging
    /\ IF from \in Hosts THEN Goto(from, "notify") /\ UNCHANGED init
       ELSE init' = [init EXCEPT ![from] = "done"] /\ UNCHANGED pc

\* m_EventView.Items.Add sends the view a message, if it has a handle, and
\* waits until the window's thread takes it.
AddItem ==
  /\ listener = "idle"
  /\ inbox # <<>>
  /\ created => Free
  /\ listener' = "lookup"
  /\ UNCHANGED <<publisher, light, ask, display, inbox, hanging, blurred>>

\* GetServiceNode: an event may come before its node.
Lookup ==
  /\ listener = "lookup"
  /\ \/ /\ Head(inbox).sid \in nodes
        /\ listener' = "text"
        /\ UNCHANGED <<inbox, hanging, pc, init, blurred>>
     \/ /\ Head(inbox).sid \notin nodes
        /\ blurred' = (blurred \/ Head(inbox).sid \in active)
        /\ Reply
  /\ UNCHANGED <<publisher, m_PowerState, queue, value, first, running, ask,
                 display>>

\* "varNode.Text=" waits for the window's thread too.
SetText ==
  /\ listener = "text"
  /\ Free
  /\ shown' = Head(inbox).value
  /\ Reply
  /\ UNCHANGED <<publisher, m_PowerState, queue, value, first, running, ask,
                 window, tree, blurred>>

-----------------------------------------------------------------------------
ServerStep(h) ==
  \/ Switch(h) \/ Fire(h) \/ Notified(h) \/ NotifyFails(h)
  \/ Respond(h) \/ Query(h) \/ Unsubscribe(h)
  \/ \E s \in SIDs : Notify(h, s) \/ Subscribe(h, s)

TimerStep(s) == InitRead(s) \/ InitSend(s) \/ InitFails(s)

Shows == AddItem \/ SetText

Next ==
  /\ running
  /\ \/ \E w \in Workers : Invoke(w)
     \/ Click \/ CloseWindow \/ AddNode
     \/ \E h \in Hosts : ServerStep(h)
     \/ \E s \in SIDs : TimerStep(s) \/ Expire(s)
     \/ Shows \/ Lookup
     \/ \E f \in hanging : ConnectionEnds(f)

Spec == Init /\ [][Next]_vars

\* Threads are scheduled, timers fire, and the window's thread takes the
\* messages that other threads have sent it (strong fairness: between two
\* clicks it looks at them first).  Nobody needs to call, click or close, and a
\* connection that hangs need not end.
Fairness ==
  /\ \A h \in Hosts : WF_vars(running /\ ServerStep(h))
  /\ \A s \in SIDs : WF_vars(running /\ TimerStep(s))
  /\ WF_vars(running /\ Lookup)
  /\ WF_vars(running /\ AddNode)
  /\ SF_vars(running /\ Shows)

FairSpec == Spec /\ Fairness

-----------------------------------------------------------------------------
(* Properties.                                                             *)

Requests == {"switch", "subscribe", "unsubscribe", "query"}

Events == [from : Hosts \cup SIDs, sid : SIDs, value : BOOLEAN]

\* The connections are those of the callers that wait.
QueuesOK ==
  \A h \in Hosts :
    /\ IsInjective(queue[h])
    /\ Range(queue[h]) = {c \in Callers : Found[c] = h /\ ask[c] # "none"}

\* Every variable keeps its type, and the queues are those of the callers:
\* one thread serves the connections of a host, in their order.
TypeOK ==
  /\ active \subseteq SIDs /\ retired \subseteq SIDs
  /\ phase \in [Hosts -> {"idle", "telling", "ok", "fault"}]
  /\ due \in [Hosts -> SUBSET SIDs]
  /\ told \in [Hosts -> SUBSET SIDs]
  /\ gone \in [Hosts -> SUBSET SIDs]
  /\ m_PowerState \in BOOLEAN
  /\ pc \in [Hosts -> {"accept", "fire", "notify", "await", "respond"}]
  /\ queue \in [Hosts -> Seq(Callers)]
  /\ QueuesOK
  /\ value \in [Hosts -> BOOLEAN]
  /\ init \in [SIDs -> {"none", "armed", "send", "await", "done"}]
  /\ first \in [SIDs -> BOOLEAN]
  /\ running \in BOOLEAN
  /\ ask \in [Callers -> Requests \cup {"none"}]
  /\ window \in {"idle", "adding", "closed"}
  /\ SubscriptionID \in SIDs \cup {NoSID}
  /\ nodes \subseteq SIDs
  /\ created \in BOOLEAN
  /\ shown \in BOOLEAN \cup {Unknown}
  /\ inbox \in Seq(Events)
  /\ listener \in {"idle", "lookup", "text", "ended"}
  /\ hanging \subseteq Hosts \cup SIDs
  /\ blurred \in BOOLEAN

\* No change or first event is on its way.
Quiet ==
  /\ \A h \in Hosts : pc[h] \in {"accept", "respond"}
  /\ \A s \in SIDs : init[s] \in {"none", "done"}
  /\ window # "closed"

\* When all is quiet, the tree shows a subscriber the light as it is, though
\* two servers switch it and timers and queries bring values as well.  It is
\* stale only if two values were told at the same time (SEQ is always 0, and
\* the later one may be the older), if a report failed, or if an event came
\* before its node.
ShownIsCurrent ==
  Quiet /\ ~blurred =>
    \A s \in nodes \cap active : shown = m_PowerState

\* The window waits for a server that waits for the listener to answer, which
\* waits for the window.
Circle ==
  /\ ask[UI] # "none"
  /\ pc[Found[UI]] = "await"
  /\ listener = "text" \/ (listener = "idle" /\ inbox # <<>> /\ created)

\* Every call is answered, though servers wait for subscribers and those for
\* their windows, unless it comes to that circle, or the window was closed while
\* its listener was at the event that the server waits for.  Nothing breaks the
\* circle: neither end has a timeout, and the window can neither cancel nor close.
CallsEnd ==
  /\ \A c \in Callers :
       []<>(ask[c] = "none" \/ Circle \/ Found[c] \in hanging \/ ~running)
  /\ [][Circle => Circle']_vars
=============================================================================
