---------------------------- MODULE EventHandler ----------------------------
(***************************************************************************)
(* The GENA event publisher of a hosted device                             *)
(* (src/UPnPStack/EventHandler.cs).                                        *)
(*                                                                         *)
(* One EventHandler keeps the list m_Subscriptions, an ArrayList guarded   *)
(* by no lock, and four kinds of threads use it:                           *)
(*   - Http, the thread of the device's HTTPServer, which runs Handle      *)
(*     (SUBSCRIBE, renewal, UNSUBSCRIBE) and, through SoapHandler, the     *)
(*     device's own methods, which fire OnStateChanged;                    *)
(*   - Firers, the threads that fire OnStateChanged: Http and others, for  *)
(*     a device hosted by two DeviceHosts (src/SampleDevices/App.cs) is    *)
(*     called by the HTTP threads of both, and each walks both lists;      *)
(*   - the refresh timer, which ages the subscriptions;                    *)
(*   - one one-shot timer per subscription, which sends its first event.   *)
(*                                                                         *)
(* The ArrayList counts its modifications in "version"; an enumerator      *)
(* remembers the count it started from and MoveNext throws as soon as the  *)
(* two differ.  An exception that leaves a timer callback ends the process *)
(* (UPnPStack.csproj targets .NET 2.0).                                    *)
(*                                                                         *)
(* A call of Add, Remove or MoveNext is one step.                          *)
(***************************************************************************)
EXTENDS Integers, Sequences, SequencesExt

CONSTANTS
  Devices,            \* the devices inserted with InsertDevice
  Services,           \* their services
  ServicesOf,         \* ServicesOf[d]: the services of device d, in order
  Evented,            \* the services with an evented state variable
  NoService,          \* a ServiceID that names no service
  SIDs,               \* bound: the GUIDs that subscriptions can draw
  NoSID,              \* a SID header that no subscription ever had
  Http,               \* the thread of the HTTP server
  Firers,             \* the threads that fire OnStateChanged
  DefaultExpiration,  \* lifetime of a subscription, in seconds
  RefreshPeriod,      \* period of the refresh timer, in seconds
  Calls,              \* bound: the calls that threads make
  Collector           \* bound: whether the garbage collector runs

Threads == {Http} \cup Firers

\* "fireEmpty" is a change none of whose named properties can be read.
AllCalls == {"bad", "subscribe", "renew", "unsubscribe", "fire", "fireEmpty"}

ASSUME ConstantsAssumption ==
  /\ Devices # {}
  /\ ServicesOf \in [Devices -> Seq(Services)]
  /\ \A d \in Devices : \A i, j \in DOMAIN ServicesOf[d] :
        ServicesOf[d][i] = ServicesOf[d][j] => i = j
  /\ Evented \subseteq Services
  /\ NoService \notin Services
  /\ NoSID \notin SIDs
  /\ DefaultExpiration \in Nat \ {0}
  /\ RefreshPeriod \in Nat \ {0}
  /\ Calls \subseteq AllCalls
  /\ Collector \in BOOLEAN

VARIABLES
  m_Subscriptions,  \* the list: a sequence of SIDs
  version,          \* the modification count of the list
  ServiceID,        \* ServiceID[s]: the service that s subscribes to
  TimeLeftToExpire, \* TimeLeftToExpire[s], in seconds
  init,             \* init[s]: progress of the first event of s
  pc,               \* pc[t]: where thread t is
  op,               \* op[t]: the call it executes
  outcome,          \* outcome[t]: how that call ended
  sid,              \* sid[t]: the SID it looks up or notifies
  dev,              \* dev[t]: the device whose change it reports
  svc,              \* svc[t]: index in ServicesOf[dev[t]] of its outer loop
  pos,              \* pos[t]: its enumerator's position in m_Subscriptions
  ver,              \* ver[t]: the version its enumerator started from
  rpc,              \* where the refresh callback is
  rpos,             \* its enumerator's position
  rver,             \* its enumerator's version
  rsid,             \* the item it is at
  rleft,            \* the TimeLeftToExpire it read
  timerAlive,       \* the refresh timer has not been collected
  running,          \* the process has not been ended by an exception
  told,             \* history: SIDs its current change was delivered to
  atStart,          \* history: SIDs listed when its current change began
  gone,             \* history: SIDs that had left the list by then
  ended             \* history: SIDs whose unsubscription was accepted

list    == <<m_Subscriptions, version>>
items   == <<ServiceID, TimeLeftToExpire>>
enum    == <<pos, ver>>
calls   == <<pc, op, outcome, sid, dev, svc, enum>>
refresh == <<rpc, rpos, rver, rsid, rleft>>
hist    == <<told, atStart, gone, ended>>
store   == <<list, items, init>>
threads == <<calls, hist>>
process == <<timerAlive, running>>
vars    == <<store, threads, refresh, process>>

-----------------------------------------------------------------------------
(* The list and its enumerators.                                           *)

Listed(s) == \E i \in 1 .. Len(m_Subscriptions) : m_Subscriptions[i] = s

Created(s) == init[s] # "none"

Active  == {s \in SIDs : Listed(s)}
Retired == {s \in SIDs : Created(s) /\ ~Listed(s)}

\* MoveNext of an enumerator at position p that started from version v throws,
\* reports the end, or yields Current(p).
Throws(v)    == v # version
AtEnd(p, v)  == v = version /\ p = Len(m_Subscriptions)
Yields(p, v) == v = version /\ p < Len(m_Subscriptions)
Current(p)   == m_Subscriptions[p + 1]

ListAdd(s) ==
  /\ m_Subscriptions' = Append(m_Subscriptions, s)
  /\ version' = version + 1

\* Remove deletes the first occurrence, and does nothing if there is none.
ListRemove(s) ==
  \/ \E i \in 1 .. Len(m_Subscriptions) :
       /\ m_Subscriptions[i] = s
       /\ \A j \in 1 .. i - 1 : m_Subscriptions[j] # s
       /\ m_Subscriptions' = RemoveAt(m_Subscriptions, i)
       /\ version' = version + 1
  \/ ~Listed(s) /\ UNCHANGED list

-----------------------------------------------------------------------------
NoDevice == CHOOSE d \in Devices : TRUE

Init ==
  /\ m_Subscriptions = <<>>
  /\ version = 0
  /\ ServiceID = [s \in SIDs |-> NoService]
  /\ TimeLeftToExpire = [s \in SIDs |-> 0]
  /\ init = [s \in SIDs |-> "none"]
  /\ pc = [t \in Threads |-> "idle"]
  /\ op = [t \in Threads |-> "none"]
  /\ outcome = [t \in Threads |-> "none"]
  /\ sid = [t \in Threads |-> NoSID]
  /\ dev = [t \in Threads |-> NoDevice]
  /\ svc = [t \in Threads |-> 0]
  /\ pos = [t \in Threads |-> 0]
  /\ ver = [t \in Threads |-> 0]
  /\ rpc = "idle" /\ rpos = 0 /\ rver = 0 /\ rsid = NoSID /\ rleft = 0
  /\ timerAlive = TRUE
  /\ running = TRUE
  /\ told = [t \in Threads |-> {}]
  /\ atStart = [t \in Threads |-> {}]
  /\ gone = [t \in Threads |-> {}]
  /\ ended = {}

Goto(t, label) == pc' = [pc EXCEPT ![t] = label]

\* GetEnumerator.
Enumerate(t) ==
  /\ pos' = [pos EXCEPT ![t] = 0]
  /\ ver' = [ver EXCEPT ![t] = version]

Begin(t, o, label) ==
  /\ o \in Calls
  /\ running
  /\ pc[t] = "idle"
  /\ Goto(t, label)
  /\ op' = [op EXCEPT ![t] = o]

\* The call of t ends: "ok", or "fault" when an exception reached its caller.
Return(t, result) ==
  /\ Goto(t, "return")
  /\ outcome' = [outcome EXCEPT ![t] = result]

-----------------------------------------------------------------------------
(* EventHandler.Handle, on the HTTP thread.                                *)

\* A header is missing, the method is another, or the service is unknown.
BadRequest ==
  /\ Begin(Http, "bad", "return")
  /\ outcome' = [outcome EXCEPT ![Http] = "fault"]
  /\ UNCHANGED <<store, sid, dev, svc, enum, refresh, process, hist>>

Subscribe(service, s) ==
  /\ ~Created(s)
  /\ Begin(Http, "subscribe", "return")
  /\ outcome' = [outcome EXCEPT ![Http] = "ok"]
  /\ ServiceID' = [ServiceID EXCEPT ![s] = service]
  /\ TimeLeftToExpire' = [TimeLeftToExpire EXCEPT ![s] = DefaultExpiration]
  /\ ListAdd(s)
  /\ init' = [init EXCEPT ![s] = "armed"]
  /\ UNCHANGED <<sid, dev, svc, enum, refresh, process, hist>>

\* Resubscribe and RemoveSubscription both walk the list for the SID.
BeginLookup(o, s) ==
  /\ Begin(Http, o, "lookup")
  /\ sid' = [sid EXCEPT ![Http] = s]
  /\ Enumerate(Http)
  /\ UNCHANGED <<store, outcome, dev, svc, refresh, process, hist>>

Resubscribe(s) == BeginLookup("renew", s)

RemoveSubscription(s) == BeginLookup("unsubscribe", s)

\* Mutant of LookupNext: the last item is never compared.
LookupNextEarly ==
  /\ running
  /\ pc[Http] = "lookup"
  /\ \/ /\ Throws(ver[Http]) \/ pos[Http] + 1 >= Len(m_Subscriptions)
        /\ Return(Http, "fault")
        /\ UNCHANGED enum
     \/ /\ Yields(pos[Http], ver[Http])
        /\ Current(pos[Http]) = sid[Http]
        /\ Goto(Http, "found")
        /\ UNCHANGED <<outcome, enum>>
     \/ /\ Yields(pos[Http], ver[Http])
        /\ Current(pos[Http]) # sid[Http]
        /\ pos' = [pos EXCEPT ![Http] = @ + 1]
        /\ UNCHANGED <<pc, outcome, ver>>
  /\ UNCHANGED <<store, op, sid, dev, svc, refresh, process, hist>>

LookupNext ==
  /\ running
  /\ pc[Http] = "lookup"
  /\ \/ /\ Throws(ver[Http]) \/ AtEnd(pos[Http], ver[Http])
        /\ Return(Http, "fault")
        /\ UNCHANGED enum
     \/ /\ Yields(pos[Http], ver[Http])
        /\ Current(pos[Http]) = sid[Http]
        /\ Goto(Http, "found")
        /\ UNCHANGED <<outcome, enum>>
     \/ /\ Yields(pos[Http], ver[Http])
        /\ Current(pos[Http]) # sid[Http]
        /\ pos' = [pos EXCEPT ![Http] = @ + 1]
        /\ UNCHANGED <<pc, outcome, ver>>
  /\ UNCHANGED <<store, op, sid, dev, svc, refresh, process, hist>>

RenewFound ==
  /\ running
  /\ pc[Http] = "found"
  /\ op[Http] = "renew"
  /\ TimeLeftToExpire' =
       [TimeLeftToExpire EXCEPT ![sid[Http]] = DefaultExpiration]
  /\ Return(Http, "ok")
  /\ UNCHANGED <<list, ServiceID, init, op, sid, dev, svc, enum, refresh,
                 process, hist>>

\* Mutant of RemoveFound: the removal is left to the next refresh pass.
RemoveFoundLater ==
  /\ running
  /\ pc[Http] = "found"
  /\ op[Http] = "unsubscribe"
  /\ TimeLeftToExpire' = [TimeLeftToExpire EXCEPT ![sid[Http]] = 0]
  /\ Return(Http, "ok")
  /\ ended' = ended \cup {sid[Http]}
  /\ UNCHANGED <<list, ServiceID, init, op, sid, dev, svc, enum, refresh,
                 process, told, atStart, gone>>

RemoveFound ==
  /\ running
  /\ pc[Http] = "found"
  /\ op[Http] = "unsubscribe"
  /\ ListRemove(sid[Http])
  /\ Return(Http, "ok")
  /\ ended' = ended \cup {sid[Http]}
  /\ UNCHANGED <<items, init, op, sid, dev, svc, enum, refresh, process, told,
                 atStart, gone>>

\* The response is sent, or OnStateChanged returns to the thread's own code.
Respond(t) ==
  /\ running
  /\ pc[t] = "return"
  /\ Goto(t, "idle")
  /\ op' = [op EXCEPT ![t] = "none"]
  /\ outcome' = [outcome EXCEPT ![t] = "none"]
  /\ sid' = [sid EXCEPT ![t] = NoSID]
  /\ dev' = [dev EXCEPT ![t] = NoDevice]
  /\ svc' = [svc EXCEPT ![t] = 0]
  /\ pos' = [pos EXCEPT ![t] = 0]
  /\ ver' = [ver EXCEPT ![t] = 0]
  /\ told' = [told EXCEPT ![t] = {}]
  /\ atStart' = [atStart EXCEPT ![t] = {}]
  /\ gone' = [gone EXCEPT ![t] = {}]
  /\ UNCHANGED <<store, refresh, process, ended>>

-----------------------------------------------------------------------------
(* Device.FireStateChanged and OnDeviceStateChanged: for each service of   *)
(* the device, notify the items of the list that subscribe to it.          *)

\* Mutant of FireStateChanged: the outer enumerator starts before its start.
FireStateChangedBefore(t, d, o) ==
  /\ Begin(t, o, "services")
  /\ dev' = [dev EXCEPT ![t] = d]
  /\ svc' = [svc EXCEPT ![t] = -1]
  /\ atStart' = [atStart EXCEPT ![t] = Active]
  /\ gone' = [gone EXCEPT ![t] = Retired]
  /\ UNCHANGED <<store, outcome, sid, enum, refresh, process, told, ended>>

FireStateChanged(t, d, o) ==
  /\ Begin(t, o, "services")
  /\ dev' = [dev EXCEPT ![t] = d]
  /\ atStart' = [atStart EXCEPT ![t] = Active]
  /\ gone' = [gone EXCEPT ![t] = Retired]
  /\ UNCHANGED <<store, outcome, sid, svc, enum, refresh, process, told, ended>>

NextService(t) ==
  /\ running
  /\ pc[t] = "services"
  /\ \/ /\ svc[t] < Len(ServicesOf[dev[t]])
        /\ svc' = [svc EXCEPT ![t] = @ + 1]
        /\ Enumerate(t)
        /\ Goto(t, "items")
        /\ UNCHANGED outcome
     \/ /\ svc[t] = Len(ServicesOf[dev[t]])
        /\ Return(t, "ok")
        /\ UNCHANGED <<svc, enum>>
  /\ UNCHANGED <<store, op, sid, dev, refresh, process, hist>>

\* NotifyEvent is called for s, and does not return at once.
Wanted(t, s) ==
  /\ ServiceID[s] = ServicesOf[dev[t]][svc[t]]
  /\ op[t] = "fire"

\* Mutant of NextItem: the exception of MoveNext ends the inner loop only.
NextItemSwallows(t) ==
  /\ running
  /\ pc[t] = "items"
  /\ \/ /\ Throws(ver[t]) \/ AtEnd(pos[t], ver[t])
        /\ Goto(t, "services")
        /\ UNCHANGED <<sid, enum>>
     \/ /\ Yields(pos[t], ver[t])
        /\ pos' = [pos EXCEPT ![t] = @ + 1]
        /\ IF Wanted(t, Current(pos[t]))
           THEN /\ sid' = [sid EXCEPT ![t] = Current(pos[t])]
                /\ Goto(t, "notify")
           ELSE UNCHANGED <<pc, sid>>
        /\ UNCHANGED ver
  /\ UNCHANGED <<outcome, store, op, dev, svc, refresh, process, hist>>

NextItem(t) ==
  /\ running
  /\ pc[t] = "items"
  /\ \/ /\ Throws(ver[t])
        /\ Return(t, "fault")
        /\ UNCHANGED <<sid, enum>>
     \/ /\ AtEnd(pos[t], ver[t])
        /\ Goto(t, "services")
        /\ UNCHANGED <<outcome, sid, enum>>
     \/ /\ Yields(pos[t], ver[t])
        /\ ~Wanted(t, Current(pos[t]))
        /\ pos' = [pos EXCEPT ![t] = @ + 1]
        /\ UNCHANGED <<pc, outcome, sid, ver>>
     \/ /\ Yields(pos[t], ver[t])
        /\ Wanted(t, Current(pos[t]))
        /\ pos' = [pos EXCEPT ![t] = @ + 1]
        /\ sid' = [sid EXCEPT ![t] = Current(pos[t])]
        /\ Goto(t, "notify")
        /\ UNCHANGED <<outcome, ver>>
  /\ UNCHANGED <<store, op, dev, svc, refresh, process, hist>>

\* NotifyEvent: the request reaches the subscriber, and GetResponse blocks
\* until the subscriber answers; there is no timeout.
Deliver(t) ==
  /\ running
  /\ pc[t] = "notify"
  /\ Goto(t, "await")
  /\ told' = [told EXCEPT ![t] = @ \cup {sid[t]}]
  /\ UNCHANGED <<store, op, outcome, sid, dev, svc, enum, refresh, process,
                 atStart, gone, ended>>

Answered(t) ==
  /\ running
  /\ pc[t] = "await"
  /\ Goto(t, "items")
  /\ UNCHANGED <<store, op, outcome, sid, dev, svc, enum, refresh, process,
                 hist>>

\* Mutant of NotifyFails: the exception is caught around both loops.
NotifyFailsQuietly(t) ==
  /\ running
  /\ pc[t] \in {"notify", "await"}
  /\ Return(t, "ok")
  /\ UNCHANGED <<store, op, sid, dev, svc, enum, refresh, process, hist>>

\* The connection is refused, a value has no text, or the answer is broken:
\* the exception leaves OnDeviceStateChanged and skips the other items.
NotifyFails(t) ==
  /\ running
  /\ pc[t] \in {"notify", "await"}
  /\ Return(t, "fault")
  /\ UNCHANGED <<store, op, sid, dev, svc, enum, refresh, process, hist>>

-----------------------------------------------------------------------------
(* SendInitEvent, on the one-shot timer of subscription s.                 *)

\* Mutant of SendInitEvent: a cancelled subscription gets no event.
SendInitEventIfListed(s) ==
  /\ running
  /\ init[s] = "armed"
  /\ init' = [init EXCEPT ![s] =
                IF ServiceID[s] \in Evented /\ Listed(s)
                THEN "notify" ELSE "done"]
  /\ UNCHANGED <<list, items, threads, refresh, process>>

SendInitEvent(s) ==
  /\ running
  /\ init[s] = "armed"
  /\ init' = [init EXCEPT ![s] =
                IF ServiceID[s] \in Evented THEN "notify" ELSE "done"]
  /\ UNCHANGED <<list, items, threads, refresh, process>>

InitDelivered(s) ==
  /\ running
  /\ init[s] = "notify"
  /\ init' = [init EXCEPT ![s] = "await"]
  /\ UNCHANGED <<list, items, threads, refresh, process>>

InitAnswered(s) ==
  /\ running
  /\ init[s] = "await"
  /\ init' = [init EXCEPT ![s] = "done"]
  /\ UNCHANGED <<list, items, threads, refresh, process>>

\* NotifyEvent throws on the timer's thread.
InitFails(s) ==
  /\ running
  /\ init[s] \in {"notify", "await"}
  /\ running' = FALSE
  /\ UNCHANGED <<store, threads, refresh, timerAlive>>

-----------------------------------------------------------------------------
(* RefreshSubscription, on the refresh timer's thread.  "item.TimeLeft-    *)
(* ToExpire-=RefreshPeriod" is a read and a write, the test reads again.   *)

RefreshSubscription ==
  /\ running
  /\ timerAlive
  /\ rpc = "idle"
  /\ rpc' = "next"
  /\ rpos' = 0
  /\ rver' = version
  /\ UNCHANGED <<rsid, rleft, store, threads, process>>

RefreshNext ==
  /\ running
  /\ rpc = "next"
  /\ \/ /\ Throws(rver)
        /\ running' = FALSE
        /\ UNCHANGED refresh
     \/ /\ AtEnd(rpos, rver)
        /\ rpc' = "idle"
        /\ rpos' = 0
        /\ rver' = 0
        /\ rsid' = NoSID
        /\ rleft' = 0
        /\ UNCHANGED running
     \/ /\ Yields(rpos, rver)
        /\ rpc' = "write"
        /\ rpos' = rpos + 1
        /\ rsid' = Current(rpos)
        /\ rleft' = TimeLeftToExpire[Current(rpos)]
        /\ UNCHANGED <<rver, running>>
  /\ UNCHANGED <<store, threads, timerAlive>>

\* Mutant of RefreshWrite: the time read is written back.
RefreshWriteBack ==
  /\ running
  /\ rpc = "write"
  /\ TimeLeftToExpire' = [TimeLeftToExpire EXCEPT ![rsid] = rleft]
  /\ rpc' = "test"
  /\ UNCHANGED <<rpos, rver, rsid, rleft, list, ServiceID, init, threads,
                 process>>

RefreshWrite ==
  /\ running
  /\ rpc = "write"
  /\ TimeLeftToExpire' =
       [TimeLeftToExpire EXCEPT ![rsid] = rleft - RefreshPeriod]
  /\ rpc' = "test"
  /\ UNCHANGED <<rpos, rver, rsid, rleft, list, ServiceID, init, threads,
                 process>>

\* Mutant of RefreshTest: a subscription lives on with no time left.
RefreshTestStrict ==
  /\ running
  /\ rpc = "test"
  /\ rpc' = IF TimeLeftToExpire[rsid] < 0 THEN "remove" ELSE "next"
  /\ UNCHANGED <<rpos, rver, rsid, rleft, store, threads, process>>

RefreshTest ==
  /\ running
  /\ rpc = "test"
  /\ rpc' = IF TimeLeftToExpire[rsid] <= 0 THEN "remove" ELSE "next"
  /\ UNCHANGED <<rpos, rver, rsid, rleft, store, threads, process>>

RefreshRemove ==
  /\ running
  /\ rpc = "remove"
  /\ ListRemove(rsid)
  /\ rpc' = "next"
  /\ UNCHANGED <<rpos, rver, rsid, rleft, items, init, threads, process>>

\* The constructor keeps no reference to the refresh timer: the garbage
\* collector may finalize it, and the callback is never called again.
CollectTimer ==
  /\ Collector
  /\ running
  /\ timerAlive
  /\ timerAlive' = FALSE
  /\ UNCHANGED <<store, threads, refresh, running>>

-----------------------------------------------------------------------------
HttpRequest ==
  \/ BadRequest
  \/ \E service \in Services, s \in SIDs : Subscribe(service, s)
  \/ \E s \in SIDs \cup {NoSID} : Resubscribe(s) \/ RemoveSubscription(s)

HttpLookup == LookupNext \/ RenewFound \/ RemoveFound

Fire(t) ==
  \E d \in Devices, o \in {"fire", "fireEmpty"} : FireStateChanged(t, d, o)

\* What t does without waiting for a subscriber's answer.
ThreadStep(t) ==
  NextService(t) \/ NextItem(t) \/ Deliver(t) \/ Respond(t)

ThreadWait(t) == Answered(t) \/ NotifyFails(t)

InitEvent(s) ==
  SendInitEvent(s) \/ InitDelivered(s) \/ InitAnswered(s) \/ InitFails(s)

RefreshStep == RefreshNext \/ RefreshWrite \/ RefreshTest \/ RefreshRemove

Next ==
  \/ HttpRequest
  \/ HttpLookup
  \/ \E t \in Firers : Fire(t)
  \/ \E t \in Threads : ThreadStep(t) \/ ThreadWait(t)
  \/ \E s \in SIDs : InitEvent(s)
  \/ RefreshSubscription
  \/ RefreshStep
  \/ CollectTimer

Spec == Init /\ [][Next]_vars

\* Threads are scheduled, and a timer that is alive fires.  Nothing makes a
\* subscriber answer, a client call or a device change.
Fairness ==
  /\ WF_vars(HttpLookup)
  /\ \A t \in Threads : WF_vars(ThreadStep(t))
  /\ \A s \in SIDs : WF_vars(SendInitEvent(s)) /\ WF_vars(InitDelivered(s))
  /\ WF_vars(RefreshSubscription)
  /\ WF_vars(RefreshStep)

FairSpec == Spec /\ Fairness

-----------------------------------------------------------------------------
(* Properties.                                                             *)

\* Every variable keeps its type; the subscriptions are SIDs that the handler
\* gave, in the order of m_Subscriptions.
TypeOK ==
  /\ m_Subscriptions \in Seq(SIDs)
  /\ version \in Nat
  /\ ServiceID \in [SIDs -> Services \cup {NoService}]
  /\ TimeLeftToExpire \in [SIDs -> Int]
  /\ init \in [SIDs -> {"none", "armed", "notify", "await", "done"}]
  /\ pc \in [Threads -> {"idle", "lookup", "found", "services", "items",
                        "notify", "await", "return"}]
  /\ op \in [Threads -> AllCalls \cup {"none"}]
  /\ outcome \in [Threads -> {"none", "ok", "fault"}]
  /\ sid \in [Threads -> SIDs \cup {NoSID}]
  /\ dev \in [Threads -> Devices]
  /\ svc \in [Threads -> Nat]
  /\ pos \in [Threads -> Nat]
  /\ ver \in [Threads -> Nat]
  /\ rpc \in {"idle", "next", "write", "test", "remove"}
  /\ rpos \in Nat
  /\ rver \in Nat
  /\ rsid \in SIDs \cup {NoSID}
  /\ rleft \in Int
  /\ timerAlive \in BOOLEAN
  /\ running \in BOOLEAN
  /\ told \in [Threads -> SUBSET SIDs]
  /\ atStart \in [Threads -> SUBSET SIDs]
  /\ gone \in [Threads -> SUBSET SIDs]
  /\ ended \subseteq SIDs

\* Between two items of the refresh pass, every listed subscription has time
\* left: RefreshSubscription never moves on from an expired item it keeps, and
\* no other thread can bring one back.
ExpiredAreRemoved ==
  rpc \in {"idle", "next"} =>
    \A s \in SIDs : Listed(s) => TimeLeftToExpire[s] > 0

\* A subscription whose UNSUBSCRIBE was answered 200 is not listed again,
\* whatever renewals, refresh passes and new subscriptions follow.
UnsubscribeIsFinal == \A s \in ended : ~Listed(s)

\* A renewal or an UNSUBSCRIBE of a listed subscription is refused only if the
\* refresh pass modified the list under the walk (GetSubscription,
\* RemoveSubscription).
LookupIsExact ==
  (pc[Http] = "return" /\ op[Http] \in {"renew", "unsubscribe"}
     /\ outcome[Http] = "fault") =>
    ~Listed(sid[Http]) \/ Throws(ver[Http])

Subscribes(s, d) == ServiceID[s] \in ToSet(ServicesOf[d])

\* When OnDeviceStateChanged returns without an exception, every subscription
\* to the device that was listed when it began, and still is, was notified,
\* although other threads modify the list between its inner loops.
FireIsComplete ==
  \A t \in Threads :
    (pc[t] = "return" /\ op[t] = "fire" /\ outcome[t] = "ok") =>
      \A s \in atStart[t] :
        Listed(s) /\ Subscribes(s, dev[t]) => s \in told[t]

\* No subscription is notified twice of one change, and none of a change that
\* began after it left the list: the two nested loops meet each item once,
\* although the list is walked anew for each service.
NotifiedOnce ==
  \A t \in Threads : pc[t] = "notify" => sid[t] \notin told[t] \cup gone[t]

\* Nobody is missed, told twice, or told after leaving.
FireIsExact == FireIsComplete /\ NotifiedOnce

\* The publisher that subscribers are promised.
Phase(t) ==
  IF op[t] # "fire" THEN "idle"
  ELSE IF pc[t] = "return" THEN outcome[t] ELSE "telling"

Due(t) ==
  IF op[t] = "fire" THEN {s \in atStart[t] : Subscribes(s, dev[t])} ELSE {}

Publisher == INSTANCE EventPublisher WITH
  active  <- Active,
  retired <- Retired,
  phase   <- [t \in Threads |-> Phase(t)],
  due     <- [t \in Threads |-> Due(t)],
  gone    <- [t \in Threads |-> IF op[t] = "fire" THEN gone[t] ELSE {}]

\* EventHandler implements EventPublisher: the list, the enumerators and the
\* interleaved threads keep its promises on every step.
ImplementsPublisher == Publisher!Spec

\* Every call that does not wait for a subscriber ends: the walks over the
\* list and over the services advance whatever other threads add or remove.
\* And a subscriber to an evented service is sent its first event, even if the
\* subscription was cancelled in between (SendInitEvent does not look).
CallsEnd ==
  /\ \A t \in Threads :
       pc[t] \notin {"idle", "await"}
         ~> (pc[t] \in {"idle", "await"} \/ ~running)
  /\ \A s \in SIDs :
       (init[s] = "armed" /\ ServiceID[s] \in Evented)
         ~> (init[s] = "await" \/ ~running)

Renewing(s) == pc[Http] = "found" /\ op[Http] = "renew" /\ sid[Http] = s

\* A subscription that is not renewed any more leaves the list, as long as the
\* refresh timer is not collected and the process lives.
UnrenewedExpire ==
  \A s \in SIDs :
    ([]timerAlive /\ <>[]~Renewing(s)) => (Listed(s) ~> ~Listed(s) \/ ~running)

-----------------------------------------------------------------------------
(* What a comment of EventHandler.cs says, and the code does not do.       *)

\* "remove expired subscription" (line 50): the pass itself survives its removal.
\* No removal of RefreshSubscription's makes the enumerator of its own foreach,
\* which was valid until then, throw at the next MoveNext.
PassContinues == [][RefreshRemove /\ ~Throws(rver) => ~Throws(rver)']_vars
=============================================================================
