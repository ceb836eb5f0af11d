# upnpstack in TLA+

`src/` holds a UPnP stack for .NET 2.0 (`src/UPnPStack`, about 3,650 lines of
C#), a control point with a window (`src/DeviceSpy`) and sample devices
(`src/SampleDevices`).  A device program hosts a `Device` in a `DeviceHost`,
which advertises it (SSDP over UDP multicast), serves its description and its
actions (HTTP, SOAP) and publishes its changes (GENA events).  A control point
finds devices with a `DeviceFinder` and a `DeviceManager`, invokes their
actions, and receives their events with an `EventListener`.

Nearly every class runs on several threads (listener threads, thread-pool
timers, the UI thread) and almost nothing is locked.  Two facts of .NET 2.0
make this matter, and every module relies on them: an `ArrayList` counts its
modifications and an enumerator's `MoveNext` throws once the count differs from
the one it started from; and an exception that leaves a thread or a timer
callback ends the process.

## Inventory

| Component | State | Operations | Interacts with |
|---|---|---|---|
| `EventHandler` | `m_Subscriptions` (unsynchronized list), time left and first-event timer of each item, refresh timer | SUBSCRIBE, renewal, UNSUBSCRIBE; notification of a change; refresh pass; first event | called by `HTTPServer`, by `Device.OnStateChanged` on any thread, by timers; calls subscribers over HTTP and waits |
| `Device`, `Service` | descriptions, property values | `FireStateChanged`, description builders | `EventHandler`, `SoapHandler` |
| `DeviceManager` | `Devices` (unsynchronized list) | alive, byebye, `AddDevice`, `RemoveDevice` | called by its listener's thread, by the finders' threads and by the UI; calls back into the UI |
| `HTTPUDPListener` | socket, listening thread, processing mutex | `Start`, `Stop`, `DoListen` | calls SSDP handlers with the mutex held |
| `DeviceFinder` | `m_Searching`, expiry timer, its own listener | `StartFind`, `CancelFind`, expiry, search result | `HTTPUDPListener`, `DeviceManager`, UI |
| `SSDP` | none | `OnRequest`, `OnResponse`, messages | between the listener and its users |
| `DeviceHost` | advertisement timer, pending search responses | `Start`, `Stop`, `SayHi`, `SayBye`, search request | SSDP sender and listener, `HTTPServer` |
| `HTTPServer` | listening thread, handlers, cache | `Start`, `Stop`, accept loop, one request at a time | `SoapHandler`, `EventHandler`, `EventListener` |
| `SoapHandler`, `TypeConvert` | the service objects | action, state query, conversions | the device's methods, which fire events |
| `EventListener` | none of its own | NOTIFY | `HTTPServer` of the control point, UI |
| `DeviceDescription` (control point) | SID of each subscribed service | load, invoke, query, subscribe, unsubscribe | the device's `HTTPServer` |
| `ThreadPool` (libupnp, C) | three job queues, a persistent job, counts of threads, attributes | `Init`, `Add`, `AddPersistent`, `Remove`, `SetAttr`, `Shutdown`, the worker's loop | its callers, its threads |
| `DeviceSpy` (`MainForm`) | the tree of devices | rescan, add, remove, subscribe, invoke, close | all of the control point, through `Control.Invoke` |

`src/ThirdParties/libupnp-1.2.1` is a C library that no project of the
repository references; its thread pool, the piece of it with a concurrent core,
is modelled.  Left out as third-party, generated or without behaviour: the rest
of libupnp, `src/Intel` (Intel's tools and generated samples), `src/FindDevices`
(a COM sample), the UML files, the forms' generated code.

## Hard behaviour, and what makes each component correct

* `EventHandler`: the list is enumerated by some threads while others change it.
  Right: an expired or cancelled subscription does not come back; a change is
  told once to everyone it is due to, or the caller gets an exception; a listed
  SID is not refused without cause; what is not renewed leaves.
* `DeviceManager` and the tree: check-then-act on an unlocked list, and
  callbacks that wait for the UI thread.  Right: a refusal has a reason; the
  tree agrees with the list; calls end.
* `HTTPUDPListener`, `DeviceFinder`: `Stop` against a running handler, another
  `Stop`, and the thread's own receive.  Right: no handler is cut short, nothing
  ends the process, the thread ends, a search completes once and reports
  nothing after.
* `DeviceHost`, `Discovery`: three kinds of timers and a start and stop of
  several parts.  Right: nothing is left half stopped; byebye comes before the
  end of the server; a host that stays up gets listed, one that left does not
  come back.
* `HTTPServer`: one thread for everyone, no timeout and no `catch`.  Right: a
  client that behaves cannot end the process, nobody but the one being served is
  left hanging, and `Stop` ends the thread.
* `SoapHandler`, `EventListener`, subscriptions: an action waits for every
  subscriber, and a subscriber for its window, which waits for the device.
  Right: every call is answered but for that one circle; the window shows the
  light as it is.
* `ThreadPool`: the mutex is let go in the middle of calls.  Right: the bounds of
  the number of threads, each job in one place, jobs of a priority in order, and
  no call that waits without cause.

## The modules

`EventHandler.tla`: `src/UPnPStack/EventHandler.cs`, and `FireStateChanged` of
`Device.cs`.  `m_Subscriptions` is a sequence of SIDs with its modification
count `version`; a thread's enumerator is `pos` and `ver`.  `BadRequest`,
`Subscribe`, `BeginLookup`, `LookupNext`, `RenewFound`, `RemoveFound` and
`Respond` are the HTTP thread's `Handle`; `FireStateChanged`, `NextService`, `NextItem`,
`Deliver`, `Answered` and `NotifyFails` the two nested loops of
`OnDeviceStateChanged`, on each thread of `Firers`; `RefreshSubscription`,
`RefreshNext`, `RefreshWrite`, `RefreshTest` and `RefreshRemove` the refresh
callback, with the read and the write of `TimeLeftToExpire` apart;
`SendInitEvent` and what follows the first event's timer.  `CollectTimer` is
the garbage collector's: the constructor keeps no reference to the refresh
timer.  `told`, `atStart`, `gone` and `ended` are history.

`EventPublisher.tla`: what `EventHandler` promises its subscribers, with no list
and no enumerators.  A report begins with the set of subscriptions that it is
due to, tells each at most once and none that had left before, and succeeds
only if all that are due and still active were told.

`DeviceManager.tla`: `src/UPnPStack/DeviceManager.cs` with the part of
`src/DeviceSpy/MainForm.cs` that it calls.  `Devices` and `version` are the
list; threads load (`LoadStep`), walk, append or erase, report, and wait in
`Control.Invoke` (`invoked`) until the UI thread takes the delegate
(`RunDelegate`).  `form` is the window, constructed, shown and closed; closing
it waits for the listener's mutex.

`HTTPUDPListener.tla`: `HTTPUDPListener` of `src/UPnPStack/HTTPUDP.cs`.  The
field `ProcessingMutex` may still be null when `Stop` reads it; `owner` is who
holds the mutex, `Abandoned` after its owner ended.  `Receive`, `Enter`, `Leave`
are a turn of `DoListen`; `BeginStop`, `Acquire`, `Abort` (`AbortSelf` in a
handler), `CloseMutex`, `CloseSocket` the lines of `Stop`, each a step.

`DeviceFinder.tla`: `src/UPnPStack/DeviceFinder.cs`.  It extends
`HTTPUDPListener`, the search's own listener, whose steps it joins to its own;
the calls of `Stop` are those of `CancelFind`.  `CancelFind` is run by clients, by their handlers (on the
listener's own thread) and by the timer; the test of `m_Searching`, the stop,
the disposal and the assignment are steps.

`DeviceHost.tla`: `src/UPnPStack/DeviceHost.cs`, composed with an instance of
`HTTPUDPListener`.  `at` is the line of `Start` or `Stop` that the program is
at, `http` its server, `pass` the callback of the advertisement timer, `item[r]`
the response to search `r`, `wire` the datagrams under way.

`Advertiser.tla`: what a host promises its network.  `phase` and `serving` are
mapped in `DeviceHost` from `at`, `running` and `http`.

`Discovery.tla`: an `Advertiser` and a control point.  `stage[t]` and `got[t]`
are the load of the description by a thread (`DeviceDescription.Load`, and the
constructors of `Device` and `Service`, one HTTP request after the other);
`listed` and `services` are the device's entry in the table.  A request may fail
at any time: of the root description, which ends the load (`LoadRootFails`), or of
a service, which ends the loop over the services but not the load, for the
constructor catches every exception (`LoadServiceFails`).  `heardBye`, `doubtful`,
`late`, `cut` and `part` are history.

`HTTPServer.tla`: `src/UPnPStack/HTTPServer.cs`.  `pc` is the listening thread in
`DoListen` and `HandleRequest`, `client` the connection it serves, `backlog` those
that wait; `sent`, `what` and `left` are how much of which request each client has
sent, and whether it went.  `Abort` ends the thread at once, or leaves it `doomed`
if it is in a native call, until that returns.

`Eventing.tla`: the actions and queries of `SoapHandler.cs` on the light of
`LightDevice.cs`, the control point's `Service` (`DeviceDescription.cs`),
`EventListener.cs`, and the event view and service nodes of `MainForm.cs`.  `pc[h]`
is the thread of the web server of host `h`, `queue[h]` who is connected to it,
`ask[c]` what caller `c` waits for.  The list of subscriptions and the reports are
the actions of an instance of `EventPublisher`, which `EventHandler` implements,
so that only its promises are used.  `listener` and `inbox` are the listener's
thread in `OnEvent` and the NOTIFYs behind it.  When the window is closed the
NOTIFYs that wait behind are reset; the one that is being handled is not, for
nothing closes its connection (`HTTPServer`'s `AtMostOneHangs`), and its sender is
`hanging`.

`ThreadPool.tla`: `threadutil/src/ThreadPool.c` of libupnp.  The fields have their
names; `worker[w]` is where a thread is, `call[c]` the call that a caller waits in
with the locals it needs, `sleeping` those that wait for `start_and_shutdown`.
What is done under the mutex up to a wait is one step.

The `MC*` modules give the constants their values; `*_proofs` hold the proofs.

## The runs

| Run | Bounds | Shows |
|---|---|---|
| `event_refresh` | one device, two services (one evented), two SIDs, all six kinds of call by the HTTP thread, a lifetime of two refresh periods, the collector on | the list, its walks, expiry and cancellation, and whom a change is told to, with removals during the walk |
| `event_liveness` | one service, two SIDs, fair threads and timers | calls end, the first event is sent, what is not renewed leaves; and `EventHandler` implements `EventPublisher` |
| `event_pass_continues` | one service, one SID, SUBSCRIBE only; fair | *violated*: the one subscription expires, the pass removes it, and its enumerator, valid until then, throws |
| `devices` | two descriptions of a lamp, one of a radio; listener and window; fair threads | the list, the refusals, and the tree against the list; calls and the closing of the window end, but for one deadlock |
| `listener` | three threads and the handlers call `Stop`; fair threads | all of the listener's properties |
| `finder` | two client threads, the handlers and the timer; fair threads | all of the finder's properties |
| `host` | two searches, failing sends and binds; fair threads and timers | `Stop`, and `DeviceHost` implements `Advertiser`; it is heard while it serves, and quiet in the end |
| `host_answers` | one search, no failure, fair threads | *violated*: a search is answered |
| `discovery` | two services, two listening threads, requests that fail at any time; a fair host | the control point's table against the host's life |
| `web_server` | two clients, every outcome of a handler, fair thread | who ends the process, who hangs, who is served; `Stop` |
| `eventing` | two hosts, two workers, a window, one subscription; fair threads | what the window shows, the circle of waits, and the connection that a closing window leaves behind |
| `thread_pool` | two callers, two jobs, attributes set once, at most four threads; fair threads | the bounds, the jobs, their order, and the calls that wait, those that come while `Shutdown` waits included |

The bounds are small and enough for what they look for.  Two SIDs are a list
whose first item is removed under a walk that stands at it or behind it; two
services are the second inner loop; two descriptions of one device and one of
another are a twin and a bystander.  Three callers of `Stop` are one that is
stopping, one that waits and one that comes when all is closed.  Two searches
are one that is answered while another is armed; two services in `discovery`
are a load that ends before, between and after the requests.  In `web_server` one
client is served and one waits; in `eventing` two servers are two changes told at
once, and one subscription, whose SID is drawn once, meets its first event, its
expiry and its cancellation.  In `thread_pool` two jobs are one that is before the
other, in a pool that begins with none and is then bounded by two, by one, or
asked for two; two callers and one thread more than each maximum are what an
overlap can create.  Every counter is bounded by its use: a SID is drawn once, an
object is loaded once, a search comes once.  `devices` runs with two of the three
kinds of threads: a search is a listener that cannot remove, and what is claimed
of searches in particular is proved for any number of them.

Deadlock is not checked where the modelled program really stops: when its
process has ended, when it is closed, or in the deadlock that `devices`
names (`FormClosed` waits on the UI thread for the mutex of a listener that
waits for the UI thread), in the circle of `eventing` or at the connection that
its closed window left open, or with a call of `thread_pool` that waits in vain.  It is checked in `discovery`.

### Fairness

Threads are scheduled and a timer that is due fires (weak fairness).  Strong
fairness stands where the runtime or Windows grants a waiting thread its turn:
a `Mutex` goes to who waits for it, and the message loop takes a delegate that
was posted.  Nothing makes a subscriber answer, a client call or cancel, a
datagram arrive, or a program start or stop.  `discovery` assumes, besides, what
`host` shows of the device (it serves, and announces itself again and again),
that of announcements repeated for ever some arrive, and that of the requests for
the root description of a host that serves some are answered (strong fairness).
Of the requests for services nothing is assumed but that each ends, at the latest
with the timeout of `HttpWebRequest`.

In `web_server` nobody needs to send, and a handler need not end: what is claimed
is claimed of runs in which no client and no handler keeps the thread for ever.
In `eventing` the window takes the messages of other threads (strong fairness),
as it looks at them before input; a hanging connection need not end.  In `thread_pool` a thread that waits for work
looks again after `maxIdleTime` (weak fairness), so that the signals that would
wake it earlier are left out; jobs end, but persistent ones need not.

### Disagreements

* `EventHandler.cs:56` removes from the list that its own `foreach` enumerates;
  the next `MoveNext` throws on the timer's thread and ends the process, where
  the comment at line 50 says "remove expired subscription"
  (`event_pass_continues`).
* `DeviceHost.cs:206`: the timer of a response, whose delay may be 0, can run
  before it is assigned to the item, and its callback then dereferences null and
  ends the process (`host_answers`).

The models show more that have no run of their own:

* `DeviceManager.cs:94`: two threads that both miss a name list it twice, against
  "Device already exit" at line 92; `TwinsComeFromTwoThreads` says that nothing
  else does.
* `EventHandler.cs`: a renewal between lines 55 and 56 is answered 200 and the
  subscription is removed all the same; the refresh timer, which nothing
  references, may be collected, and no subscription expires after that; and a
  change fired within the second after SUBSCRIBE is told before the first event.
* `DeviceDescription.cs:89-100`: a device one of whose services could not be loaded
  is listed with those before it, and as it is listed every later announcement is
  refused: it stays so until its byebye.  `LiveHostIsListed` excuses it by `part`.
* `HTTPServer.cs:515`: a client that connects and closes at once, as
  `src/UnitTest/HTTPServerTest.cs:42-49` does, ends the server's process; and half
  a request of a client that closed its end is handled.
* `EventHandler.cs:292` and `MainForm.cs:824`: window, device and listener wait for
  each other for good.  `SoapHandler.cs:415` answers 500 to an action that took
  effect, when a subscriber could not be told.
* `HTTPServer.cs:491-496`: `Stop` leaves the connection that its thread was serving
  open.  A control point that is closed at an event leaves the device's thread at
  its NOTIFY for as long as another thread keeps the process alive (an action that
  was invoked from the window, say) and nothing collects the socket.
* `ThreadPool.c:592`: two callers that overlap create more threads than the
  maximum, "only possible if the attributes have been reset" by the comment at
  lines 425 and 426, and never by the one at 666 (`crowded` in `BoundsAreKept`).
* `ThreadPool.c:834`: a second `AddPersistent` overwrites a persistent job that no
  thread has picked up, and both return 0, where lines 776 and 777 say "Job will be
  run as soon as possible.  Call will block until job is scheduled" (`overwritten`
  in `EveryJobIsSomewhere`).
* `ThreadPool.c`: no call tests `shutdown` (lines 790 to 1012).  A job that is added
  while `Shutdown` waits at line 1190, as a running job may do, is neither run nor
  dropped, and a persistent one's caller waits for ever.
* `ThreadPool.c`: a caller of `CreateWorker` is stranded when an idle thread ends
  while it waits (line 607); `Remove` of a persistent job does not wake the one
  who added it; when all threads run persistent jobs other jobs are never run;
  jobs added by overlapping calls have one id; `SetAttr` shuts the whole pool down
  when another caller has created a thread meanwhile (line 1103); and `Shutdown`
  may destroy the mutex before a thread has counted itself.

One disagreement is beyond the models, which leave times out: `BumpPriority`
compares the wait of a low-priority job with `maxIdleTime` (`ThreadPool.c:232`),
where the comment below it speaks of the starvation time, as for the others.

## What is proved

Every theorem is for any value of the constants that the named assumption of its
module allows.  Each rests on an inductive invariant; the properties alone are
not inductive.

* `EventHandler_proofs`: `TypeCorrect`.  `ExpiryCorrect` from `ListInv` (no SID
  is listed twice, a listed SID was created) and `ExpiryInv`: the property speaks
  of the moments between two items, and while the pass is at an item that item
  alone may have no time left.  `UnsubscribeCorrect` from `EndedInv`: what was cancelled, and
  what a walk has found, was created, so that its SID is not drawn again.
  `FireCorrect` and `LookupCorrect` from `AllThreads`, one invariant per thread
  that relates its enumerator, its place in the two loops and its history: as long
  as the version is the enumerator's, the items before its position were told or
  are not due.  `Refinement`: `EventHandler` implements `EventPublisher`.
* `DeviceManager_proofs`: `TypeCorrect`; `TwinsCorrect` from `TwinInv` (as long
  as the version is the walk's, no name before its position is the device's own);
  `RefusalCorrect` from `RefusalInv`; `TreeCorrect` from `TreeInv`, which says
  what each call under way has done in the list and not yet in the tree.
* `HTTPUDPListener_proofs`: `StopCorrect` and `NeverCrashesCorrect` from
  `StopInv`, which says who owns the mutex in a handler and in a `Stop`, and that
  the thread is aborted before anything is closed, for any number of callers.
  `FinderTypeCorrect`, and `SearchCorrect` from `SearchInv`, which adds to
  `StopInv` what holds of the composition: nobody but the starter is in
  `StartFind`, and no timer is armed before the listener was started (`StartOK`);
  who disposes the timer has closed the socket (`CancelOK`); the timer fires once,
  and completes a search that is stopped (`TimerOK`); and as long as no client
  cancels, nobody but the timer stops the listener (`NobodyCancels`).
* `DeviceHost_proofs`: `StopCorrect` from `StopInv` (which parts are stopped at
  each line of `Stop`) and `IdleOK` (nothing runs before `Start`); `Refinement`:
  `DeviceHost` implements `Advertiser`, for any number of searches.
* `HTTPServer_proofs`: `TypeCorrect`; `GoodClientsCorrect` and
  `AtMostOneCorrect` from `ServerInv`, for any number of clients: an aborted
  thread is still in its native call (`AbortOK`), and before it ends the thread
  has only the connection that it serves (`AloneOK`).
* `Discovery_proofs`: `TypeCorrect`, and `ByeCorrect` from `TableInv`, which ties
  the loads under way to the host's life, for any number of services.
* `Eventing_proofs`: `TypeCorrect`, of which the queues are the hard part: a
  caller is in the queue of the host that it asks, once, and the thread of a host
  serves the first.  `ShownCorrect` from `ShowInv`: when no change waits to be
  told and none was blurred, every report, first event and NOTIFY under way carries
  the light's state, and the window shows it or is still to hear of it
  (`ValuesOK`, `Pending`), for who has sent a NOTIFY waits for its answer
  (`InboxOK`).  `CircleIsForGood` is an action property: no step
  of anyone leaves the circle of window, server and listener.
* `ThreadPool_proofs`: all from `PoolInv`, for any number of callers, threads and
  jobs and any attributes.
  - `TypeCorrect`: `WorkersOK` counts threads (one that neither runs a job nor
    comes from one is no persistent thread), `CallsOK` jobs and ids: jobs that are
    there and not counted yet are those of the calls under way.
  - `BoundsCorrect`: the maximum, because whoever creates a thread while another
    one starts is seen to (`crowded`); the minimum, because the loops of `Init` and
    `SetAttr` go on until there are enough and a frame's target is above its count
    (`FrameOK`); the end, because as long as a thread starts its creator is in a
    call (`CreatorOK`), and the others were waited for (`GoneOK`).
  - `JobsCorrect` and `OrderCorrect`: `PlacesOK` says that the jobs are parted into
    five places.  `Ordered` compares every two places of the three queues; it is
    the same as an order of the queues put together (`AsOne`), and that is what
    `BumpPriority` leaves alone (`BumpedQueue`), wherever it cuts.  `Levels`: no
    job is above its own queue unless it starved, so that one appended to its
    queue comes after all of its priority.

Only model-checked: all liveness (`CallsEnd`, `UnrenewedExpire`, `StopCompletes`,
`SearchCompletes`, `AnnouncedWhileServed`, `LiveHostIsListed`, `EveryoneIsServed`),
which is beyond the prover, and what the runs that end in a violation show.
Every safety property of a passing run is a theorem.

## Abstractions

* A call of the `ArrayList` is one step: torn calls (two `Add`s at one instant)
  are not modelled.  Refresh passes do not overlap, nor do passes of `SayHi`.
* An exception that leaves a thread sets `running` to FALSE (or aborts the
  thread's call), after which nothing happens.
* `EventHandler` has no step after its server was stopped.  A listener is started
  once, as everywhere in the repository.  A search expires after its listener's
  thread ran.  A thread that owns the mutex does not end, but for a handler that
  stops its own listener.
* Of the three messages that a host sends each time, the first stands for all:
  the control point reads no other.  A byebye that fails to be sent is no step.
  The arithmetic of delays is left out: a timer may fire at any time after it
  is set.
* `Discovery` has one device; a process that is restarted is another device, for
  its name is drawn anew.  An
  addition and a removal are one step (`DeviceManager` has their steps).  The
  wire is a set whose members may be taken off it, or stay: loss, repetition and
  every order.  A response may come without a search having been sent.
* `HTTPServer` serves each client once, and a response fits in the buffers of the
  connection, so that sending it does not wait.  Which exception the parser throws is left
  out: a request is well formed, or bad in its first line or after it.
* `Eventing` uses the promises of `EventPublisher`, and has one service and one
  variable of the light.  Its `Expire` leaves out that the pass's removal ends the
  light's process at the next step of the pass (`event_pass_continues`): the model
  only has more behaviours for it.
  A query's answer is shown in the step in which it is given: the window takes
  nothing else in between.
* `ThreadPool` has the system refuse neither threads nor memory, and has no spurious
  wake-ups, after which a caller would only look again.  That times pass
  is left out: an idle thread may end, and a queued job may have starved, at any
  moment.  `minThreads` is at most `maxThreads`, and the attributes are set once
  after `Init`.

## Not modelled

* The texts: SOAP's XML, HTTP's headers, SSDP's messages, descriptions, and the
  conversions of `TypeConvert`.  They are pure, sequential and tested by example
  in `src/UnitTest`; the modules abstract them to what was asked and told.
* The delays' arithmetic (see the hazards at `DeviceHost.cs:204`): the timers of
  the model may fire at any time, which is more than any delay allows.
* `ArrayList` calls that tear: .NET does not say what two of them at an instant
  leave behind.
* libupnp but for its thread pool (its `TimerThread` is a sequential queue in front
  of that pool), and Intel's tools: vendored code that the repository's programs
  do not use.

## Plan

Written, checked and proved so far:

1. `EventHandler` with the abstract `EventPublisher`.
2. `DeviceManager` with the tree of `DeviceSpy`.
3. `HTTPUDPListener` and `DeviceFinder`.
4. `DeviceHost` with the abstract `Advertiser`, and `Discovery`, which composes
   it with a control point.
5. `HTTPServer`.
6. `Eventing`: actions, changes and their display, with the UI thread in the
   circle of calls, over `EventPublisher`.
7. `ThreadPool`.

Proofs to come: that `Discovery` implements `Advertiser` and `Eventing`
`EventPublisher`, of whose actions they are made, so that what is shown of the
abstract specifications holds in the compositions.
