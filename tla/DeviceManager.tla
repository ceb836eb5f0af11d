---------------------------- MODULE DeviceManager ----------------------------
(***************************************************************************)
(* The control point's table of devices (src/UPnPStack/DeviceManager.cs)   *)
(* and the tree that DeviceSpy shows of it (src/DeviceSpy/MainForm.cs).    *)
(*                                                                         *)
(* Devices is an ArrayList guarded by no lock.  Three kinds of threads     *)
(* change it:                                                              *)
(*   - Listen, the manager's SSDP listener: "alive" and "byebye";          *)
(*   - Finders, the listeners of the searches: a search result;            *)
(*   - UI, the window's thread: add by URL, remove the selected device.    *)
(* Each change is then reported to MainForm, whose handler runs on the UI  *)
(* thread (Control.Invoke) while the reporting thread waits.               *)
(*                                                                         *)
(* Listen holds the ProcessingMutex of its listener while it handles a     *)
(* message, and FormClosed waits for that mutex on the UI thread.          *)
(***************************************************************************)
EXTENDS Integers, Sequences, SequencesExt

CONSTANTS
  Objects,    \* bound: the Device objects that DeviceDescription.Load returns
  UDNs,       \* the devices' names
  UDN,        \* UDN[o]: the name of the device that o describes
  NoObject,
  Listen,     \* the thread of the manager's listener
  Finders,    \* the threads of the searches' listeners
  UI          \* the thread of the window

Workers == {Listen} \cup Finders
Threads == Workers \cup {UI}

ASSUME DevicesAssumption ==
  /\ UDNs # {}
  /\ UDN \in [Objects -> UDNs]
  /\ NoObject \notin Objects
  /\ UI \notin Workers

VARIABLES
  Devices,    \* the list: a sequence of Device objects
  version,    \* its modification count
  loaded,     \* the objects that exist
  pc,         \* pc[t]: where thread t is
  op,         \* op[t]: the call it executes
  outcome,    \* outcome[t]: how that call ended
  obj,        \* obj[t]: the device it adds, or found to remove
  target,     \* target[t]: the name it removes
  pos,        \* pos[t]: its enumerator's position in Devices
  ver,        \* ver[t]: the version its enumerator started from
  form,       \* the window: "constructed", "shown" or "closed"
  nodes,      \* the root devices in the tree
  invoked,    \* the threads whose delegate waits for the UI thread, in order
  addedBy,    \* history: the thread that listed each object
  disturbed   \* history: names whose calls overlapped or were not reported

list    == <<Devices, version>>
enum    == <<pos, ver>>
locals  == <<pc, op, outcome, obj, target, enum>>
window  == <<form, nodes, invoked>>
hist    == <<addedBy, disturbed>>
vars    == <<list, loaded, locals, window, hist>>

-----------------------------------------------------------------------------
(* The list, its enumerators and the threads.                              *)

Lists(o)     == \E i \in 1 .. Len(Devices) : Devices[i] = o
ListsName(u) == \E i \in 1 .. Len(Devices) : UDN[Devices[i]] = u
Shows(u)     == \E o \in nodes : UDN[o] = u

Throws(v)    == v # version
AtEnd(p, v)  == v = version /\ p = Len(Devices)
Yields(p, v) == v = version /\ p < Len(Devices)
Current(p)   == Devices[p + 1]

Goto(t, label) == pc' = [pc EXCEPT ![t] = label]

Enumerate(t) ==
  /\ pos' = [pos EXCEPT ![t] = 0]
  /\ ver' = [ver EXCEPT ![t] = version]

\* "ok"; "refused", the exceptions of AddDevice and RemoveDevice; "broken",
\* the enumerator's; "failed", those of Load and of Invoke.
Return(t, result) ==
  /\ Goto(t, "return")
  /\ outcome' = [outcome EXCEPT ![t] = result]

\* The device that t is changing in the list and reporting.
Name(t) == IF op[t] = "remove" THEN target[t] ELSE UDN[obj[t]]

Changing(t, u) ==
  /\ pc[t] \in {"append", "erase", "report", "invoke"}
  /\ Name(t) = u

\* t starts to change u while another thread does.
Disturb(t, u) ==
  disturbed' = IF \E other \in Threads \ {t} : Changing(other, u)
               THEN disturbed \cup {u} ELSE disturbed

NoName == CHOOSE u \in UDNs : TRUE

Init ==
  /\ Devices = <<>>
  /\ version = 0
  /\ loaded = {}
  /\ pc = [t \in Threads |-> "idle"]
  /\ op = [t \in Threads |-> "none"]
  /\ outcome = [t \in Threads |-> "none"]
  /\ obj = [t \in Threads |-> NoObject]
  /\ target = [t \in Threads |-> NoName]
  /\ pos = [t \in Threads |-> 0]
  /\ ver = [t \in Threads |-> 0]
  /\ form = "constructed"
  /\ nodes = {}
  /\ invoked = <<>>
  /\ addedBy = [o \in Objects |-> UI]
  /\ disturbed = {}

-----------------------------------------------------------------------------
(* AddDevice.                                                              *)

\* OnNotifyAliveMessage, OnSearchResult or ManuallyAddDevice: the description
\* is loaded from the device.
BeginAdd(t) ==
  /\ pc[t] = "idle"
  /\ t = UI => form = "shown"
  /\ Goto(t, "load")
  /\ op' = [op EXCEPT ![t] = "add"]
  /\ UNCHANGED <<list, loaded, outcome, obj, target, enum, window, hist>>

Loaded(t, o) ==
  /\ pc[t] = "load"
  /\ o \notin loaded
  /\ loaded' = loaded \cup {o}
  /\ obj' = [obj EXCEPT ![t] = o]
  /\ Goto(t, "addwalk")
  /\ Enumerate(t)
  /\ UNCHANGED <<list, op, outcome, target, window, hist>>

LoadFails(t) ==
  /\ pc[t] = "load"
  /\ Return(t, "failed")
  /\ UNCHANGED <<list, loaded, op, obj, target, enum, window, hist>>

\* Mutant of AddNext: the names are not compared.
AddNextUnchecked(t) ==
  /\ pc[t] = "addwalk"
  /\ \/ /\ Throws(ver[t])
        /\ Return(t, "broken")
        /\ UNCHANGED <<pos, disturbed>>
     \/ /\ Yields(pos[t], ver[t])
        /\ pos' = [pos EXCEPT ![t] = @ + 1]
        /\ UNCHANGED <<pc, outcome, disturbed>>
     \/ /\ AtEnd(pos[t], ver[t])
        /\ Goto(t, "append")
        /\ Disturb(t, UDN[obj[t]])
        /\ UNCHANGED <<pos, outcome>>
  /\ UNCHANGED <<list, loaded, op, obj, target, ver, window, addedBy>>

AddNext(t) ==
  /\ pc[t] = "addwalk"
  /\ \/ /\ Throws(ver[t])
        /\ Return(t, "broken")
        /\ UNCHANGED <<pos, disturbed>>
     \/ /\ Yields(pos[t], ver[t])
        /\ UDN[Current(pos[t])] = UDN[obj[t]]
        /\ Return(t, "refused")
        /\ UNCHANGED <<pos, disturbed>>
     \/ /\ Yields(pos[t], ver[t])
        /\ UDN[Current(pos[t])] # UDN[obj[t]]
        /\ pos' = [pos EXCEPT ![t] = @ + 1]
        /\ UNCHANGED <<pc, outcome, disturbed>>
     \/ /\ AtEnd(pos[t], ver[t])
        /\ Goto(t, "append")
        /\ Disturb(t, UDN[obj[t]])
        /\ UNCHANGED <<pos, outcome>>
  /\ UNCHANGED <<list, loaded, op, obj, target, ver, window, addedBy>>

List(t) ==
  /\ pc[t] = "append"
  /\ Devices' = Append(Devices, obj[t])
  /\ version' = version + 1
  /\ addedBy' = [addedBy EXCEPT ![obj[t]] = t]
  /\ Goto(t, "report")
  /\ UNCHANGED <<loaded, op, outcome, obj, target, enum, window, disturbed>>

-----------------------------------------------------------------------------
(* RemoveDevice.                                                           *)

\* OnNotifyByeMessage, or the menu of the selected device.
BeginRemove(t, u) ==
  /\ pc[t] = "idle"
  /\ t \in {Listen, UI}
  /\ t = UI => form = "shown" /\ Shows(u)
  /\ op' = [op EXCEPT ![t] = "remove"]
  /\ target' = [target EXCEPT ![t] = u]
  /\ Goto(t, "removewalk")
  /\ Enumerate(t)
  /\ UNCHANGED <<list, loaded, outcome, obj, window, hist>>

\* Mutant of RemoveNext: the first device decides.
RemoveNextFirst(t) ==
  /\ pc[t] = "removewalk"
  /\ \/ /\ Throws(ver[t])
        /\ Return(t, "broken")
        /\ UNCHANGED <<obj, disturbed>>
     \/ /\ \/ AtEnd(pos[t], ver[t])
           \/ Yields(pos[t], ver[t]) /\ UDN[Current(pos[t])] # target[t]
        /\ Return(t, "refused")
        /\ UNCHANGED <<obj, disturbed>>
     \/ /\ Yields(pos[t], ver[t])
        /\ UDN[Current(pos[t])] = target[t]
        /\ obj' = [obj EXCEPT ![t] = Current(pos[t])]
        /\ Goto(t, "erase")
        /\ Disturb(t, target[t])
        /\ UNCHANGED outcome
  /\ UNCHANGED <<list, loaded, op, target, enum, window, addedBy>>

\* Mutant of RemoveNext: the walk stays at a device of another name.
RemoveNextStays(t) ==
  /\ pc[t] = "removewalk"
  /\ \/ /\ Throws(ver[t])
        /\ Return(t, "broken")
        /\ UNCHANGED <<obj, disturbed>>
     \/ /\ AtEnd(pos[t], ver[t])
        /\ Return(t, "refused")
        /\ UNCHANGED <<obj, disturbed>>
     \/ /\ Yields(pos[t], ver[t])
        /\ UDN[Current(pos[t])] = target[t]
        /\ obj' = [obj EXCEPT ![t] = Current(pos[t])]
        /\ Goto(t, "erase")
        /\ Disturb(t, target[t])
        /\ UNCHANGED outcome
  /\ UNCHANGED <<list, loaded, op, target, enum, window, addedBy>>

RemoveNext(t) ==
  /\ pc[t] = "removewalk"
  /\ \/ /\ Throws(ver[t])
        /\ Return(t, "broken")
        /\ UNCHANGED <<obj, pos, disturbed>>
     \/ /\ AtEnd(pos[t], ver[t])
        /\ Return(t, "refused")
        /\ UNCHANGED <<obj, pos, disturbed>>
     \/ /\ Yields(pos[t], ver[t])
        /\ UDN[Current(pos[t])] # target[t]
        /\ pos' = [pos EXCEPT ![t] = @ + 1]
        /\ UNCHANGED <<pc, outcome, obj, disturbed>>
     \/ /\ Yields(pos[t], ver[t])
        /\ UDN[Current(pos[t])] = target[t]
        /\ obj' = [obj EXCEPT ![t] = Current(pos[t])]
        /\ Goto(t, "erase")
        /\ Disturb(t, target[t])
        /\ UNCHANGED <<outcome, pos>>
  /\ UNCHANGED <<list, loaded, op, target, ver, window, addedBy>>

\* Mutant of Erase: the window is not told.
EraseQuietly(t) ==
  /\ pc[t] = "erase"
  /\ \/ \E i \in 1 .. Len(Devices) :
          /\ Devices[i] = obj[t]
          /\ Devices' = RemoveAt(Devices, i)
          /\ version' = version + 1
     \/ ~Lists(obj[t]) /\ UNCHANGED list
  /\ Return(t, "ok")
  /\ UNCHANGED <<loaded, op, obj, target, enum, window, hist>>

\* Devices.Remove(device): nothing happens if another thread removed it.
Erase(t) ==
  /\ pc[t] = "erase"
  /\ \/ \E i \in 1 .. Len(Devices) :
          /\ Devices[i] = obj[t]
          /\ Devices' = RemoveAt(Devices, i)
          /\ version' = version + 1
     \/ ~Lists(obj[t]) /\ UNCHANGED list
  /\ Goto(t, "report")
  /\ UNCHANGED <<loaded, op, outcome, obj, target, enum, window, hist>>

-----------------------------------------------------------------------------
(* OnDeviceAvailable and OnDeviceUnavailable: MainForm.Invoke.             *)

\* The delegate is queued.  The UI thread's own goes last, and it runs the
\* whole queue before Invoke returns.
Invoke(t) ==
  /\ pc[t] = "report"
  /\ form = "shown"
  /\ invoked' = Append(invoked, t)
  /\ Goto(t, "invoke")
  /\ UNCHANGED <<list, loaded, op, outcome, obj, target, enum, form, nodes,
                 hist>>

\* There is no window handle yet, or none any more: Invoke throws.
InvokeThrows(t) ==
  /\ pc[t] = "report"
  /\ form # "shown"
  /\ Return(t, "failed")
  /\ disturbed' = disturbed \cup {Name(t)}
  /\ UNCHANGED <<list, loaded, op, obj, target, enum, window, addedBy>>

InsertRootDevice(o) ==
  nodes' = IF Shows(UDN[o]) THEN nodes ELSE nodes \cup {o}

RemoveRootDevice(o) ==
  nodes' = {n \in nodes : UDN[n] # UDN[o]}

\* The message loop, or the UI thread's own Invoke, runs the next delegate.
RunDelegate ==
  /\ pc[UI] \in {"idle", "invoke"}
  /\ form = "shown"
  /\ invoked # <<>>
  /\ LET t == Head(invoked) IN
       /\ IF op[t] = "add" THEN InsertRootDevice(obj[t])
                           ELSE RemoveRootDevice(obj[t])
       /\ Return(t, "ok")
  /\ invoked' = Tail(invoked)
  /\ UNCHANGED <<list, loaded, op, obj, target, enum, form, hist>>

\* Mutant of Done: the enumerator is left before the first device.
DoneBefore(t) ==
  /\ pc[t] = "return"
  /\ Goto(t, "idle")
  /\ op' = [op EXCEPT ![t] = "none"]
  /\ outcome' = [outcome EXCEPT ![t] = "none"]
  /\ obj' = [obj EXCEPT ![t] = NoObject]
  /\ target' = [target EXCEPT ![t] = NoName]
  /\ pos' = [pos EXCEPT ![t] = -1]
  /\ ver' = [ver EXCEPT ![t] = 0]
  /\ UNCHANGED <<list, loaded, window, hist>>

\* The message handler, the search result or the menu command is done.
Done(t) ==
  /\ pc[t] = "return"
  /\ Goto(t, "idle")
  /\ op' = [op EXCEPT ![t] = "none"]
  /\ outcome' = [outcome EXCEPT ![t] = "none"]
  /\ obj' = [obj EXCEPT ![t] = NoObject]
  /\ target' = [target EXCEPT ![t] = NoName]
  /\ pos' = [pos EXCEPT ![t] = 0]
  /\ ver' = [ver EXCEPT ![t] = 0]
  /\ UNCHANGED <<list, loaded, window, hist>>

-----------------------------------------------------------------------------
(* The window.                                                             *)

\* The constructor of MainForm started the listener and a search; its handle
\* is created when Application.Run shows it.
ShowForm ==
  /\ form = "constructed"
  /\ form' = "shown"
  /\ UNCHANGED <<list, loaded, locals, nodes, invoked, hist>>

CloseForm ==
  /\ form = "shown"
  /\ pc[UI] = "idle"
  /\ Goto(UI, "stop")
  /\ UNCHANGED <<list, loaded, op, outcome, obj, target, enum, window, hist>>

\* FormClosed: HTTPUDPListener.Stop takes the ProcessingMutex, which Listen
\* holds while it handles a message, and aborts the thread.
StopListener ==
  /\ pc[UI] = "stop"
  /\ pc[Listen] = "idle"
  /\ pc' = [pc EXCEPT ![UI] = "destroy", ![Listen] = "aborted"]
  /\ UNCHANGED <<list, loaded, op, outcome, obj, target, enum, window, hist>>

Waiting == {t \in Threads : pc[t] = "invoke"}

\* The handle is destroyed: the delegates that wait are not run, and Invoke
\* throws in their threads.
DestroyHandle ==
  /\ pc[UI] = "destroy"
  /\ form' = "closed"
  /\ invoked' = <<>>
  /\ pc' = [t \in Threads |-> IF t = UI THEN "closed"
                              ELSE IF t \in Waiting THEN "return" ELSE pc[t]]
  /\ outcome' = [t \in Threads |-> IF t \in Waiting THEN "failed"
                                                    ELSE outcome[t]]
  /\ disturbed' = disturbed \cup {Name(t) : t \in Waiting}
  /\ UNCHANGED <<list, loaded, op, obj, target, enum, nodes, addedBy>>

-----------------------------------------------------------------------------
Call(t) == BeginAdd(t) \/ \E u \in UDNs : BeginRemove(t, u)

LoadStep(t) == LoadFails(t) \/ \E o \in Objects : Loaded(t, o)

Step(t) ==
  \/ AddNext(t) \/ List(t) \/ RemoveNext(t) \/ Erase(t)
  \/ Invoke(t) \/ InvokeThrows(t) \/ Done(t)

Close == StopListener \/ DestroyHandle

Next ==
  \/ \E t \in Threads : Call(t) \/ LoadStep(t) \/ Step(t)
  \/ RunDelegate
  \/ ShowForm
  \/ CloseForm
  \/ Close

Spec == Init /\ [][Next]_vars

\* Threads are scheduled, a load ends (HttpWebRequest times out) and the form
\* is shown.  Strong fairness: the message loop takes a posted delegate before
\* new input, and a mutex is granted to whoever has waited.
Fairness ==
  /\ \A t \in Threads : WF_vars(LoadStep(t)) /\ WF_vars(Step(t))
  /\ WF_vars(ShowForm)
  /\ SF_vars(RunDelegate) /\ SF_vars(Close)

FairSpec == Spec /\ Fairness

-----------------------------------------------------------------------------
(* Properties.                                                             *)

\* Every variable keeps its type; a thread's operation, outcome and device are
\* those of AddDevice and RemoveDevice.
TypeOK ==
  /\ Devices \in Seq(Objects)
  /\ version \in Nat
  /\ loaded \subseteq Objects
  /\ pc \in [Threads -> {"idle", "load", "addwalk", "append", "removewalk",
                         "erase", "report", "invoke", "return", "stop",
                         "destroy", "closed", "aborted"}]
  /\ op \in [Threads -> {"none", "add", "remove"}]
  /\ outcome \in [Threads -> {"none", "ok", "refused", "broken", "failed"}]
  /\ obj \in [Threads -> Objects \cup {NoObject}]
  /\ target \in [Threads -> UDNs]
  /\ pos \in [Threads -> Nat]
  /\ ver \in [Threads -> Nat]
  /\ form \in {"constructed", "shown", "closed"}
  /\ nodes \subseteq Objects
  /\ invoked \in Seq(Threads)
  /\ addedBy \in [Objects -> Threads]
  /\ disturbed \subseteq UDNs

\* AddDevice refuses a device, and RemoveDevice a name, only for what the list
\* holds, unless the list changed since (lines 90-92 and 73-84).
RefusalIsRight ==
  \A t \in Threads :
    (pc[t] = "return" /\ outcome[t] = "refused") =>
      Throws(ver[t]) \/ ((op[t] = "add") = ListsName(Name(t)))

\* AddDevice says "Device already exit" of a name that is listed (line 92), but
\* two threads that both miss it list it twice.  Devices that are listed under
\* one name were listed by different threads: the check fails only against
\* another thread's Add.
TwinsComeFromTwoThreads ==
  \A i, j \in 1 .. Len(Devices) :
    (i # j /\ UDN[Devices[i]] = UDN[Devices[j]]) =>
      addedBy[Devices[i]] # addedBy[Devices[j]]

\* The tree shows a device if and only if the list holds it, whenever no call
\* about it is under way, unless two such calls overlapped or Invoke threw.
TreeAgrees ==
  \A u \in UDNs \ disturbed :
    (\A t \in Threads : ~Changing(t, u)) => (ListsName(u) <=> Shows(u))

\* The listener waits for the UI thread, which waits for the listener.
Deadlocked == pc[UI] = "stop" /\ pc[Listen] = "invoke"

\* Every call, and the closing of the window, ends; what can keep them is only
\* a listener that reports to the window while it closes.
CallsEnd ==
  \A t \in Threads :
    pc[t] \notin {"idle", "aborted", "closed"}
      ~> (pc[t] \in {"idle", "aborted", "closed"} \/ Deadlocked)

=============================================================================
