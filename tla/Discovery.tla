------------------------------ MODULE Discovery ------------------------------
(***************************************************************************)
(* A device and a control point on one network: what the control point     *)
(* knows of the device while it comes, announces itself, leaves, or is     *)
(* gone without a word.                                                    *)
(*                                                                         *)
(* The host is Advertiser, which DeviceHost implements.  The control point *)
(* hears of it on two threads: Manager, the listener of the DeviceManager  *)
(* (alive, byebye), and Finder, the listener of a search (responses); each *)
(* handles one datagram at a time.  Both load the device's description,    *)
(* then those of its services, one HTTP request after the other, and then  *)
(* add the device to the table.  (DeviceManager models the threads' steps  *)
(* in the table; here an addition and a removal are one step.)             *)
(*                                                                         *)
(* Datagrams are lost, duplicated and reordered.  A request may fail at    *)
(* any time, whatever the host does: with a timeout, a reset or a text     *)
(* that is no description.                                                 *)
(***************************************************************************)
EXTENDS Naturals

CONSTANTS
  Manager,   \* the thread of the manager's listener
  Finder,    \* the thread of the search's listener
  Services   \* the number of services that the device has

Threads == {Manager, Finder}

ASSUME DiscoveryAssumption ==
  /\ Manager # Finder
  /\ Services \in Nat

VARIABLES
  phase, serving, wire,  \* of Advertiser
  stage,      \* stage[t]: "idle", or what t loads: "root", "services"; "add"
  got,        \* got[t]: the services that it has loaded
  searching,  \* the search's listener is on
  listed,     \* the device is in the table
  services,   \* the services of the device in the table
  heardBye,   \* history: a byebye was handled
  doubtful,   \* history: the loads from a host that had said byebye, or during
              \* which a byebye was handled
  late,       \* history: the device in the table comes from such a load
  cut,        \* history: the loads in which the request for a service failed
  part        \* history: the device in the table comes from such a load

Host == INSTANCE Advertiser

advertiser == <<phase, serving, wire>>
loads      == <<stage, got>>
table      == <<listed, services>>
hist       == <<heardBye, doubtful, late, cut, part>>
control    == <<loads, searching, table, hist>>
vars       == <<advertiser, control>>

Init ==
  /\ Host!Init
  /\ stage = [t \in Threads |-> "idle"]
  /\ got = [t \in Threads |-> 0]
  /\ searching = FALSE
  /\ listed = FALSE
  /\ services = 0
  /\ heardBye = FALSE
  /\ doubtful = {}
  /\ late = FALSE
  /\ cut = {}
  /\ part = FALSE

Goto(t, label) == stage' = [stage EXCEPT ![t] = label]

\* The network delivers a datagram, and may deliver it again.
Receive(datagram) ==
  /\ datagram \in wire
  /\ wire' \in {wire, wire \ {datagram}}
  /\ UNCHANGED <<phase, serving>>

-----------------------------------------------------------------------------
(* The control point's two listeners.                                      *)

\* OnNotifyAliveMessage, for the manager; OnSearchResult, for the search.
BeginLoad(t, datagram) ==
  /\ stage[t] = "idle"
  /\ Receive(datagram)
  /\ Goto(t, "root")
  /\ got' = [got EXCEPT ![t] = 0]
  /\ cut' = cut \ {t}
  /\ UNCHANGED <<searching, table, heardBye, doubtful, late, part>>

OnNotifyAliveMessage == BeginLoad(Manager, "alive")

OnSearchResult == searching /\ BeginLoad(Finder, "response")

\* OnNotifyByeMessage, RemoveDevice.
OnNotifyByeMessage ==
  /\ stage[Manager] = "idle"
  /\ Receive("bye")
  /\ listed' = FALSE
  /\ services' = 0
  /\ heardBye' = TRUE
  /\ doubtful' = doubtful \cup {t \in Threads : stage[t] # "idle"}
  /\ late' = FALSE
  /\ part' = FALSE
  /\ UNCHANGED <<loads, searching, cut>>

\* The rescan of the window; a search whose listener was stopped.
StartFind ==
  /\ ~searching
  /\ searching' = TRUE
  /\ UNCHANGED <<advertiser, loads, table, hist>>

\* The expiry stops the listener, but waits for its handler.
CancelFind ==
  /\ searching
  /\ stage[Finder] = "idle"
  /\ searching' = FALSE
  /\ UNCHANGED <<advertiser, loads, table, hist>>

-----------------------------------------------------------------------------
(* DeviceDescription.Load, and AddDevice.                                  *)

\* The request for root.xml is answered.
LoadRoot(t) ==
  /\ stage[t] = "root"
  /\ serving = "yes"
  /\ Goto(t, "services")
  /\ doubtful' = IF phase = "leaving" THEN doubtful \cup {t} ELSE doubtful \ {t}
  /\ UNCHANGED <<advertiser, got, searching, table, heardBye, late, cut, part>>

\* Mutant of LoadRootFails: the exception is caught too early, and the load
\* goes on.
LoadRootCatches(t) ==
  /\ stage[t] = "root"
  /\ Goto(t, "services")
  /\ UNCHANGED <<advertiser, got, searching, table, hist>>

\* The request for root.xml fails, for whatever reason: its exception ends the
\* handler, which catches it.
LoadRootFails(t) ==
  /\ stage[t] = "root"
  /\ Goto(t, "idle")
  /\ UNCHANGED <<advertiser, got, searching, table, hist>>

\* Mutant of LoadService: one service too many.
LoadServiceBeyond(t) ==
  /\ stage[t] = "services"
  /\ \/ /\ got[t] <= Services
        /\ serving = "yes"
        /\ got' = [got EXCEPT ![t] = @ + 1]
        /\ UNCHANGED stage
     \/ /\ got[t] = Services
        /\ Goto(t, "add")
        /\ UNCHANGED got
  /\ UNCHANGED <<advertiser, searching, table, hist>>

\* Mutant of LoadService: the loop ends one service too early.
LoadServiceShort(t) ==
  /\ stage[t] = "services"
  /\ \/ /\ got[t] + 1 < Services
        /\ serving = "yes"
        /\ got' = [got EXCEPT ![t] = @ + 1]
        /\ UNCHANGED stage
     \/ /\ got[t] + 1 = Services
        /\ Goto(t, "add")
        /\ UNCHANGED got
  /\ UNCHANGED <<advertiser, searching, table, hist>>

\* The request for a service is answered; or there is none left to load.
LoadService(t) ==
  /\ stage[t] = "services"
  /\ \/ /\ got[t] < Services
        /\ serving = "yes"
        /\ got' = [got EXCEPT ![t] = @ + 1]
        /\ UNCHANGED stage
     \/ /\ got[t] = Services
        /\ Goto(t, "add")
        /\ UNCHANGED got
  /\ UNCHANGED <<advertiser, searching, table, hist>>

\* The request for a service fails, for whatever reason.  The constructor of
\* Device catches the exception around its loop, and keeps the services that it
\* has.
LoadServiceFails(t) ==
  /\ stage[t] = "services"
  /\ got[t] < Services
  /\ Goto(t, "add")
  /\ cut' = cut \cup {t}
  /\ UNCHANGED <<advertiser, got, searching, table, heardBye, doubtful, late, part>>

AddDevice(t) ==
  /\ stage[t] = "add"
  /\ IF listed
       THEN UNCHANGED <<table, late, part>>
       ELSE /\ listed' = TRUE
            /\ services' = got[t]
            /\ late' = (t \in doubtful)
            /\ part' = (t \in cut)
  /\ Goto(t, "idle")
  /\ UNCHANGED <<advertiser, got, searching, heardBye, doubtful, cut>>

-----------------------------------------------------------------------------
Load(t) ==
  \/ LoadRoot(t) \/ LoadRootFails(t)
  \/ LoadService(t) \/ LoadServiceFails(t)
  \/ AddDevice(t)

\* What the host and the network do.
Outside == Host!Next /\ UNCHANGED control

Next ==
  \/ Outside
  \/ OnNotifyAliveMessage \/ OnNotifyByeMessage \/ OnSearchResult
  \/ StartFind \/ CancelFind
  \/ \E t \in Threads : Load(t)

Spec == Init /\ [][Next]_vars

\* A host that stays up serves and announces itself again and again
\* (DeviceHost's AnnouncedWhileServed); threads are scheduled, and a request
\* ends, at the latest with a timeout; of the announcements that are sent again
\* and again some arrive, and of the requests for root.xml of a host that serves
\* some are answered.  Of the services nothing is assumed.
Fairness ==
  /\ WF_vars(Host!Serve /\ UNCHANGED control)
  /\ WF_vars(Host!Announce /\ UNCHANGED control)
  /\ SF_vars(OnNotifyAliveMessage)
  /\ SF_vars(LoadRoot(Manager))
  /\ \A t \in Threads : WF_vars(Load(t))

FairSpec == Spec /\ Fairness

-----------------------------------------------------------------------------
(* Properties.                                                             *)

\* Every variable keeps its type, and a thread that adds the device has no more
\* services of it than there are.
TypeOK ==
  /\ phase \in {"off", "up", "leaving", "gone"}
  /\ serving \in {"not yet", "yes", "no more"}
  /\ wire \subseteq {"alive", "response", "bye"}
  /\ stage \in [Threads -> {"idle", "root", "services", "add"}]
  /\ got \in [Threads -> 0 .. Services]
  /\ searching \in BOOLEAN
  /\ listed \in BOOLEAN
  /\ services \in 0 .. Services
  /\ heardBye \in BOOLEAN
  /\ doubtful \subseteq Threads
  /\ late \in BOOLEAN
  /\ cut \subseteq Threads
  /\ part \in BOOLEAN

\* A device is still listed after its byebye was handled only if it was loaded
\* in the time between its byebye and the end of its HTTPServer, or by the
\* search while the byebye was handled: no announcement that arrives late, or
\* again, brings it back.
ByeIsFinal ==
  heardBye /\ listed => late

\* A host that stays up is listed in the end, whatever announcements and requests
\* are lost and whichever came before it served; and it is listed with all of
\* its services, unless the load that listed it lost one of their requests
\* (lines 89 to 100 of DeviceDescription.cs keep what was loaded before).
LiveHostIsListed ==
  phase = "up" ~> \/ phase # "up"
                  \/ listed /\ (services = Services \/ part)
=============================================================================
