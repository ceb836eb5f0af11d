---------------------------- MODULE DeviceFinder ----------------------------
(***************************************************************************)
(* A search (src/UPnPStack/DeviceFinder.cs): StartFind starts a listener   *)
(* of its own, sends M-SEARCH and arms a timer; CancelFind, which a client *)
(* or the timer calls, stops the listener.  The client's handlers run on   *)
(* the listener's thread and may cancel the search too (HandlersStop).     *)
(*                                                                         *)
(* The steps of the listener are those of HTTPUDPListener; here the finder *)
(* says which thread takes them when.                                      *)
(***************************************************************************)
EXTENDS HTTPUDPListener

CONSTANTS
  Starter,  \* of the Callers: the client's thread that calls StartFind
  Timer     \* and the pool's thread that runs OnExpire

VARIABLES
  m_Searching,    \* the field
  m_ExpireTimer,  \* "null", "set", "fired" or "disposed"
  at,             \* at[t]: where thread t is in the finder
  completed,      \* history: OnSearchComplete was called
  cancelled       \* history: a client saw m_Searching and went on to Stop

\* The client's threads.
Users == Callers \ {Timer}

ASSUME FinderAssumption == Timer \in Callers /\ Starter \in Users

finder == <<m_Searching, m_ExpireTimer, at, completed, cancelled>>
vars   == <<listener, finder>>

Go(t, label) == at' = [at EXCEPT ![t] = label]

FinderInit ==
  /\ Init
  /\ m_Searching = FALSE
  /\ m_ExpireTimer = "null"
  /\ at = [t \in Threads |-> "idle"]
  /\ completed = FALSE
  /\ cancelled = FALSE

-----------------------------------------------------------------------------
(* StartFind.                                                              *)

StartFind ==
  /\ at[Starter] = "idle"
  /\ Start
  /\ Go(Starter, "send")
  /\ UNCHANGED <<m_Searching, m_ExpireTimer, completed, cancelled>>

\* SendTo may throw: the listener runs on, and CancelFind will not stop it.
SendSearch ==
  /\ at[Starter] = "send"
  /\ Go(Starter, "search") \/ Go(Starter, "idle")
  /\ UNCHANGED <<listener, m_Searching, m_ExpireTimer, completed, cancelled>>

SetSearching ==
  /\ at[Starter] = "search"
  /\ m_Searching' = TRUE
  /\ Go(Starter, "arm")
  /\ UNCHANGED <<listener, m_ExpireTimer, completed, cancelled>>

ArmTimer ==
  /\ at[Starter] = "arm"
  /\ m_ExpireTimer' = "set"
  /\ Go(Starter, "idle")
  /\ UNCHANGED <<listener, m_Searching, completed, cancelled>>

-----------------------------------------------------------------------------
(* CancelFind and OnExpire.                                                *)

\* Mutant of AfterCancel: the timer's thread is done too.
AfterCancelIdle(t) == Go(t, "idle")

\* What follows CancelFind in the thread that called it.
AfterCancel(t) == Go(t, IF t = Timer THEN "complete" ELSE "idle")

\* A client's thread, or the client's handler of a search result.
CallCancel(t) ==
  /\ IF t = Listener THEN HandlersStop /\ pc[t] = "handle" ELSE t \in Users
  /\ at[t] = "idle"
  /\ Go(t, "check")
  /\ UNCHANGED <<listener, m_Searching, m_ExpireTimer, completed, cancelled>>

\* The timer is due after m_Expiration seconds, when the listener's thread has
\* long run.
Expire ==
  /\ m_ExpireTimer = "set"
  /\ pc[Listener] # "new"
  /\ m_ExpireTimer' = "fired"
  /\ Go(Timer, "check")
  /\ UNCHANGED <<listener, m_Searching, completed, cancelled>>

\* Mutant of CheckSearching: the flag is cleared first.
CheckAndClear(t) ==
  /\ at[t] = "check"
  /\ IF m_Searching
       THEN /\ BeginStop(t)
            /\ Go(t, "stop")
            /\ cancelled' = (cancelled \/ t # Timer)
       ELSE /\ AfterCancel(t)
            /\ UNCHANGED <<listener, cancelled>>
  /\ m_Searching' = FALSE
  /\ UNCHANGED <<m_ExpireTimer, completed>>

CheckSearching(t) ==
  /\ at[t] = "check"
  /\ IF m_Searching
       THEN /\ BeginStop(t)
            /\ Go(t, "stop")
            /\ cancelled' = (cancelled \/ t # Timer)
       ELSE /\ AfterCancel(t)
            /\ UNCHANGED <<listener, cancelled>>
  /\ UNCHANGED <<m_Searching, m_ExpireTimer, completed>>

\* In HTTPUDPListener.Stop.
Stopping(t) ==
  /\ Wait(t) \/ StopStep(t)
  /\ UNCHANGED finder

Stopped(t) ==
  /\ at[t] = "stop"
  /\ pc[t] = "stopped"
  /\ Done(t)
  /\ Go(t, "dispose")
  /\ UNCHANGED <<m_Searching, m_ExpireTimer, completed, cancelled>>

\* The client gets the exception of Stop.
StopThrew(t) ==
  /\ t \in Users
  /\ at[t] = "stop"
  /\ pc[t] = "threw"
  /\ Done(t)
  /\ Go(t, "idle")
  /\ UNCHANGED <<m_Searching, m_ExpireTimer, completed, cancelled>>

\* The timer's thread does not catch it.
ExpireThrew ==
  /\ at[Timer] = "stop"
  /\ pc[Timer] = "threw"
  /\ running' = FALSE
  /\ UNCHANGED <<ProcessingMutex, owner, socket, pc, finder>>

\* Mutant of DisposeTimer: the field is reset.
DisposeReset(t) ==
  /\ at[t] = "dispose"
  /\ Go(t, "clear")
  /\ m_ExpireTimer' = None
  /\ UNCHANGED <<listener, m_Searching, completed, cancelled>>

\* m_ExpireTimer.Dispose(): a callback that has begun goes on; the field may
\* be null still, and the client gets the exception.
DisposeTimer(t) ==
  /\ at[t] = "dispose"
  /\ IF m_ExpireTimer = "null"
       THEN Go(t, "idle") /\ UNCHANGED m_ExpireTimer
       ELSE /\ Go(t, "clear")
            /\ m_ExpireTimer' = IF m_ExpireTimer = "set" THEN "disposed"
                                                         ELSE m_ExpireTimer
  /\ UNCHANGED <<listener, m_Searching, completed, cancelled>>

ClearSearching(t) ==
  /\ at[t] = "clear"
  /\ m_Searching' = FALSE
  /\ AfterCancel(t)
  /\ UNCHANGED <<listener, m_ExpireTimer, completed, cancelled>>

Complete ==
  /\ at[Timer] = "complete"
  /\ completed' = TRUE
  /\ Go(Timer, "idle")
  /\ UNCHANGED <<listener, m_Searching, m_ExpireTimer, cancelled>>

-----------------------------------------------------------------------------
\* DoListen and OnSearchResult: a handler that cancels does not leave.
Search ==
  /\ CreateMutex \/ Receive \/ Enter \/ Unblock
     \/ (at[Listener] = "idle" /\ Leave)
  /\ UNCHANGED finder

StartStep == SendSearch \/ SetSearching \/ ArmTimer

Cancel(t) ==
  \/ CheckSearching(t) \/ Stopped(t) \/ StopThrew(t)
  \/ DisposeTimer(t) \/ ClearSearching(t)

FinderNext ==
  /\ running
  /\ \/ StartFind \/ StartStep \/ Search \/ Expire \/ ExpireThrew \/ Complete
     \/ \E t \in Threads : CallCancel(t) \/ Cancel(t) \/ Stopping(t)

FinderSpec == FinderInit /\ [][FinderNext]_vars

\* The listener's fairness, and: threads are scheduled, timers are due.
FinderFairness ==
  /\ WF_vars(running /\ (CreateMutex /\ UNCHANGED finder))
  /\ WF_vars(running /\ at[Listener] = "idle" /\ Leave /\ UNCHANGED finder)
  /\ WF_vars(running /\ socket = "closed" /\ Unblock /\ UNCHANGED finder)
  /\ SF_vars(running /\ Enter /\ UNCHANGED finder)
  /\ WF_vars(running /\ StartStep)
  /\ WF_vars(running /\ (Expire \/ ExpireThrew \/ Complete))
  /\ \A t \in Threads :
       WF_vars(running /\ Cancel(t)) /\ SF_vars(running /\ Stopping(t))

FinderFairSpec == FinderSpec /\ FinderFairness

-----------------------------------------------------------------------------
(* Properties.                                                             *)

FinderTypeOK ==
  /\ TypeOK
  /\ m_Searching \in BOOLEAN
  /\ m_ExpireTimer \in {"null", "set", "fired", "disposed"}
  /\ at \in [Threads -> {"idle", "send", "search", "arm", "check", "stop",
                         "dispose", "clear", "complete"}]
  /\ completed \in BOOLEAN
  /\ cancelled \in BOOLEAN

\* Once the timer is armed, m_Searching is FALSE only when the listener is
\* stopped and the timer will not expire any more.
SearchingIsTrue ==
  (m_ExpireTimer # "null" /\ ~m_Searching) =>
    socket = "closed" /\ ~Handling /\ m_ExpireTimer # "set"

\* After OnSearchComplete the client is given no result.
NoResultAfterComplete == completed => ~Handling

\* Only a client that cancels, while the timer or another client does, can end
\* the process.
EndsOnlyAfterCancel == ~running => cancelled

\* What CancelFind promises its callers, in the order in which it is called by
\* the client's threads, handlers and timer (lines 39-59).
SearchIsSafe ==
  SearchingIsTrue /\ NoResultAfterComplete /\ EndsOnlyAfterCancel

\* A search that no client cancels completes.
SearchCompletes == m_ExpireTimer = "set" ~> (completed \/ cancelled)
=============================================================================
