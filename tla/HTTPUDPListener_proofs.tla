----------------------- MODULE HTTPUDPListener_proofs -----------------------
(***************************************************************************)
(* Proofs about HTTPUDPListener, for any number of threads that stop it,   *)
(* and about DeviceFinder, which extends it, for any number of threads     *)
(* that cancel the search.                                                 *)
(***************************************************************************)
EXTENDS DeviceFinder, TLAPS

\* Every variable keeps its type.
THEOREM TypeCorrect == Spec => []TypeOK
<1>1. Init => TypeOK
  BY ListenerAssumption DEF Init, TypeOK, Threads
<1>2. TypeOK /\ [Next]_listener => TypeOK'
  <2> SUFFICES ASSUME TypeOK, [Next]_listener PROVE TypeOK'
    OBVIOUS
  <2> USE ListenerAssumption DEF TypeOK, Threads, Goto
  <2>1. CASE Listen
    BY <2>1 DEF Listen, Start, CreateMutex, Receive, Enter, Leave, Unblock
  <2>2. ASSUME NEW t \in Threads, CallStop(t) \/ Wait(t) \/ StopStep(t)
        PROVE  TypeOK'
    BY <2>2 DEF CallStop, BeginStop, Wait, Acquire, AcquireAbandoned,
       StopStep, AbortSelf, Abort, CloseMutex, CloseSocket
  <2>3. ASSUME NEW c \in Callers, Done(c)
        PROVE  TypeOK'
    BY <2>3 DEF Done
  <2>4. CASE UNCHANGED listener
    BY <2>4 DEF listener
  <2>5. QED
    BY <2>1, <2>2, <2>3, <2>4 DEF Next
<1>3. QED
  BY <1>1, <1>2, PTL DEF Spec

-----------------------------------------------------------------------------
\* The listening thread is gone, or will be when ReceiveFrom returns.
Over == pc[Listener] \in {"doomed", "ended"}

\* The mutex is made by the listening thread, before it receives, and only then
\* waited for.
MadeOK ==
  /\ (ProcessingMutex = "null") <=> (pc[Listener] \in {"unborn", "new"})
  /\ \A c \in Callers : pc[c] = "wait" => ProcessingMutex # "null"

\* A handler owns the mutex.
HandlerOK == (owner = Listener) <=> Handling

\* So does a Stop past WaitOne; only while it is about to abort the thread may
\* that one still receive.
StopperOK ==
  \A c \in Callers :
    /\ pc[c] \in {"abort", "closemutex", "closesocket"} => owner = c
    /\ pc[c] \in {"closemutex", "closesocket"} => Over
    /\ owner = c =>
         Over \/ (pc[c] = "abort" /\ pc[Listener] \in {"receive", "enter"})

\* What is closed, or abandoned, is so after the thread was aborted.
ClosedOK ==
  /\ ProcessingMutex = "closed" => Over
  /\ socket = "closed" => Over
  /\ owner = Abandoned => Over

\* Each thread is in its own code.
PlaceOK ==
  /\ pc[Listener] \in {"unborn", "new", "receive", "enter", "handle", "wait",
                       "abort", "doomed", "ended"}
  /\ \A c \in Callers : pc[c] \in {"idle", "wait", "abort", "closemutex",
                                   "closesocket", "stopped", "threw"}
  /\ \A c \in Callers : pc[c] = "stopped" => socket = "closed"

StopInv ==
  MadeOK /\ HandlerOK /\ StopperOK /\ ClosedOK /\ PlaceOK

LEMMA StopStepInv ==
  TypeOK /\ StopInv /\ [Next]_listener => StopInv' /\ (running => running')
<1> SUFFICES ASSUME TypeOK, StopInv, [Next]_listener
             PROVE  StopInv' /\ (running => running')
  OBVIOUS
<1> USE ListenerAssumption
    DEF StopInv, MadeOK, HandlerOK, StopperOK, ClosedOK, PlaceOK, Over,
        Handling, TypeOK, Threads, Goto
<1>1. CASE Start \/ CreateMutex
  BY <1>1 DEF Start, CreateMutex
<1>2. CASE Receive
  BY <1>2 DEF Receive
<1>3. CASE Enter
  BY <1>3 DEF Enter
<1>4. CASE Leave
  BY <1>4 DEF Leave
<1>5. CASE Unblock
  BY <1>5 DEF Unblock
<1>6. ASSUME NEW t \in Threads, CallStop(t)
      PROVE  StopInv' /\ (running => running')
  BY <1>6 DEF CallStop, BeginStop
<1>7. ASSUME NEW t \in Threads, Acquire(t)
      PROVE  StopInv' /\ (running => running')
  BY <1>7 DEF Acquire
<1>8. ASSUME NEW t \in Threads, AcquireAbandoned(t)
      PROVE  StopInv' /\ (running => running')
  BY <1>8 DEF AcquireAbandoned
<1>9. ASSUME NEW t \in Threads, AbortSelf(t)
      PROVE  StopInv' /\ (running => running')
  BY <1>9 DEF AbortSelf
<1>10. ASSUME NEW t \in Threads, Abort(t)
       PROVE  StopInv' /\ (running => running')
  BY <1>10 DEF Abort
<1>11. ASSUME NEW t \in Threads, CloseMutex(t) \/ CloseSocket(t)
       PROVE  StopInv' /\ (running => running')
  BY <1>11 DEF CloseMutex, CloseSocket
<1>12. ASSUME NEW c \in Callers, Done(c)
       PROVE  StopInv' /\ (running => running')
  BY <1>12 DEF Done
<1>13. CASE UNCHANGED listener
  BY <1>13 DEF listener
<1>14. QED
  BY <1>1, <1>2, <1>3, <1>4, <1>5, <1>6, <1>7, <1>8, <1>9, <1>10, <1>11,
     <1>12, <1>13 DEF Next, Listen, Wait, StopStep

LEMMA StopInvariant == Spec => [](StopInv /\ running)
<1>1. Init => StopInv /\ running
  BY ListenerAssumption
     DEF Init, StopInv, MadeOK, HandlerOK, StopperOK, ClosedOK, PlaceOK, Over,
         Handling, Threads
<1>2. TypeOK /\ (StopInv /\ running) /\ [Next]_listener
        => (StopInv /\ running)'
  BY StopStepInv
<1>3. QED
  BY <1>1, <1>2, TypeCorrect, PTL DEF Spec

\* Once Stop has the mutex no handler runs, but the one that calls it.
THEOREM StopCorrect == Spec => []StopExcludesHandlers
<1>1. TypeOK /\ StopInv => StopExcludesHandlers
  BY ListenerAssumption
     DEF TypeOK, StopInv, HandlerOK, StopperOK, ClosedOK, Over, Handling,
         StopExcludesHandlers, Threads
<1>2. QED
  BY <1>1, TypeCorrect, StopInvariant, PTL

\* The listening thread never meets a closed mutex or socket, nor an abandoned
\* mutex, whoever stops it.
THEOREM NeverCrashesCorrect == Spec => []NeverCrashes
<1>1. running => NeverCrashes
  BY DEF NeverCrashes
<1>2. QED
  BY <1>1, StopInvariant, PTL

-----------------------------------------------------------------------------
(* The search.  Its steps are the listener's, or leave the listener alone, *)
(* so that it keeps the listener's invariant; the process may end only by  *)
(* the exception of a Stop in the timer's thread.                          *)

\* What StartFind has done.
StartOK ==
  /\ \A t \in Threads \ {Starter} : at[t] \notin {"send", "search", "arm"}
  /\ at[Starter] \in {"send", "search", "arm"} =>
       pc[Listener] # "unborn" /\ m_ExpireTimer = "null"
  /\ at[Starter] = "arm" => m_Searching
  /\ m_Searching \/ m_ExpireTimer # "null" => pc[Listener] # "unborn"

\* Who is in Stop, and what it has done.
CancelOK ==
  /\ \A c \in Callers : pc[c] = "idle" <=> at[c] # "stop"
  /\ at[Listener] \in {"idle", "check", "stop"}
  /\ at[Listener] # "idle" => HandlersStop
  /\ at[Listener] = "check" => pc[Listener] = "handle"
  /\ pc[Listener] \in {"wait", "abort"} => at[Listener] = "stop"
  /\ \A c \in Callers :
       /\ at[c] \in {"dispose", "clear"} => socket = "closed"
       /\ at[c] = "clear" => m_ExpireTimer \notin {"null", "set"}

\* The timer fires once, and completes the search when it is stopped.
TimerOK ==
  /\ at[Timer] # "idle" => m_ExpireTimer = "fired"
  /\ m_ExpireTimer = "fired" => pc[Listener] \notin {"unborn", "new"}
  /\ at[Timer] = "complete" \/ completed => socket = "closed"

\* As long as no client cancels, nobody but the timer stops the listener.
NobodyCancels ==
  /\ running
  /\ \A t \in Threads \ {Timer} : at[t] \notin {"stop", "dispose", "clear"}
  /\ pc[Timer] # "threw"
  /\ owner # Abandoned
  /\ at[Timer] = "check" \/ m_ExpireTimer # "fired" =>
       ProcessingMutex # "closed"

SearchInv ==
  /\ StopInv
  /\ StartOK /\ CancelOK /\ TimerOK /\ SearchingIsTrue
  /\ cancelled \/ NobodyCancels

\* Every variable keeps its type.
THEOREM FinderTypeCorrect == FinderSpec => []FinderTypeOK
<1>1. FinderInit => FinderTypeOK
  BY ListenerAssumption
     DEF FinderInit, Init, FinderTypeOK, TypeOK, Threads
<1>2. FinderTypeOK /\ [FinderNext]_vars => FinderTypeOK'
  <2> SUFFICES ASSUME FinderTypeOK, [FinderNext]_vars PROVE FinderTypeOK'
    OBVIOUS
  <2> USE ListenerAssumption, FinderAssumption
      DEF FinderTypeOK, TypeOK, Threads, Users, Goto, Go, listener, finder
  <2>1. CASE StartFind
    BY <2>1 DEF StartFind, Start
  <2>2. CASE StartStep
    <3>1. CASE SendSearch
      BY <3>1 DEF SendSearch
    <3>2. CASE SetSearching
      BY <3>2 DEF SetSearching
    <3>3. CASE ArmTimer
      BY <3>3 DEF ArmTimer
    <3>4. QED
      BY <2>2, <3>1, <3>2, <3>3 DEF StartStep
  <2>3. CASE Search
    <3>1. CASE CreateMutex \/ Receive \/ Unblock
      BY <2>3, <3>1 DEF Search, CreateMutex, Receive, Unblock
    <3>2. CASE Enter \/ Leave
      BY <2>3, <3>2 DEF Search, Enter, Leave
    <3>3. QED
      BY <2>3, <3>1, <3>2 DEF Search
  <2>4. CASE Expire \/ ExpireThrew \/ Complete
    BY <2>4 DEF Expire, ExpireThrew, Complete
  <2>5. ASSUME NEW t \in Threads, CallCancel(t)
        PROVE  FinderTypeOK'
    BY <2>5 DEF CallCancel
  <2>6. ASSUME NEW t \in Threads, CheckSearching(t)
        PROVE  FinderTypeOK'
    BY <2>6 DEF CheckSearching, BeginStop, AfterCancel
  <2>7. ASSUME NEW t \in Threads, Stopped(t) \/ StopThrew(t)
        PROVE  FinderTypeOK'
    BY <2>7 DEF Stopped, StopThrew, Done
  <2>8. ASSUME NEW t \in Threads, DisposeTimer(t)
        PROVE  FinderTypeOK'
    BY <2>8 DEF DisposeTimer
  <2>9. ASSUME NEW t \in Threads, ClearSearching(t)
        PROVE  FinderTypeOK'
    BY <2>9 DEF ClearSearching, AfterCancel
  <2>10. ASSUME NEW t \in Threads, Stopping(t)
        PROVE  FinderTypeOK'
    BY <2>10 DEF Stopping, Wait, Acquire, AcquireAbandoned, StopStep,
       AbortSelf, Abort, CloseMutex, CloseSocket
  <2>11. CASE UNCHANGED vars
    BY <2>11 DEF vars
  <2>12. QED
    BY <2>1, <2>2, <2>3, <2>4, <2>5, <2>6, <2>7, <2>8, <2>9, <2>10, <2>11
       DEF FinderNext, Cancel
<1>3. QED
  BY <1>1, <1>2, PTL DEF FinderSpec


\* The finder's steps are steps of the listener, whose handlers and threads
\* stop it, but for the exception that ends the process.
LEMMA FinderStops ==
  ASSUME FinderTypeOK, SearchInv, [FinderNext]_vars
  PROVE  StopInv' /\ (running => running' \/ ExpireThrew)
<1>1. ASSUME Next \/ UNCHANGED listener
      PROVE  StopInv' /\ (running => running')
  BY <1>1, StopStepInv DEF FinderTypeOK, SearchInv
<1>2. CASE running /\ (StartFind \/ Search)
  <2>1. Next
    BY <1>2 DEF StartFind, Search, Next, Listen
  <2>2. QED
    BY <1>1, <2>1
<1>3. ASSUME NEW t \in Threads, running, CheckSearching(t)
      PROVE  StopInv' /\ (running => running')
  <2>1. CASE BeginStop(t)
    <3>1. CallStop(t)
      BY <1>3, <2>1 DEF CheckSearching, SearchInv, CancelOK, Threads, CallStop
    <3>2. QED
      BY <1>1, <1>3, <3>1 DEF Next
  <2>2. CASE UNCHANGED listener
    BY <1>1, <2>2
  <2>3. QED
    BY <1>3, <2>1, <2>2 DEF CheckSearching
<1>4. ASSUME NEW t \in Threads, running, Stopping(t)
      PROVE  StopInv' /\ (running => running')
  BY <1>1, <1>4 DEF Stopping, Next
<1>5. ASSUME NEW t \in Threads, running, Stopped(t) \/ StopThrew(t)
      PROVE  StopInv' /\ (running => running')
  <2>1. t \in Callers /\ Done(t)
    BY <1>5 DEF Stopped, StopThrew, SearchInv, StopInv, PlaceOK, Threads, Users
  <2>2. QED
    BY <1>1, <1>5, <2>1 DEF Next
<1>6. CASE ExpireThrew
  BY <1>6 DEF ExpireThrew, SearchInv, StopInv, MadeOK, HandlerOK, StopperOK,
     ClosedOK, PlaceOK, Over, Handling
<1>7. CASE StartStep \/ Expire \/ Complete
  BY <1>1, <1>7 DEF StartStep, SendSearch, SetSearching, ArmTimer, Expire,
     Complete
<1>8. ASSUME NEW t \in Threads,
             CallCancel(t) \/ DisposeTimer(t) \/ ClearSearching(t)
      PROVE  StopInv' /\ (running => running')
  BY <1>1, <1>8 DEF CallCancel, DisposeTimer, ClearSearching
<1>9. CASE UNCHANGED vars
  BY <1>1, <1>9 DEF vars
<1>10. QED
  BY <1>2, <1>3, <1>4, <1>5, <1>6, <1>7, <1>8, <1>9 DEF FinderNext, Cancel

LEMMA SearchStepInv ==
  ASSUME FinderTypeOK, SearchInv, [FinderNext]_vars
  PROVE  SearchInv'
<1> USE ListenerAssumption, FinderAssumption
    DEF SearchInv, StartOK, CancelOK, TimerOK, SearchingIsTrue,
        NobodyCancels, StopInv, MadeOK, HandlerOK, StopperOK, ClosedOK,
        PlaceOK, Over, Handling, FinderTypeOK, TypeOK, Threads, Users, Goto,
        Go, listener, finder
<1>1. StopInv'
  BY FinderStops
<1>2. CASE StartFind
  BY <1>1, <1>2 DEF StartFind, Start
<1>3. CASE StartStep
  BY <1>1, <1>3 DEF StartStep, SendSearch, SetSearching, ArmTimer
<1>4. CASE CreateMutex /\ UNCHANGED finder
  BY <1>1, <1>4 DEF CreateMutex
<1>5. CASE (Receive \/ Enter) /\ UNCHANGED finder
  BY <1>1, <1>5 DEF Receive, Enter
<1>6. CASE (Unblock \/ (at[Listener] = "idle" /\ Leave)) /\ UNCHANGED finder
  BY <1>1, <1>6 DEF Unblock, Leave
<1>7. CASE Expire
  BY <1>1, <1>7 DEF Expire
<1>8. CASE ExpireThrew
  BY <1>1, <1>8 DEF ExpireThrew
<1>9. CASE Complete
  BY <1>1, <1>9 DEF Complete
<1>10. ASSUME NEW t \in Threads, CallCancel(t)
       PROVE  SearchInv'
  BY <1>1, <1>10 DEF CallCancel
<1>11. ASSUME NEW t \in Threads, CheckSearching(t)
       PROVE  SearchInv'
  BY <1>1, <1>11 DEF CheckSearching, BeginStop, AfterCancel
<1>12. ASSUME NEW t \in Threads, Stopped(t)
       PROVE  SearchInv'
  BY <1>1, <1>12 DEF Stopped, Done
<1>13. ASSUME NEW t \in Threads, StopThrew(t)
       PROVE  SearchInv'
  BY <1>1, <1>13 DEF StopThrew, Done
<1>14. ASSUME NEW t \in Threads, DisposeTimer(t)
       PROVE  SearchInv'
  BY <1>1, <1>14 DEF DisposeTimer
<1>15. ASSUME NEW t \in Threads, ClearSearching(t)
       PROVE  SearchInv'
  BY <1>1, <1>15 DEF ClearSearching, AfterCancel
<1>16. ASSUME NEW t \in Threads, Stopping(t)
       PROVE  SearchInv'
  <2>1. CASE Acquire(t)
    BY <1>1, <1>16, <2>1 DEF Stopping, Acquire
  <2>2. CASE AcquireAbandoned(t)
    BY <1>1, <1>16, <2>2 DEF Stopping, AcquireAbandoned
  <2>3. CASE AbortSelf(t)
    BY <1>1, <1>16, <2>3 DEF Stopping, AbortSelf
  <2>4. CASE Abort(t)
    BY <1>1, <1>16, <2>4 DEF Stopping, Abort
  <2>5. CASE CloseMutex(t)
    BY <1>1, <1>16, <2>5 DEF Stopping, CloseMutex
  <2>6. CASE CloseSocket(t)
    BY <1>1, <1>16, <2>6 DEF Stopping, CloseSocket
  <2>7. QED
    BY <1>16, <2>1, <2>2, <2>3, <2>4, <2>5, <2>6 DEF Stopping, Wait, StopStep
<1>17. CASE UNCHANGED vars
  BY <1>1, <1>17 DEF vars
<1>18. QED
  BY <1>2, <1>3, <1>4, <1>5, <1>6, <1>7, <1>8, <1>9, <1>10, <1>11, <1>12,
     <1>13, <1>14, <1>15, <1>16, <1>17 DEF FinderNext, Search, Cancel

\* Whoever cancels a search, and when: once its timer is armed, m_Searching is
\* FALSE only when its listener is stopped and the timer will not expire; no
\* result comes after OnSearchComplete; and without a client that cancels the
\* process does not end.
THEOREM SearchCorrect == FinderSpec => []SearchIsSafe
<1>1. FinderInit => SearchInv
  BY ListenerAssumption, FinderAssumption
     DEF FinderInit, Init, SearchInv, StopInv, MadeOK, HandlerOK, StopperOK,
         ClosedOK, PlaceOK, Over, Handling, StartOK, CancelOK, TimerOK,
         SearchingIsTrue, NobodyCancels, Threads, Users
<1>2. FinderTypeOK /\ SearchInv /\ [FinderNext]_vars => SearchInv'
  BY SearchStepInv
<1>3. SearchInv => SearchIsSafe
  BY DEF SearchInv, StopInv, ClosedOK, Over, Handling, TimerOK, NobodyCancels,
     SearchIsSafe, NoResultAfterComplete, EndsOnlyAfterCancel
<1>4. QED
  BY <1>1, <1>2, <1>3, FinderTypeCorrect, PTL DEF FinderSpec
=============================================================================
