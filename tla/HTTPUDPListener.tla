--------------------------- MODULE HTTPUDPListener ---------------------------
(***************************************************************************)
(* The listener of datagrams (src/UPnPStack/HTTPUDP.cs): a thread receives *)
(* from a socket and hands each datagram to the handlers, with the         *)
(* ProcessingMutex held.  Stop takes the mutex, so that it does not abort  *)
(* a handler, aborts the thread and closes the mutex and the socket.       *)
(*                                                                         *)
(* The handlers are the clients': SSDP's, a search's, a device's.  One may *)
(* itself call Stop (HandlersStop), which aborts its own thread.  Any      *)
(* number of threads may call Stop, at any time; a listener is started     *)
(* once, as everywhere in the repository.                                  *)
(***************************************************************************)
EXTENDS Naturals

CONSTANTS
  Callers,      \* the threads that call Start and Stop
  Listener,     \* the thread that Start creates
  None,
  Abandoned,    \* owner of a mutex whose owner ended
  HandlersStop  \* whether a handler may call Stop

Threads == Callers \cup {Listener}

ASSUME ListenerAssumption ==
  /\ Listener \notin Callers
  /\ None \notin Threads /\ Abandoned \notin Threads /\ None # Abandoned
  /\ HandlersStop \in BOOLEAN

VARIABLES
  ProcessingMutex,  \* the field: "null", or a mutex "open" or "closed"
  owner,            \* the thread that owns the mutex
  socket,           \* "open" or "closed"
  pc,               \* pc[t]: where thread t is
  running           \* FALSE: an exception left a thread, the process is gone

listener == <<ProcessingMutex, owner, socket, pc, running>>

Goto(t, label) == pc' = [pc EXCEPT ![t] = label]

Init ==
  /\ ProcessingMutex = "null"
  /\ owner = None
  /\ socket = "open"
  /\ pc = [t \in Threads |-> IF t = Listener THEN "unborn" ELSE "idle"]
  /\ running = TRUE

-----------------------------------------------------------------------------
(* Start and DoListen.                                                     *)

Start ==
  /\ pc[Listener] = "unborn"
  /\ Goto(Listener, "new")
  /\ UNCHANGED <<ProcessingMutex, owner, socket, running>>

CreateMutex ==
  /\ pc[Listener] = "new"
  /\ ProcessingMutex' = "open"
  /\ Goto(Listener, "receive")
  /\ UNCHANGED <<owner, socket, running>>

\* ReceiveFrom returns a datagram.  It throws on a closed socket, outside of the
\* try blocks, which ends the process.
Receive ==
  /\ pc[Listener] = "receive"
  /\ Goto(Listener, IF socket = "open" THEN "enter" ELSE "crashed")
  /\ running' = (socket = "open")
  /\ UNCHANGED <<ProcessingMutex, owner, socket>>

\* "enter processing": the handlers are called next.  WaitOne throws on a
\* closed mutex and on an abandoned one, outside of the try blocks too.
Enter ==
  /\ pc[Listener] = "enter"
  /\ ProcessingMutex = "open" => owner \in {None, Abandoned}
  /\ LET granted == ProcessingMutex = "open" /\ owner = None IN
       /\ owner' = IF granted THEN Listener ELSE owner
       /\ Goto(Listener, IF granted THEN "handle" ELSE "crashed")
       /\ running' = granted
  /\ UNCHANGED <<ProcessingMutex, socket>>

\* "leave processing": it was a request, a response, neither, or a handler
\* threw.
Leave ==
  /\ pc[Listener] = "handle"
  /\ owner' = None
  /\ Goto(Listener, "receive")
  /\ UNCHANGED <<ProcessingMutex, socket, running>>

\* An aborted thread ends when ReceiveFrom returns: a datagram came, or the
\* socket was closed.
Unblock ==
  /\ pc[Listener] = "doomed"
  /\ Goto(Listener, "ended")
  /\ UNCHANGED <<ProcessingMutex, owner, socket, running>>

-----------------------------------------------------------------------------
(* Stop.                                                                   *)

\* ProcessingMutex.WaitOne(): the field may be null, or its mutex closed.
BeginStop(t) ==
  /\ Goto(t, IF ProcessingMutex = "open" THEN "wait" ELSE "threw")
  /\ UNCHANGED <<ProcessingMutex, owner, socket, running>>

\* Mutant of Acquire: a handler is not waited for.
AcquireAtOnce(t) ==
  /\ pc[t] = "wait"
  /\ owner # Abandoned
  /\ owner' = t
  /\ Goto(t, "abort")
  /\ UNCHANGED <<ProcessingMutex, socket, running>>

Acquire(t) ==
  /\ pc[t] = "wait"
  /\ owner \in {None, t}
  /\ owner' = t
  /\ Goto(t, "abort")
  /\ UNCHANGED <<ProcessingMutex, socket, running>>

\* WaitOne takes an abandoned mutex and throws.
AcquireAbandoned(t) ==
  /\ pc[t] = "wait"
  /\ owner = Abandoned
  /\ owner' = t
  /\ Goto(t, "threw")
  /\ UNCHANGED <<ProcessingMutex, socket, running>>

\* Mutant of Abort: the mutex is closed first.
AbortLate(t) ==
  /\ pc[t] = "abort"
  /\ t # Listener
  /\ ProcessingMutex' = "closed"
  /\ Goto(t, "closemutex")
  /\ UNCHANGED <<owner, socket, running>>

\* A handler that stops its listener: the exception unwinds it, and the mutex
\* is never released.
AbortSelf(t) ==
  /\ pc[t] = "abort"
  /\ t = Listener
  /\ Goto(t, "ended")
  /\ owner' = Abandoned
  /\ UNCHANGED <<ProcessingMutex, socket, running>>

\* ListenThread.Abort(): outside ReceiveFrom it takes effect at once.
Abort(t) ==
  /\ pc[t] = "abort"
  /\ t # Listener
  /\ pc' = [pc EXCEPT ![t] = "closemutex",
                      ![Listener] = IF @ \in {"receive", "doomed"}
                                      THEN "doomed" ELSE "ended"]
  /\ UNCHANGED <<ProcessingMutex, owner, socket, running>>

\* Mutant of CloseMutex: the field is reset instead.
CloseMutexReset(t) ==
  /\ pc[t] = "closemutex"
  /\ ProcessingMutex' = None
  /\ Goto(t, "closesocket")
  /\ UNCHANGED <<owner, socket, running>>

\* The mutex is still owned: nobody who waits for it is let in.
CloseMutex(t) ==
  /\ pc[t] = "closemutex"
  /\ ProcessingMutex' = "closed"
  /\ Goto(t, "closesocket")
  /\ UNCHANGED <<owner, socket, running>>

\* Mutant of CloseSocket: the socket stays open.
CloseNothing(t) ==
  /\ pc[t] = "closesocket"
  /\ Goto(t, "stopped")
  /\ UNCHANGED <<ProcessingMutex, owner, socket, running>>

CloseSocket(t) ==
  /\ pc[t] = "closesocket"
  /\ socket' = "closed"
  /\ Goto(t, "stopped")
  /\ UNCHANGED <<ProcessingMutex, owner, running>>

Done(c) ==
  /\ pc[c] \in {"stopped", "threw"}
  /\ Goto(c, "idle")
  /\ UNCHANGED <<ProcessingMutex, owner, socket, running>>

-----------------------------------------------------------------------------
\* A client's thread, or a handler.
CallStop(t) ==
  /\ IF t = Listener THEN HandlersStop /\ pc[t] = "handle" ELSE pc[t] = "idle"
  /\ BeginStop(t)

Wait(t) == Acquire(t) \/ AcquireAbandoned(t)

StopStep(t) == AbortSelf(t) \/ Abort(t) \/ CloseMutex(t) \/ CloseSocket(t)

Listen == Start \/ CreateMutex \/ Receive \/ Enter \/ Leave \/ Unblock

Next ==
  /\ running
  /\ \/ Listen
     \/ \E t \in Threads : CallStop(t) \/ Wait(t) \/ StopStep(t)
     \/ \E c \in Callers : Done(c)

Spec == Init /\ [][Next]_listener

\* Threads are scheduled and handlers end; a mutex is granted to whoever has
\* waited for it (strong fairness); datagrams need not come.
Fairness ==
  /\ WF_listener(running /\ (CreateMutex \/ Leave))
  /\ WF_listener(running /\ socket = "closed" /\ Unblock)
  /\ SF_listener(running /\ Enter)
  /\ \A t \in Threads :
       WF_listener(running /\ StopStep(t)) /\ SF_listener(running /\ Wait(t))
  /\ \A c \in Callers : WF_listener(running /\ Done(c))

FairSpec == Spec /\ Fairness

-----------------------------------------------------------------------------
(* Properties.                                                             *)

\* Every variable keeps its type: the mutex has one owner at most, a thread, or
\* is left behind by one that was aborted.
TypeOK ==
  /\ ProcessingMutex \in {"null", "open", "closed"}
  /\ owner \in Threads \cup {None, Abandoned}
  /\ socket \in {"open", "closed"}
  /\ pc \in [Threads -> {"unborn", "new", "receive", "enter", "handle",
                         "doomed", "ended", "crashed", "idle", "wait",
                         "abort", "closemutex", "closesocket", "stopped",
                         "threw"}]
  /\ running \in BOOLEAN

\* A handler runs, or is in a Stop that it called.
Handling == pc[Listener] \in {"handle", "wait", "abort"}

\* From the moment Stop has the mutex no handler runs, but the one that calls
\* it; and none runs on a closed socket (lines 63-68 against 91-129).
StopExcludesHandlers ==
  Handling =>
    /\ socket = "open"
    /\ \A c \in Callers : pc[c] \notin {"abort", "closemutex", "closesocket"}

\* Whatever threads call Stop, and when, the listening thread never meets a
\* closed mutex or socket, whose exception would end the process.
NeverCrashes == running

\* A Stop that waits is let in, unless another thread's Stop was first, and the
\* thread that it aborts ends, which takes the socket's being closed.
StopCompletes ==
  /\ \A c \in Callers :
       pc[c] = "wait" ~> (pc[c] # "wait" \/ owner \in Callers \ {c})
  /\ pc[Listener] = "doomed" ~> pc[Listener] = "ended"
=============================================================================
