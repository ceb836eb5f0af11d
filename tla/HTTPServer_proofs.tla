------------------------- MODULE HTTPServer_proofs -------------------------
(***************************************************************************)
(* Proofs about HTTPServer, for any number of clients.                     *)
(***************************************************************************)
EXTENDS HTTPServer, TLAPS

\* What the backlog is changed by.
LEMMA BacklogSteps ==
  ASSUME NEW q \in Seq(Clients), NEW c \in Clients
  PROVE  /\ Append(q, c) \in Seq(Clients)
         /\ q # <<>> => Head(q) \in Clients /\ Tail(q) \in Seq(Clients)
  OBVIOUS

\* The thread is born when the server is started.
Typed == TypeOK /\ (owner = "idle" <=> pc = "unborn")

LEMMA TypedStep == Typed /\ [Next]_server => Typed'
<1> SUFFICES ASSUME Typed, [Next]_server PROVE Typed'
  OBVIOUS
<1> USE ServerAssumption DEF Typed, TypeOK, thread, peers
<1>1. ASSUME NEW c \in Clients, Connect(c) PROVE Typed'
  BY <1>1, BacklogSteps DEF Connect
<1>2. ASSUME NEW c \in Clients, NEW kind \in Kinds, SendLine(c, kind)
      PROVE  Typed'
  BY <1>2 DEF SendLine
<1>3. ASSUME NEW c \in Clients, SendRest(c) \/ Leave(c) PROVE Typed'
  BY <1>3 DEF SendRest, Leave
<1>4. CASE AcceptSocket
  BY <1>4, BacklogSteps DEF AcceptSocket
<1>5. CASE Bind
  BY <1>5 DEF Bind
<1>6. CASE Read
  BY <1>6 DEF Read, ReadLine, ReadHeaders, Advance, Crash
<1>7. CASE Dispatch \/ HandlerEnds
  BY <1>7 DEF Dispatch, HandlerEnds, Advance, Crash
<1>8. CASE Send \/ Close
  BY <1>8 DEF Send, Close, Advance, Crash
<1>9. CASE DoomedEnds
  <2>1. CASE pc = "accept" /\ backlog # <<>>
    <3>1. Head(backlog) \in Clients /\ Tail(backlog) \in Seq(Clients)
      BY <2>1
    <3>2. QED
      BY <1>9, <2>1, <3>1 DEF DoomedEnds
  <2>2. CASE ~(pc = "accept" /\ backlog # <<>>)
    BY <1>9, <2>2 DEF DoomedEnds
  <2>3. QED
    BY <2>1, <2>2
<1>10. CASE Start
  BY <1>10 DEF Start
<1>11. CASE Abort
  BY <1>11 DEF Abort
<1>12. CASE CloseSocket
  BY <1>12, BacklogSteps DEF CloseSocket
<1>13. CASE UNCHANGED server
  BY <1>13 DEF server
<1>14. QED
  BY <1>1, <1>2, <1>3, <1>4, <1>5, <1>6, <1>7, <1>8, <1>9, <1>10, <1>11,
     <1>12, <1>13
     DEF Next, ClientStep, ThreadStep, Stop

LEMMA TypedInvariant == Spec => []Typed
<1>1. Init => Typed
  <2> SUFFICES ASSUME Init PROVE Typed
    OBVIOUS
  <2>1. backlog \in Seq(Clients) /\ what \in [Clients -> Kinds]
    BY DEF Init, Kinds
  <2>2. QED
    BY <2>1, ServerAssumption DEF Init, Typed, TypeOK
<1>2. QED
  BY <1>1, TypedStep, PTL DEF Spec

\* Every variable keeps its type, and the thread has a client just while it is
\* at one.
THEOREM TypeCorrect == Spec => []TypeOK
BY TypedInvariant, PTL DEF Typed

-----------------------------------------------------------------------------
\* A thread that was aborted in a native call is still in it, and once Abort
\* has returned, the thread has ended or will.
AbortOK ==
  /\ doomed => /\ pc \in {"accept", "read", "headers", "handler"}
               /\ owner \in {"aborted", "stopped"}
  /\ owner \in {"aborted", "stopped"} => doomed \/ pc = "ended"

\* Before it ends, the thread has only the connection that it serves.
AloneOK ==
  /\ \A c \in Clients : link[c] = "accepted" => c = client \/ pc = "ended"
  /\ \A c, d \in Hanging : c = d

ServerInv == AbortOK /\ AloneOK /\ GoodClientsAreSafe

LEMMA ServerStep == Typed /\ ServerInv /\ [Next]_server => ServerInv'
<1> SUFFICES ASSUME Typed, ServerInv, [Next]_server PROVE ServerInv'
  OBVIOUS
<1> USE ServerAssumption
    DEF Typed, TypeOK, ServerInv, AbortOK, AloneOK, Hanging,
        GoodClientsAreSafe, Misbehaved, thread, peers
<1>1. ASSUME NEW c \in Clients, running, Connect(c) PROVE ServerInv'
  BY <1>1 DEF Connect
<1>2. ASSUME NEW c \in Clients, running, NEW kind \in Kinds, SendLine(c, kind)
      PROVE  ServerInv'
  BY <1>2 DEF SendLine
<1>3. ASSUME NEW c \in Clients, running, SendRest(c) PROVE ServerInv'
  BY <1>3 DEF SendRest
<1>4. ASSUME NEW c \in Clients, running, Leave(c) PROVE ServerInv'
  BY <1>4 DEF Leave
<1>5. CASE running /\ AcceptSocket
  BY <1>5 DEF AcceptSocket
<1>6. CASE running /\ Bind
  BY <1>6 DEF Bind
<1>7. CASE running /\ Read
  <2>1. client \in Clients
    BY <1>7 DEF Read, ReadLine, ReadHeaders
  <2>2. CASE ReadLine
    BY <1>7, <2>1, <2>2 DEF ReadLine, Advance, Crash
  <2>3. CASE ReadHeaders
    BY <1>7, <2>1, <2>3 DEF ReadHeaders, RestThere, Advance, Crash
  <2>4. QED
    BY <1>7, <2>2, <2>3 DEF Read
<1>8. CASE running /\ Dispatch
  BY <1>8 DEF Dispatch
<1>9. CASE running /\ HandlerEnds
  BY <1>9 DEF HandlerEnds, Advance, Crash
<1>10. CASE running /\ Send
  <2>1. client \in Clients
    BY <1>10 DEF Send
  <2>2. QED
    BY <1>10, <2>1 DEF Send, Advance, Crash
<1>11. CASE running /\ Close
  BY <1>11 DEF Close
<1>12. CASE running /\ DoomedEnds
  BY <1>12 DEF DoomedEnds
<1>13. CASE running /\ Start
  BY <1>13 DEF Start
<1>14. CASE running /\ Abort
  BY <1>14 DEF Abort, Blocked
<1>15. CASE running /\ CloseSocket
  BY <1>15 DEF CloseSocket
<1>16. CASE UNCHANGED server
  BY <1>16 DEF server
<1>17. QED
  BY <1>1, <1>2, <1>3, <1>4, <1>5, <1>6, <1>7, <1>8, <1>9, <1>10, <1>11,
     <1>12, <1>13, <1>14, <1>15, <1>16
     DEF Next, ClientStep, ThreadStep, Stop

LEMMA ServerInvariant == Spec => []ServerInv
<1>1. Init => ServerInv
  BY ServerAssumption
     DEF Init, ServerInv, AbortOK, AloneOK, Hanging, GoodClientsAreSafe
<1>2. QED
  BY <1>1, ServerStep, TypedInvariant, PTL DEF Spec

\* Who sends a request and stays for its answer does not end the process, and
\* only what a client that left had sent is handled although it is not whole.
THEOREM GoodClientsCorrect == Spec => []GoodClientsAreSafe
BY ServerInvariant, PTL DEF ServerInv

\* The server leaves at most one client waiting on an open connection, and only
\* when its thread has ended.
THEOREM AtMostOneCorrect == Spec => []AtMostOneHangs
<1>1. ServerInv => AtMostOneHangs
  BY DEF ServerInv, AloneOK, AtMostOneHangs, Hanging
<1>2. QED
  BY <1>1, ServerInvariant, PTL
=============================================================================
