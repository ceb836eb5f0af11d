----------------------------- MODULE HTTPServer -----------------------------
(***************************************************************************)
(* The web server of a device and of an event listener                     *)
(* (src/UPnPStack/HTTPServer.cs): one thread accepts a connection, reads   *)
(* its request, calls a handler or sends a page, closes the connection,    *)
(* and accepts the next.                                                   *)
(*                                                                         *)
(* Nothing in the loop is caught: a request that cannot be parsed, a       *)
(* client that closes its connection too early, or a handler that throws   *)
(* ends the thread and with it the process.  Nothing has a timeout either. *)
(* Stop aborts the thread and closes the listening socket; an abort takes  *)
(* effect at once, or when the native call that the thread is in returns.  *)
(***************************************************************************)
EXTENDS Naturals, Sequences

CONSTANTS
  Clients,         \* bound: the connections, with one request each
  None,
  HandlerOutcomes  \* how a handler can end: "response", "null", "throws"

\* A URL with a handler, one without; a first line, or a header, that the
\* parser throws on.
Kinds == {"handler", "page", "badLine", "badHeader"}

ASSUME ServerAssumption ==
  /\ None \notin Clients
  /\ HandlerOutcomes \subseteq {"response", "null", "throws"}

VARIABLES
  socket,   \* the listening socket: "unbound", "listening" or "closed"
  backlog,  \* the connections that wait to be accepted
  pc,       \* where the listening thread is
  client,   \* the connection that it serves
  doomed,   \* it was aborted in a native call, and ends when that returns
  owner,    \* where the owner of the server is in Start and Stop
  running,  \* FALSE: an exception left the thread, the process is gone
  link,     \* link[c]: the server's end of the connection of c
  sent,     \* sent[c]: how much of its request c has sent
  what,     \* what[c]: the kind of that request
  left,     \* left[c]: c has closed its end
  answered  \* answered[c]: c received a response

thread == <<pc, client, doomed>>
peers  == <<sent, what, left>>
server == <<socket, backlog, thread, owner, running, link, peers, answered>>

Init ==
  /\ socket = "unbound" /\ backlog = <<>>
  /\ pc = "unborn" /\ client = None /\ doomed = FALSE
  /\ owner = "idle"
  /\ running = TRUE
  /\ link = [c \in Clients |-> "none"]
  /\ sent = [c \in Clients |-> "nothing"]
  /\ what = [c \in Clients |-> "page"]
  /\ left = [c \in Clients |-> FALSE]
  /\ answered = [c \in Clients |-> FALSE]

-----------------------------------------------------------------------------
(* The clients, which may fall silent, or leave, at any point.             *)

Open(c) == link[c] \in {"queued", "accepted"} /\ ~left[c]

Connect(c) ==
  /\ socket = "listening"
  /\ link[c] = "none"
  /\ link' = [link EXCEPT ![c] = "queued"]
  /\ backlog' = Append(backlog, c)
  /\ UNCHANGED <<socket, thread, owner, running, peers, answered>>

SendLine(c, kind) ==
  /\ Open(c)
  /\ sent[c] = "nothing"
  /\ sent' = [sent EXCEPT ![c] = "line"]
  /\ what' = [what EXCEPT ![c] = kind]
  /\ UNCHANGED <<socket, backlog, thread, owner, running, link, left, answered>>

SendRest(c) ==
  /\ Open(c)
  /\ sent[c] = "line"
  /\ sent' = [sent EXCEPT ![c] = "all"]
  /\ UNCHANGED <<socket, backlog, thread, owner, running, link, what, left,
                 answered>>

Leave(c) ==
  /\ Open(c)
  /\ left' = [left EXCEPT ![c] = TRUE]
  /\ UNCHANGED <<socket, backlog, thread, owner, running, link, sent, what,
                 answered>>

-----------------------------------------------------------------------------
(* DoListen.                                                               *)

\* m_Listener.Start: the port was drawn by the constructor, and another
\* program, or another server of this one, may have it.
Bind ==
  /\ pc = "new"
  /\ \/ socket' = "listening" /\ pc' = "accept" /\ UNCHANGED running
     \/ running' = FALSE /\ UNCHANGED <<socket, pc>>
  /\ UNCHANGED <<backlog, client, doomed, owner, link, peers, answered>>

AcceptSocket ==
  /\ pc = "accept" /\ ~doomed
  /\ backlog # <<>>
  /\ client' = Head(backlog)
  /\ backlog' = Tail(backlog)
  /\ link' = [link EXCEPT ![Head(backlog)] = "accepted"]
  /\ pc' = "read"
  /\ UNCHANGED <<socket, doomed, owner, running, peers, answered>>

\* The first ReadLine, and the headers and the content, have something to
\* return: what was sent, or the end of the stream.
LineThere == sent[client] # "nothing" \/ left[client]
RestThere == sent[client] = "all" \/ left[client]

Advance(label) == pc' = label /\ UNCHANGED running
Crash          == running' = FALSE /\ UNCHANGED pc

\* "line.Split" of the end of the stream, "parts[2]" of a short line and an
\* unknown version throw, as does a connection that was reset.
ReadLine ==
  /\ pc = "read" /\ ~doomed
  /\ LineThere
  /\ \/ /\ sent[client] # "nothing" /\ what[client] # "badLine"
        /\ Advance("headers")
     \/ (what[client] = "badLine" \/ left[client]) /\ Crash
  /\ UNCHANGED <<socket, backlog, client, doomed, owner, link, peers, answered>>

\* The header loop and ReadBlock take the end of the stream for the end of the
\* request: what was sent until then is handled.
ReadHeaders ==
  /\ pc = "headers" /\ ~doomed
  /\ RestThere
  /\ \/ what[client] # "badHeader" /\ Advance("handle")
     \/ (what[client] = "badHeader" \/ left[client]) /\ Crash
  /\ UNCHANGED <<socket, backlog, client, doomed, owner, link, peers, answered>>

\* GetRequestHandler; a page, from the cache or a file, or a 404 is ready.
Dispatch ==
  /\ pc = "handle"
  /\ pc' = IF what[client] = "handler" THEN "handler" ELSE "send"
  /\ UNCHANGED <<socket, backlog, client, doomed, owner, running, link, peers,
                 answered>>

\* The handler may have waited for others, for as long as it takes.
HandlerEnds ==
  /\ pc = "handler" /\ ~doomed
  /\ \/ "response" \in HandlerOutcomes /\ Advance("send")
     \/ "null" \in HandlerOutcomes /\ Advance("close")
     \/ "throws" \in HandlerOutcomes /\ Crash
  /\ UNCHANGED <<socket, backlog, client, doomed, owner, link, peers, answered>>

\* Send throws if the client's end was reset.
Send ==
  /\ pc = "send"
  /\ \/ /\ Advance("close")
        /\ answered' = [answered EXCEPT ![client] = ~left[client]]
     \/ left[client] /\ Crash /\ UNCHANGED answered
  /\ UNCHANGED <<socket, backlog, client, doomed, owner, link, peers>>

\* Mutants of Close: the field is kept; the connection is left open; the loop
\* is left.
CloseKeeps ==
  /\ pc = "close"
  /\ link' = [link EXCEPT ![client] = "closed"]
  /\ pc' = "accept"
  /\ UNCHANGED <<socket, backlog, client, doomed, owner, running, peers,
                 answered>>

CloseNot ==
  /\ pc = "close"
  /\ client' = None
  /\ pc' = "accept"
  /\ UNCHANGED <<socket, backlog, doomed, owner, running, link, peers,
                 answered>>

CloseAndEnd ==
  /\ pc = "close"
  /\ link' = [link EXCEPT ![client] = "closed"]
  /\ client' = None
  /\ pc' = "ended"
  /\ UNCHANGED <<socket, backlog, doomed, owner, running, peers, answered>>

Close ==
  /\ pc = "close"
  /\ link' = [link EXCEPT ![client] = "closed"]
  /\ client' = None
  /\ pc' = "accept"
  /\ UNCHANGED <<socket, backlog, doomed, owner, running, peers, answered>>

\* The native call of an aborted thread returns, and the thread ends.  What it
\* accepted, or was reading, stays open and is never served.
DoomedEnds ==
  /\ doomed
  /\ \/ pc = "accept" /\ backlog # <<>>
        /\ link' = [link EXCEPT ![Head(backlog)] = "accepted"]
        /\ backlog' = Tail(backlog)
     \/ pc = "accept" /\ socket = "closed" /\ UNCHANGED <<link, backlog>>
     \/ pc = "read" /\ LineThere /\ UNCHANGED <<link, backlog>>
     \/ pc = "headers" /\ RestThere /\ UNCHANGED <<link, backlog>>
     \/ pc = "handler" /\ UNCHANGED <<link, backlog>>
  /\ pc' = "ended" /\ client' = None /\ doomed' = FALSE
  /\ UNCHANGED <<socket, owner, running, peers, answered>>

-----------------------------------------------------------------------------
(* Start and Stop, by the owner of the server.                             *)

Start ==
  /\ owner = "idle"
  /\ owner' = "started"
  /\ pc' = "new"
  /\ UNCHANGED <<socket, backlog, client, doomed, running, link, peers,
                 answered>>

\* In a native call for sure; a handler may be in one of its own.
Blocked ==
  \/ pc = "accept"
  \/ pc = "read" /\ ~LineThere
  \/ pc = "headers" /\ ~RestThere

\* Mutant of Abort: the socket is closed first.
AbortAfter ==
  /\ owner = "started"
  /\ owner' = "aborted"
  /\ UNCHANGED <<socket, backlog, thread, running, link, peers, answered>>

\* m_ListenThread.Abort().
Abort ==
  /\ owner = "started"
  /\ owner' = "aborted"
  /\ \/ (Blocked \/ pc = "handler")
        /\ doomed' = TRUE
        /\ UNCHANGED <<pc, client>>
     \/ ~Blocked
        /\ pc' = "ended" /\ client' = None
        /\ UNCHANGED doomed
  /\ UNCHANGED <<socket, backlog, running, link, peers, answered>>

\* m_Listener.Stop(): those who wait to be accepted are reset, and AcceptSocket
\* would throw on a thread that was not aborted.
CloseSocket ==
  /\ owner = "aborted"
  /\ owner' = "stopped"
  /\ socket' = "closed"
  /\ link' = [c \in Clients |-> IF link[c] = "queued" THEN "reset" ELSE link[c]]
  /\ backlog' = <<>>
  /\ running' = (pc = "accept" => doomed)
  /\ UNCHANGED <<thread, peers, answered>>

-----------------------------------------------------------------------------
ClientStep(c) ==
  \/ Connect(c) \/ SendRest(c) \/ Leave(c)
  \/ \E kind \in Kinds : SendLine(c, kind)

Read == ReadLine \/ ReadHeaders

\* What the thread does without waiting for a client or in a handler.
ThreadStep ==
  Bind \/ AcceptSocket \/ Read \/ Dispatch \/ Send \/ Close \/ DoomedEnds

Stop == Abort \/ CloseSocket

Next ==
  /\ running
  /\ \/ \E c \in Clients : ClientStep(c)
     \/ ThreadStep
     \/ HandlerEnds
     \/ Start
     \/ Stop

Spec == Init /\ [][Next]_server

\* The thread is scheduled.  Clients need not send, handlers need not end, and
\* nobody needs to stop the server; who has begun to, does.
Fairness ==
  /\ WF_server(running /\ pc # "handler" /\ ThreadStep)
  /\ WF_server(running /\ CloseSocket)

FairSpec == Spec /\ Fairness

-----------------------------------------------------------------------------
(* Properties.                                                             *)

\* Every variable keeps its type, and the server has a client exactly between
\* an accept and the close of its connection.
TypeOK ==
  /\ socket \in {"unbound", "listening", "closed"}
  /\ backlog \in Seq(Clients)
  /\ pc \in {"unborn", "new", "accept", "read", "headers", "handle", "handler",
             "send", "close", "ended"}
  /\ client \in Clients \cup {None}
  /\ client = None <=> pc \in {"unborn", "new", "accept", "ended"}
  /\ doomed \in BOOLEAN
  /\ owner \in {"idle", "started", "aborted", "stopped"}
  /\ running \in BOOLEAN
  /\ link \in [Clients -> {"none", "queued", "accepted", "closed", "reset"}]
  /\ sent \in [Clients -> {"nothing", "line", "all"}]
  /\ what \in [Clients -> Kinds]
  /\ left \in [Clients -> BOOLEAN]
  /\ answered \in [Clients -> BOOLEAN]

\* A client that sent what the parser refuses, or did not stay for its answer.
Misbehaved(c) == what[c] \in {"badLine", "badHeader"} \/ left[c]

\* Clients that send a request and stay for the answer never end the process,
\* not even when the server is stopped while they are served: it ends because
\* its port is taken, in a handler, or because of the client it serves.  And
\* what they send is handled when it is whole: half a request is handled only
\* of a client that closed its end in the middle of it, which the parser takes
\* for the end of the headers.
GoodClientsAreSafe ==
  /\ ~running => \/ pc \in {"new", "handler"}
                 \/ \E c \in Clients : c = client /\ Misbehaved(c)
  /\ pc \in {"handle", "handler", "send"} =>
       sent[client] = "all" \/ left[client]

\* Connections that nobody will ever answer or close.
Hanging == {c \in Clients : link[c] = "accepted" /\ c # client}

\* Whatever happens to the server, it leaves at most one client waiting on an
\* open connection, the one that its thread was at when it was aborted; all
\* others were served, or see their connection closed.
AtMostOneHangs ==
  /\ Hanging # {} => pc = "ended"
  /\ \A c, d \in Hanging : c = d

\* The server waits for c to send its request, or for a handler to end.
Stalls(c) == client = c /\ pc \in {"read", "headers", "handler"}

NoneStalls == \A c \in Clients : ~<>[]Stalls(c)

\* Who connects is accepted, served and closed in the end, unless the server
\* is stopped: only a silent client, or a handler that never ends, that is in
\* front of it can keep it waiting, and then keeps all.  In the same way the
\* thread ends after Stop, whether it was accepting, reading, handling or had
\* not begun.
EveryoneIsServed ==
  NoneStalls =>
    /\ \A c \in Clients :
         link[c] \in {"queued", "accepted"}
           ~> (link[c] = "closed" \/ ~running \/ owner \in {"aborted", "stopped"})
    /\ owner = "aborted" ~> (pc = "ended" \/ ~running)
=============================================================================
