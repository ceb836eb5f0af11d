-------------------------- MODULE Eventing_proofs --------------------------
(***************************************************************************)
(* Proofs about Eventing, for any number of hosts, workers and             *)
(* subscriptions.                                                          *)
(***************************************************************************)
EXTENDS Eventing, SequenceTheorems, TLAPS

\* A server that is not accepting serves a switch; only the window asks for
\* anything else, and waits for nothing else while it adds a node or is closed.
ServingOK ==
  /\ \A h \in Hosts : pc[h] # "accept" =>
       queue[h] # <<>> /\ ask[Head(queue[h])] = "switch"
  /\ \A c \in Callers : ask[c] \notin {"none", "switch"} => c = UI
  /\ ask[UI] # "switch"
  /\ window # "idle" => ask[UI] = "none"
  /\ window = "adding" => SubscriptionID \in SIDs
  /\ listener \in {"lookup", "text"} => inbox # <<>>

\* Where a host's server is in its report, and a subscription in its life.
PhaseOK ==
  /\ \A h \in Hosts :
       /\ phase[h] = "telling" <=> pc[h] \in {"notify", "await"}
       /\ phase[h] = "idle" => told[h] = {}
  /\ \A s \in SIDs : s \notin active \cup retired => init[s] = "none"

\* Who has sent a NOTIFY waits for its answer, so that there is one of each.
InboxOK ==
  /\ \A i \in DOMAIN inbox :
       LET e == inbox[i] IN
         /\ e.from \in Hosts => pc[e.from] = "await"
         /\ e.from \in SIDs => init[e.from] = "await" /\ e.sid = e.from
  /\ \A i, j \in DOMAIN inbox : inbox[i].from = inbox[j].from => i = j
  /\ window = "closed" => inbox = <<>>

\* The subscriber of s is still to hear of the light.
Pending(s) ==
  \/ init[s] \in {"armed", "send", "await"}
  \/ \E h \in Hosts :
       /\ phase[h] = "telling"
       /\ \/ s \in due[h] \ told[h]
          \/ \E i \in DOMAIN inbox : inbox[i].from = h /\ inbox[i].sid = s

\* No change waits to be told, and nothing blurred the last one.
Clear == ~blurred /\ \A h \in Hosts : pc[h] # "fire"

\* Then whatever is on its way is the light's state, and who does not show it
\* will hear of it.
ValuesOK ==
  Clear =>
    /\ \A h \in Hosts : phase[h] = "telling" => value[h] = m_PowerState
    /\ \A s \in SIDs : init[s] = "send" => first[s] = m_PowerState
    /\ \A i \in DOMAIN inbox : inbox[i].value = m_PowerState
    /\ window # "closed" =>
         \A s \in active : shown = m_PowerState \/ Pending(s)

ShowInv == ServingOK /\ PhaseOK /\ InboxOK /\ ValuesOK

-----------------------------------------------------------------------------
(* The connections.                                                        *)

\* A queue without repetitions, when one comes who is not in it.
LEMMA AppendToQueue ==
  ASSUME NEW S, NEW q \in Seq(S), NEW c \in S, IsInjective(q), c \notin Range(q)
  PROVE  /\ Append(q, c) \in Seq(S)
         /\ IsInjective(Append(q, c))
         /\ Range(Append(q, c)) = Range(q) \cup {c}
<1>1. PICK r \in Seq(S) : r = Append(q, c)
  BY AppendProperties
<1>2. /\ Len(r) = Len(q) + 1
      /\ \A i \in 1 .. Len(q) : r[i] = q[i]
      /\ r[Len(q) + 1] = c
  BY <1>1
<1>3. DOMAIN r = 1 .. Len(r) /\ DOMAIN q = 1 .. Len(q)
  OBVIOUS
<1>4. IsInjective(r)
  BY <1>2, <1>3 DEF IsInjective, Range
<1>5. Range(r) = Range(q) \cup {c}
  <2>1. ASSUME NEW e \in Range(q) PROVE e \in Range(r)
    BY <1>2, <1>3 DEF Range
  <2>2. c \in Range(r)
    BY <1>2, <1>3 DEF Range
  <2>3. ASSUME NEW e \in Range(r) PROVE e \in Range(q) \cup {c}
    BY <1>2, <1>3 DEF Range
  <2>4. QED
    BY <2>1, <2>2, <2>3
<1>6. QED
  BY <1>1, <1>4, <1>5

\* And when the first one leaves.
LEMMA TailOfQueue ==
  ASSUME NEW S, NEW q \in Seq(S), q # <<>>, IsInjective(q)
  PROVE  /\ Head(q) \in Range(q)
         /\ Tail(q) \in Seq(S)
         /\ IsInjective(Tail(q))
         /\ Range(Tail(q)) = Range(q) \ {Head(q)}
<1>1. PICK r \in Seq(S) : r = Tail(q)
  BY HeadTailProperties
<1>2. /\ Len(r) = Len(q) - 1 /\ Len(q) >= 1
      /\ \A i \in 1 .. Len(r) : r[i] = q[i + 1]
      /\ Head(q) = q[1]
  BY <1>1, HeadTailProperties, EmptySeq
<1>3. DOMAIN r = 1 .. Len(r) /\ DOMAIN q = 1 .. Len(q)
  OBVIOUS
<1>4. ASSUME NEW i \in 1 .. Len(r), NEW j \in 1 .. Len(r), r[i] = r[j]
      PROVE  i = j
  <2>1. q[i + 1] = q[j + 1]
    BY <1>2, <1>4
  <2>2. i + 1 \in 1 .. Len(q) /\ j + 1 \in 1 .. Len(q)
    BY <1>2
  <2>3. QED
    BY <1>3, <2>1, <2>2 DEF IsInjective
<1>5. Range(r) = Range(q) \ {Head(q)}
  <2>1. ASSUME NEW e \in Range(r) PROVE e \in Range(q) \ {Head(q)}
    BY <1>2, <1>3 DEF Range, IsInjective
  <2>2. ASSUME NEW e \in Range(q) \ {Head(q)} PROVE e \in Range(r)
    <3>1. PICK i \in 1 .. Len(q) : e = q[i]
      BY <1>3 DEF Range
    <3>2. i # 1 /\ i - 1 \in 1 .. Len(r) /\ r[i - 1] = q[(i - 1) + 1]
      BY <1>2, <2>2, <3>1
    <3>3. QED
      BY <1>3, <3>1, <3>2 DEF Range
  <2>3. QED
    BY <2>1, <2>2
<1>6. Head(q) \in Range(q)
  BY <1>2, <1>3 DEF Range
<1>7. QED
  BY <1>1, <1>3, <1>4, <1>5, <1>6 DEF IsInjective

LEMMA CallQueues ==
  ASSUME TypeOK, NEW c \in Callers, NEW request \in Requests, Call(c, request)
  PROVE  /\ queue' \in [Hosts -> Seq(Callers)]
         /\ ask' \in [Callers -> Requests \cup {"none"}]
         /\ QueuesOK'
<1> USE EventingAssumption DEF TypeOK
<1>1. PICK h \in Hosts : h = Found[c]
  OBVIOUS
<1>2. /\ queue[h] \in Seq(Callers)
      /\ IsInjective(queue[h])
      /\ c \notin Range(queue[h])
  BY <1>1 DEF QueuesOK, Call
<1>3. PICK q \in Seq(Callers) :
        /\ q = Append(queue[h], c)
        /\ IsInjective(q)
        /\ Range(q) = Range(queue[h]) \cup {c}
  <2> HIDE DEF TypeOK
  <2>1. QED
    BY <1>2, AppendToQueue
<1>4. queue' = [queue EXCEPT ![h] = q]
  BY <1>1, <1>3 DEF Call
<1>5. ask' = [ask EXCEPT ![c] = request] /\ request # "none"
  BY DEF Call, Requests
<1>6. ASSUME NEW g \in Hosts
      PROVE  /\ IsInjective(queue'[g])
             /\ Range(queue'[g]) =
                  {d \in Callers : Found[d] = g /\ ask'[d] # "none"}
  <2>1. CASE g = h
    BY <1>1, <1>3, <1>4, <1>5, <2>1 DEF QueuesOK
  <2>2. CASE g # h
    BY <1>1, <1>4, <1>5, <2>2 DEF QueuesOK
  <2>3. QED
    BY <2>1, <2>2
<1>7. QED
  BY <1>3, <1>4, <1>5, <1>6 DEF QueuesOK

LEMMA AnswerQueues ==
  ASSUME TypeOK, NEW h \in Hosts, queue[h] # <<>>, Answer(h)
  PROVE  /\ queue' \in [Hosts -> Seq(Callers)]
         /\ ask' \in [Callers -> Requests \cup {"none"}]
         /\ QueuesOK'
<1> USE EventingAssumption DEF TypeOK
<1>1. PICK c : c = Head(queue[h])
  OBVIOUS
<1>2. PICK q \in Seq(Callers) :
        /\ q = Tail(queue[h])
        /\ IsInjective(q)
        /\ Range(q) = Range(queue[h]) \ {c}
        /\ c \in Range(queue[h])
  BY <1>1, TailOfQueue DEF QueuesOK
<1>3. c \in Callers /\ Found[c] = h
  BY <1>2 DEF QueuesOK
<1>4. queue' = [queue EXCEPT ![h] = q] /\ ask' = [ask EXCEPT ![c] = "none"]
  BY <1>1, <1>2 DEF Answer
<1>5. ASSUME NEW g \in Hosts
      PROVE  /\ IsInjective(queue'[g])
             /\ Range(queue'[g]) =
                  {d \in Callers : Found[d] = g /\ ask'[d] # "none"}
  <2>1. CASE g = h
    BY <1>2, <1>3, <1>4, <2>1 DEF QueuesOK
  <2>2. CASE g # h
    BY <1>3, <1>4, <2>2 DEF QueuesOK
  <2>3. QED
    BY <2>1, <2>2
<1>6. QED
  BY <1>2, <1>3, <1>4, <1>5 DEF QueuesOK

\* The caller that is served is the host's, and waits.
LEMMA HeadOfQueue ==
  ASSUME TypeOK, NEW h \in Hosts, queue[h] # <<>>
  PROVE  /\ Head(queue[h]) \in Callers
         /\ Found[Head(queue[h])] = h
         /\ ask[Head(queue[h])] # "none"
<1>1. queue[h] \in Seq(Callers) /\ IsInjective(queue[h])
  BY DEF TypeOK, QueuesOK
<1>2. Head(queue[h]) \in Range(queue[h])
  BY <1>1, TailOfQueue
<1>3. QED
  BY <1>2 DEF TypeOK, QueuesOK

\* What the listener has when an event comes, and when it has handled one.
LEMMA InboxAppend ==
  ASSUME TypeOK, NEW e \in Events, inbox' = Append(inbox, e)
  PROVE  /\ inbox' \in Seq(Events)
         /\ inbox' # <<>>
         /\ DOMAIN inbox' = DOMAIN inbox \cup {Len(inbox) + 1}
         /\ Len(inbox) + 1 \notin DOMAIN inbox
         /\ \A i \in DOMAIN inbox : inbox'[i] = inbox[i]
         /\ inbox'[Len(inbox) + 1] = e
<1>1. inbox \in Seq(Events)
  BY DEF TypeOK
<1>2. PICK q \in Seq(Events) :
        /\ q = Append(inbox, e) /\ q # <<>> /\ Len(q) = Len(inbox) + 1
        /\ \A i \in 1 .. Len(inbox) : q[i] = inbox[i]
        /\ q[Len(inbox) + 1] = e
  BY <1>1, AppendProperties
<1>3. DOMAIN q = 1 .. Len(inbox) + 1 /\ DOMAIN inbox = 1 .. Len(inbox)
  BY <1>1, <1>2
<1>4. 1 .. Len(inbox) + 1 = 1 .. Len(inbox) \cup {Len(inbox) + 1}
  BY <1>1
<1>5. QED
  BY <1>1, <1>2, <1>3, <1>4

LEMMA InboxTail ==
  ASSUME TypeOK, inbox # <<>>, inbox' = Tail(inbox)
  PROVE  /\ inbox' \in Seq(Events)
         /\ Head(inbox) \in Events
         /\ 1 \in DOMAIN inbox /\ Head(inbox) = inbox[1]
         /\ \A i \in DOMAIN inbox' :
              /\ i + 1 \in DOMAIN inbox /\ i + 1 # 1
              /\ inbox'[i] = inbox[i + 1]
         /\ \A i \in DOMAIN inbox : i # 1 =>
              \E j \in DOMAIN inbox' : inbox'[j] = inbox[i]
<1>1. inbox \in Seq(Events)
  BY DEF TypeOK
<1>2. PICK q \in Seq(Events) :
        /\ q = Tail(inbox) /\ Len(q) = Len(inbox) - 1
        /\ \A i \in 1 .. Len(q) : q[i] = inbox[i + 1]
        /\ Head(inbox) \in Events
  BY <1>1, HeadTailProperties
<1>3. DOMAIN q = 1 .. Len(inbox) - 1 /\ DOMAIN inbox = 1 .. Len(inbox)
      /\ Len(inbox) >= 1 /\ Len(inbox) \in Nat
  BY <1>1, <1>2, EmptySeq
<1>4. Head(inbox) = inbox[1]
  BY <1>1
<1>5. ASSUME NEW i \in DOMAIN inbox, i # 1
      PROVE  \E j \in DOMAIN q : q[j] = inbox[i]
  <2>1. i - 1 \in DOMAIN q /\ (i - 1) + 1 = i
    BY <1>3, <1>5
  <2>2. q[i - 1] = inbox[(i - 1) + 1]
    BY <1>2, <1>3, <2>1
  <2>3. QED
    BY <2>1, <2>2
<1>6. \A i \in DOMAIN q : i + 1 \in DOMAIN inbox /\ i + 1 # 1
  BY <1>3
<1>7. QED
  BY <1>2, <1>3, <1>4, <1>5, <1>6

\* The senders' NOTIFYs.
LEMMA Notices ==
  ASSUME TypeOK
  PROVE  /\ \A h \in Hosts, s \in SIDs :
              [from |-> h, sid |-> s, value |-> value[h]] \in Events
         /\ \A s \in SIDs :
              [from |-> s, sid |-> s, value |-> first[s]] \in Events
BY DEF TypeOK, Events

-----------------------------------------------------------------------------
(* Types.                                                                  *)

LEMMA ReplyType ==
  ASSUME TypeOK, inbox # <<>>, Reply
  PROVE  /\ inbox' \in Seq(Events)
         /\ pc' \in [Hosts -> {"accept", "fire", "notify", "await", "respond"}]
         /\ init' \in [SIDs -> {"none", "armed", "send", "await", "done"}]
         /\ Head(inbox) \in Events
<1>1. Head(inbox) \in Events /\ Tail(inbox) \in Seq(Events)
  BY HeadTailProperties DEF TypeOK
<1>2. QED
  BY <1>1 DEF Reply, TypeOK, Goto, Events

LEMMA TypeStep ==
  ASSUME TypeOK, ServingOK, [Next]_vars
  PROVE  TypeOK'
<1> USE EventingAssumption
    DEF publisher, light, tree, display, event, Goto, P!reports
<1>0. QueuesOK /\ (UNCHANGED <<queue, ask>> => QueuesOK')
  BY DEF QueuesOK, TypeOK
<1>1. ASSUME NEW c \in Callers, NEW request \in Requests, Call(c, request)
      PROVE  TypeOK'
  <2>1. /\ queue' \in [Hosts -> Seq(Callers)]
        /\ ask' \in [Callers -> Requests \cup {"none"}]
        /\ QueuesOK'
    BY <1>1, CallQueues
  <2>2. QED
    BY <1>1, <2>1 DEF Call, TypeOK
<1>2. CASE CloseWindow
  <2>1. <<>> \in Seq(Events)
    OBVIOUS
  <2>2. inbox # <<>> => Head(inbox).from \in Hosts \cup SIDs
    <3> SUFFICES ASSUME inbox # <<>> PROVE Head(inbox).from \in Hosts \cup SIDs
      OBVIOUS
    <3>1. inbox \in Seq(Events)
      BY DEF TypeOK
    <3>2. Head(inbox) \in Events
      BY <3>1, HeadTailProperties
    <3>3. QED
      BY <3>2 DEF Events
  <2>3. hanging' \subseteq Hosts \cup SIDs
    BY <1>2, <2>2 DEF CloseWindow
  <2>4. QED
    BY <1>0, <1>2, <2>1, <2>3 DEF CloseWindow, TypeOK
<1>3. CASE AddNode
  BY <1>0, <1>3 DEF AddNode, TypeOK, ServingOK
<1>4. ASSUME NEW h \in Hosts, Switch(h) \/ Fire(h)
      PROVE  TypeOK'
  <2>1. CASE Switch(h)
    BY <1>0, <2>1 DEF Switch, TypeOK
  <2>2. CASE Fire(h)
    BY <1>0, <2>2 DEF Fire, OthersTell, TypeOK, P!BeginReport
  <2>3. QED
    BY <1>4, <2>1, <2>2
<1>5. ASSUME NEW h \in Hosts, Notified(h) \/ NotifyFails(h)
      PROVE  TypeOK'
  <2>1. CASE Notified(h)
    BY <1>0, <2>1 DEF Notified, TypeOK, P!Succeed
  <2>2. CASE NotifyFails(h)
    BY <1>0, <2>2 DEF NotifyFails, TypeOK, P!Fail
  <2>3. QED
    BY <1>5, <2>1, <2>2
<1>6. ASSUME NEW h \in Hosts, NEW s \in SIDs, Notify(h, s)
      PROVE  TypeOK'
  <2>1. inbox' \in Seq(Events)
    BY <1>6, Notices, InboxAppend DEF Notify
  <2>2. QED
    BY <1>0, <1>6, <2>1 DEF Notify, TypeOK, P!Tell
<1>7. ASSUME NEW h \in Hosts, Respond(h)
      PROVE  TypeOK'
  <2>1. queue[h] # <<>>
    BY <1>7 DEF Respond, ServingOK
  <2>2. QED
    BY <1>7, <2>1, AnswerQueues DEF Respond, TypeOK, P!Close
<1>8. ASSUME NEW h \in Hosts, Query(h)
      PROVE  TypeOK'
  BY <1>8, AnswerQueues DEF Query, Serves, TypeOK
<1>9. ASSUME NEW h \in Hosts, NEW s \in SIDs, Subscribe(h, s)
      PROVE  TypeOK'
  BY <1>9, AnswerQueues DEF Subscribe, Serves, TypeOK, P!Accept
<1>10. ASSUME NEW h \in Hosts, Unsubscribe(h)
       PROVE  TypeOK'
  BY <1>10, AnswerQueues DEF Unsubscribe, Serves, TypeOK, P!Retire
<1>11. ASSUME NEW s \in SIDs, Expire(s) \/ InitRead(s) \/ InitFails(s)
       PROVE  TypeOK'
  <2>1. CASE Expire(s)
    BY <1>0, <2>1 DEF Expire, TypeOK, P!Retire
  <2>2. CASE InitRead(s)
    BY <1>0, <2>2 DEF InitRead, TypeOK
  <2>3. CASE InitFails(s)
    BY <1>0, <2>3 DEF InitFails, TypeOK
  <2>4. QED
    BY <1>11, <2>1, <2>2, <2>3
<1>12. ASSUME NEW s \in SIDs, InitSend(s)
       PROVE  TypeOK'
  <2>1. inbox' \in Seq(Events)
    BY <1>12, Notices, InboxAppend DEF InitSend
  <2>2. QED
    BY <1>0, <1>12, <2>1 DEF InitSend, TypeOK
<1>13. CASE AddItem
  BY <1>0, <1>13 DEF AddItem, TypeOK
<1>14. CASE Lookup
  <2>1. CASE UNCHANGED <<inbox, pc, init>>
    BY <1>0, <1>14, <2>1 DEF Lookup, TypeOK, Reply
  <2>2. CASE Reply
    BY <1>0, <1>14, <2>2, ReplyType DEF Lookup, TypeOK, Reply, ServingOK
  <2>3. QED
    BY <1>0, <1>14, <2>1, <2>2 DEF Lookup
<1>15. CASE SetText
  <2>1. Head(inbox).value \in BOOLEAN
    BY <1>15, ReplyType DEF SetText, ServingOK, Events
  <2>2. QED
    BY <1>0, <1>15, <2>1, ReplyType DEF SetText, TypeOK, Reply, ServingOK
<1>16. CASE UNCHANGED vars
  BY <1>0, <1>16 DEF vars, TypeOK
<1>17. ASSUME NEW f, ConnectionEnds(f)
       PROVE  TypeOK'
  BY <1>0, <1>17 DEF ConnectionEnds, TypeOK
<1>18. QED
  BY <1>1, <1>2, <1>3, <1>4, <1>5, <1>6, <1>7, <1>8, <1>9, <1>10, <1>11,
     <1>12, <1>13, <1>14, <1>15, <1>16, <1>17
     DEF Next, Invoke, Click, Callers, Requests, ServerStep, TimerStep, Shows

\* What a server that is done with its first caller leaves.
LEMMA AnswerServing ==
  ASSUME TypeOK, ServingOK, NEW h \in Hosts, queue[h] # <<>>, Answer(h),
         \A g \in Hosts : pc'[g] = IF g = h THEN "accept" ELSE pc[g]
  PROVE  /\ \A g \in Hosts : pc'[g] # "accept" =>
              queue'[g] # <<>> /\ ask'[Head(queue'[g])] = "switch"
         /\ \A c \in Callers : ask'[c] # ask[c] =>
              c = Head(queue[h]) /\ ask'[c] = "none"
<1> USE DEF TypeOK, Answer
<1>1. \A c \in Callers : ask'[c] # ask[c] =>
        c = Head(queue[h]) /\ ask'[c] = "none"
  BY DEF Answer
<1>2. ASSUME NEW g \in Hosts, g # h, pc[g] # "accept"
      PROVE  queue'[g] # <<>> /\ ask'[Head(queue'[g])] = "switch"
  <2>1. /\ queue'[g] = queue[g] /\ queue[g] # <<>>
        /\ ask[Head(queue[g])] = "switch"
    BY <1>2 DEF ServingOK
  <2>2. Head(queue[g]) \in Callers /\ Found[Head(queue[g])] = g
    BY <2>1, HeadOfQueue
  <2>3. Found[Head(queue[h])] = h
    BY HeadOfQueue
  <2>4. QED
    BY <1>1, <1>2, <2>1, <2>2, <2>3
<1>3. QED
  BY <1>1, <1>2

LEMMA ServingStep ==
  ASSUME TypeOK, ServingOK, InboxOK, [Next]_vars
  PROVE  ServingOK'
<1> USE EventingAssumption
    DEF publisher, light, tree, display, event, Goto, Callers
<1>1. ASSUME NEW c \in Callers, NEW request \in Requests, Call(c, request),
             c = UI <=> request # "switch", c = UI => Free
      PROVE  ServingOK'
  <2>1. ASSUME NEW h \in Hosts, pc[h] # "accept"
        PROVE  queue'[h] # <<>> /\ ask'[Head(queue'[h])] = "switch"
    <3>1. /\ queue[h] \in Seq(Callers) /\ queue[h] # <<>>
          /\ ask[Head(queue[h])] = "switch"
      BY <2>1 DEF ServingOK, TypeOK
    <3>2. Head(Append(queue[h], c)) = Head(queue[h])
      BY <3>1, HeadTailAppend
    <3>3. Append(queue[h], c) # <<>>
      BY <3>1, AppendProperties
    <3>4. Head(queue[h]) # c
      BY <1>1, <3>1 DEF Call
    <3>5. queue'[h] \in {queue[h], Append(queue[h], c)}
      BY <1>1 DEF Call, TypeOK
    <3>6. ask'[Head(queue[h])] = ask[Head(queue[h])]
      BY <1>1, <3>4 DEF Call, TypeOK
    <3>7. QED
      BY <3>1, <3>2, <3>3, <3>5, <3>6
  <2>2. \A d \in Callers : ask'[d] = IF d = c THEN request ELSE ask[d]
    BY <1>1 DEF Call, TypeOK
  <2>3. UNCHANGED <<pc, window, SubscriptionID, listener, inbox>>
    BY <1>1 DEF Call
  <2>4. QED
    BY <1>1, <2>1, <2>2, <2>3 DEF ServingOK, Free
<1>2. CASE CloseWindow
  BY <1>2 DEF CloseWindow, ServingOK, Free
<1>3. CASE AddNode
  BY <1>3 DEF AddNode, ServingOK
<1>4. ASSUME NEW h \in Hosts, Switch(h)
      PROVE  ServingOK'
  BY <1>4 DEF Switch, Serves, TypeOK, ServingOK
<1>5. ASSUME NEW h \in Hosts, Fire(h)
      PROVE  ServingOK'
  BY <1>5 DEF Fire, TypeOK, ServingOK
<1>6. ASSUME NEW h \in Hosts, Notified(h) \/ NotifyFails(h)
      PROVE  ServingOK'
  BY <1>6 DEF Notified, NotifyFails, TypeOK, ServingOK
<1>7. ASSUME NEW h \in Hosts, NEW s \in SIDs, Notify(h, s)
      PROVE  ServingOK'
  <2>1. inbox' # <<>>
    BY <1>7, Notices, InboxAppend DEF Notify
  <2>2. QED
    BY <1>7, <2>1 DEF Notify, TypeOK, ServingOK
<1>8. ASSUME NEW h \in Hosts, Respond(h)
      PROVE  ServingOK'
  <2>1. queue[h] # <<>>
    BY <1>8 DEF Respond, ServingOK
  <2>2. \A g \in Hosts : pc'[g] = IF g = h THEN "accept" ELSE pc[g]
    BY <1>8 DEF Respond, TypeOK
  <2>3. QED
    BY <1>8, <2>1, <2>2, AnswerServing DEF Respond, ServingOK
<1>9. ASSUME NEW h \in Hosts, Query(h)
      PROVE  ServingOK'
  <2>1. \A g \in Hosts : pc'[g] = IF g = h THEN "accept" ELSE pc[g]
    BY <1>9 DEF Query, Serves, TypeOK
  <2>2. QED
    BY <1>9, <2>1, AnswerServing DEF Query, Serves, ServingOK
<1>10. ASSUME NEW h \in Hosts, NEW s \in SIDs, Subscribe(h, s)
       PROVE  ServingOK'
  <2>1. \A g \in Hosts : pc'[g] = IF g = h THEN "accept" ELSE pc[g]
    BY <1>10 DEF Subscribe, Serves, TypeOK
  <2>2. Head(queue[h]) = UI
    BY <1>10, HeadOfQueue DEF Subscribe, Serves, ServingOK
  <2>3. ask'[UI] = "none"
    BY <1>10, <2>2 DEF Subscribe, Answer, TypeOK
  <2>4. QED
    BY <1>10, <2>1, <2>3, AnswerServing DEF Subscribe, Serves, ServingOK
<1>11. ASSUME NEW h \in Hosts, Unsubscribe(h)
       PROVE  ServingOK'
  <2>1. \A g \in Hosts : pc'[g] = IF g = h THEN "accept" ELSE pc[g]
    BY <1>11 DEF Unsubscribe, Serves, TypeOK
  <2>2. Head(queue[h]) = UI
    BY <1>11, HeadOfQueue DEF Unsubscribe, Serves, ServingOK
  <2>3. window # "adding"
    BY <1>11, <2>2 DEF Unsubscribe, Serves, ServingOK
  <2>4. QED
    BY <1>11, <2>1, <2>3, AnswerServing DEF Unsubscribe, Serves, ServingOK
<1>12. ASSUME NEW s \in SIDs, Expire(s) \/ InitRead(s) \/ InitFails(s)
       PROVE  ServingOK'
  BY <1>12 DEF Expire, InitRead, InitFails, ServingOK
<1>13. ASSUME NEW s \in SIDs, InitSend(s)
       PROVE  ServingOK'
  <2>1. inbox' # <<>>
    BY <1>13, Notices, InboxAppend DEF InitSend
  <2>2. QED
    BY <1>13, <2>1 DEF InitSend, ServingOK
<1>14. CASE AddItem
  BY <1>14 DEF AddItem, ServingOK
<1>15. ASSUME Reply, UNCHANGED <<queue, ask, window, SubscriptionID>>,
              listener \in {"lookup", "text"}
       PROVE  ServingOK'
  <2>1. Head(inbox) = inbox[1] /\ 1 \in DOMAIN inbox
    BY <1>15, InboxTail DEF ServingOK, Reply
  <2>2. \A g \in Hosts : pc'[g] # "accept" => pc[g] # "accept"
    BY <1>15, <2>1 DEF Reply, TypeOK, InboxOK
  <2>3. QED
    BY <1>15, <2>2 DEF Reply, ServingOK
<1>16. CASE Lookup \/ SetText
  BY <1>15, <1>16 DEF Lookup, SetText, ServingOK
<1>17. CASE UNCHANGED vars
  BY <1>17 DEF vars, ServingOK
<1>18. ASSUME NEW f, ConnectionEnds(f)
       PROVE  ServingOK'
  BY <1>18 DEF ConnectionEnds, ServingOK
<1>19. QED
  BY <1>1, <1>2, <1>3, <1>4, <1>5, <1>6, <1>7, <1>8, <1>9, <1>10, <1>11,
     <1>12, <1>13, <1>14, <1>16, <1>17, <1>18
     DEF Next, Invoke, Click, Requests, ServerStep, TimerStep, Shows

-----------------------------------------------------------------------------
(* Reports and events.                                                     *)

LEMMA PhaseStep ==
  ASSUME TypeOK, PhaseOK, InboxOK, ServingOK, [Next]_vars
  PROVE  PhaseOK'
<1> USE EventingAssumption
    DEF publisher, light, tree, display, event, Goto, P!reports, PhaseOK
<1>1. ASSUME UNCHANGED <<phase, pc, told, active, retired, init>>
      PROVE  PhaseOK'
  BY <1>1
<1>2. ASSUME NEW h \in Hosts, Switch(h)
      PROVE  PhaseOK'
  BY <1>2 DEF Switch, Serves, TypeOK
<1>3. ASSUME NEW h \in Hosts, Fire(h)
      PROVE  PhaseOK'
  BY <1>3 DEF Fire, TypeOK, P!BeginReport
<1>4. ASSUME NEW h \in Hosts, Notified(h)
      PROVE  PhaseOK'
  BY <1>4 DEF Notified, TypeOK, P!Succeed
<1>5. ASSUME NEW h \in Hosts, NotifyFails(h)
      PROVE  PhaseOK'
  BY <1>5 DEF NotifyFails, TypeOK, P!Fail
<1>6. ASSUME NEW h \in Hosts, NEW s \in SIDs, Notify(h, s)
      PROVE  PhaseOK'
  BY <1>6 DEF Notify, TypeOK, P!Tell
<1>7. ASSUME NEW h \in Hosts, Respond(h)
      PROVE  PhaseOK'
  BY <1>7 DEF Respond, TypeOK, P!Close
<1>8. ASSUME NEW h \in Hosts, NEW s \in SIDs, Subscribe(h, s)
      PROVE  PhaseOK'
  BY <1>8 DEF Subscribe, TypeOK, P!Accept
<1>9. ASSUME NEW s \in SIDs, P!Retire(s), UNCHANGED <<pc, init>>
      PROVE  PhaseOK'
  BY <1>9 DEF TypeOK, P!Retire
<1>10. ASSUME NEW h \in Hosts, Unsubscribe(h)
       PROVE  PhaseOK'
  <2>1. CASE SubscriptionID \in active
    BY <1>9, <1>10, <2>1 DEF Unsubscribe, TypeOK
  <2>2. CASE SubscriptionID \notin active
    BY <1>1, <1>10, <2>2 DEF Unsubscribe, P!Retire
  <2>3. QED
    BY <2>1, <2>2
<1>11. ASSUME NEW s \in SIDs, Expire(s)
       PROVE  PhaseOK'
  BY <1>9, <1>11 DEF Expire
<1>12. ASSUME NEW s \in SIDs, InitRead(s) \/ InitSend(s)
       PROVE  PhaseOK'
  BY <1>12 DEF InitRead, InitSend, TypeOK
<1>13. ASSUME Reply, inbox # <<>>,
              UNCHANGED <<phase, told, active, retired>>
       PROVE  PhaseOK'
  <2>1. Head(inbox) = inbox[1] /\ 1 \in DOMAIN inbox /\ Head(inbox) \in Events
    BY <1>13, InboxTail DEF Reply
  <2>2. CASE inbox[1].from \in Hosts
    BY <1>13, <2>1, <2>2 DEF Reply, InboxOK, TypeOK
  <2>3. CASE inbox[1].from \in SIDs
    BY <1>13, <2>1, <2>3 DEF Reply, InboxOK, TypeOK
  <2>4. QED
    BY <2>1, <2>2, <2>3 DEF Events
<1>14. CASE Lookup
  BY <1>1, <1>13, <1>14 DEF Lookup, ServingOK
<1>15. CASE SetText
  BY <1>13, <1>15 DEF SetText, ServingOK
<1>16. ASSUME NEW h \in Hosts, Query(h)
       PROVE  PhaseOK'
  BY <1>1, <1>16 DEF Query
<1>17. ASSUME NEW s \in SIDs, InitFails(s)
       PROVE  PhaseOK'
  BY <1>1, <1>17 DEF InitFails
<1>18. CASE UNCHANGED vars
  BY <1>1, <1>18 DEF vars
<1>19. ASSUME NEW c, NEW request, Call(c, request)
       PROVE  PhaseOK'
  BY <1>1, <1>19 DEF Call
<1>20. CASE CloseWindow \/ AddNode \/ AddItem
  BY <1>1, <1>20 DEF CloseWindow, AddNode, AddItem
<1>21. ASSUME NEW f, ConnectionEnds(f)
       PROVE  PhaseOK'
  BY <1>1, <1>21 DEF ConnectionEnds
<1>22. QED
  BY <1>2, <1>3, <1>4, <1>5, <1>6, <1>7, <1>8, <1>10, <1>11, <1>12, <1>14,
     <1>15, <1>16, <1>17, <1>18, <1>19, <1>20, <1>21
     DEF Next, Invoke, Click, ServerStep, TimerStep, Shows

\* A NOTIFY that comes, and one that is answered.
LEMMA InboxMore ==
  ASSUME TypeOK, InboxOK, NEW e \in Events, inbox' = Append(inbox, e),
         \A i \in DOMAIN inbox : inbox[i].from # e.from,
         e.from \in Hosts => pc'[e.from] = "await",
         e.from \in SIDs => init'[e.from] = "await" /\ e.sid = e.from,
         \A h \in Hosts : pc[h] = "await" => pc'[h] = "await",
         \A s \in SIDs : init[s] = "await" => init'[s] = "await",
         window' # "closed"
  PROVE  InboxOK'
<1>1. PICK n : /\ DOMAIN inbox' = DOMAIN inbox \cup {n} /\ n \notin DOMAIN inbox
               /\ inbox'[n] = e
               /\ \A i \in DOMAIN inbox : inbox'[i] = inbox[i]
  BY InboxAppend
<1>2. QED
  BY <1>1 DEF InboxOK

LEMMA InboxReply ==
  ASSUME TypeOK, InboxOK, inbox # <<>>, Reply, UNCHANGED window
  PROVE  InboxOK'
<1>1. /\ 1 \in DOMAIN inbox /\ Head(inbox) = inbox[1] /\ inbox[1] \in Events
      /\ \A i \in DOMAIN inbox' :
           i + 1 \in DOMAIN inbox /\ i + 1 # 1 /\ inbox'[i] = inbox[i + 1]
      /\ DOMAIN inbox' \subseteq Int
  BY InboxTail DEF Reply, TypeOK
<1>2. \A i \in DOMAIN inbox' : inbox'[i].from # inbox[1].from
  BY <1>1 DEF InboxOK
<1>3. ASSUME NEW i \in DOMAIN inbox', NEW j \in DOMAIN inbox',
             inbox'[i].from = inbox'[j].from
      PROVE  i = j
  <2>1. i + 1 = j + 1
    BY <1>1, <1>3 DEF InboxOK
  <2>2. QED
    BY <1>1, <2>1
<1>4. ASSUME NEW i \in DOMAIN inbox'
      PROVE  LET e == inbox'[i] IN
               /\ e.from \in Hosts => pc'[e.from] = "await"
               /\ e.from \in SIDs => init'[e.from] = "await" /\ e.sid = e.from
  BY <1>1, <1>2 DEF InboxOK, Reply, Goto, TypeOK
<1>5. window' # "closed"
  BY DEF InboxOK
<1>6. QED
  BY <1>3, <1>4, <1>5 DEF InboxOK

LEMMA InboxStep ==
  ASSUME TypeOK, PhaseOK, InboxOK, ServingOK, [Next]_vars
  PROVE  InboxOK'
<1> USE EventingAssumption
    DEF publisher, light, tree, display, event, Goto
<1>1. ASSUME UNCHANGED inbox, window' = "closed" => window = "closed",
             \A h \in Hosts : pc[h] = "await" => pc'[h] = "await",
             \A s \in SIDs : init[s] = "await" => init'[s] = "await"
      PROVE  InboxOK'
  BY <1>1 DEF InboxOK
<1>2. ASSUME NEW h \in Hosts, Switch(h) \/ Fire(h) \/ Notified(h)
      PROVE  InboxOK'
  BY <1>1, <1>2 DEF Switch, Serves, Fire, Notified, TypeOK
<1>3. ASSUME NEW h \in Hosts, NotifyFails(h)
      PROVE  InboxOK'
  <2>1. CASE pc[h] = "notify"
    BY <1>1, <1>3, <2>1 DEF NotifyFails, TypeOK
  <2>2. CASE window = "closed"
    BY <1>3, <2>2 DEF NotifyFails, InboxOK
  <2>3. QED
    BY <1>3, <2>1, <2>2 DEF NotifyFails
<1>4. ASSUME NEW h \in Hosts, NEW s \in SIDs, Notify(h, s)
      PROVE  InboxOK'
  <2>1. PICK e \in Events : /\ inbox' = Append(inbox, e)
                            /\ e.from = h
    BY <1>4, Notices DEF Notify
  <2>2. \A i \in DOMAIN inbox : inbox[i].from # h
    BY <1>4 DEF Notify, InboxOK
  <2>3. QED
    BY <1>4, <2>1, <2>2, InboxMore DEF Notify, TypeOK
<1>5. ASSUME NEW h \in Hosts, Respond(h) \/ Query(h) \/ Unsubscribe(h)
      PROVE  InboxOK'
  BY <1>1, <1>5 DEF Respond, Query, Unsubscribe, TypeOK
<1>6. ASSUME NEW h \in Hosts, NEW s \in SIDs, Subscribe(h, s)
      PROVE  InboxOK'
  BY <1>1, <1>6 DEF Subscribe, P!Accept, PhaseOK, TypeOK
<1>7. ASSUME NEW s \in SIDs, Expire(s) \/ InitRead(s) \/ InitFails(s)
      PROVE  InboxOK'
  BY <1>1, <1>7 DEF Expire, InitRead, InitFails, TypeOK
<1>8. ASSUME NEW s \in SIDs, InitSend(s)
      PROVE  InboxOK'
  <2>1. PICK e \in Events : /\ inbox' = Append(inbox, e)
                            /\ e.from = s /\ e.sid = s
    BY <1>8, Notices DEF InitSend
  <2>2. \A i \in DOMAIN inbox : inbox[i].from # s
    BY <1>8 DEF InitSend, InboxOK
  <2>3. /\ s \notin Hosts
        /\ \A r \in SIDs : init'[r] = IF r = s THEN "await" ELSE init[r]
        /\ UNCHANGED <<pc, window>> /\ window # "closed"
    BY <1>8 DEF InitSend, TypeOK
  <2>4. QED
    BY <2>1, <2>2, <2>3, InboxMore
<1>9. CASE CloseWindow
  BY <1>9 DEF CloseWindow, InboxOK
<1>10. CASE Lookup
  BY <1>1, <1>10, InboxReply DEF Lookup, ServingOK
<1>11. CASE SetText
  BY <1>11, InboxReply DEF SetText, ServingOK
<1>12. CASE AddNode \/ AddItem \/ UNCHANGED vars
  BY <1>1, <1>12 DEF AddNode, AddItem, vars
<1>13. ASSUME NEW c, NEW request, Call(c, request)
       PROVE  InboxOK'
  BY <1>1, <1>13 DEF Call
<1>14. ASSUME NEW f, ConnectionEnds(f)
       PROVE  InboxOK'
  BY <1>1, <1>14 DEF ConnectionEnds
<1>15. QED
  BY <1>2, <1>3, <1>4, <1>5, <1>6, <1>7, <1>8, <1>9, <1>10, <1>11, <1>12,
     <1>13, <1>14
     DEF Next, Invoke, Click, ServerStep, TimerStep, Shows

-----------------------------------------------------------------------------
(* Values.                                                                 *)

\* Who is still to hear stays so, unless a NOTIFY to it is answered.
LEMMA PendingStays ==
  ASSUME TypeOK, NEW s \in SIDs, Pending(s),
         init[s] \in {"armed", "send", "await"} =>
           init'[s] \in {"armed", "send", "await"},
         \A h \in Hosts : phase[h] = "telling" /\ s \in due[h] \ told[h] =>
           phase'[h] = "telling" /\ s \in due'[h] \ told'[h],
         \A i \in DOMAIN inbox, h \in Hosts :
           inbox[i].from = h /\ inbox[i].sid = s /\ phase[h] = "telling" =>
             phase'[h] = "telling" /\ \E j \in DOMAIN inbox' :
                                        inbox'[j] = inbox[i]
  PROVE  Pending(s)'
<1>1. CASE init[s] \in {"armed", "send", "await"}
  BY <1>1 DEF Pending
<1>2. ASSUME NEW h \in Hosts, phase[h] = "telling", s \in due[h] \ told[h]
      PROVE  Pending(s)'
  BY <1>2 DEF Pending
<1>3. ASSUME NEW h \in Hosts, phase[h] = "telling", NEW i \in DOMAIN inbox,
             inbox[i].from = h, inbox[i].sid = s
      PROVE  Pending(s)'
  <2>1. PICK j \in DOMAIN inbox' : inbox'[j] = inbox[i]
    BY <1>3
  <2>2. phase'[h] = "telling"
    BY <1>3
  <2>3. QED
    BY <1>3, <2>1, <2>2 DEF Pending
<1>4. QED
  BY <1>1, <1>2, <1>3 DEF Pending

\* Nothing that the values depend on has changed.
LEMMA ValuesStay ==
  ASSUME TypeOK, ValuesOK, Clear' => Clear,
         UNCHANGED <<m_PowerState, phase, value, init, first, inbox, due, told,
                     shown>>,
         window' # "closed" => window # "closed",
         active' \subseteq active
  PROVE  ValuesOK'
<1>1. \A s : UNCHANGED Pending(s)
  BY DEF Pending
<1>2. QED
  BY <1>1 DEF ValuesOK

\* A NOTIFY of the light's state is answered.
LEMMA ValuesReply ==
  ASSUME TypeOK, InboxOK, ValuesOK, inbox # <<>>, Reply, Clear' => Clear,
         UNCHANGED <<m_PowerState, phase, value, first, due, told, active,
                     window>>,
         \/ shown' = Head(inbox).value
         \/ shown' = shown /\ (Head(inbox).sid \in active => blurred')
  PROVE  ValuesOK'
<1> SUFFICES ASSUME Clear' PROVE ValuesOK'
  BY DEF ValuesOK
<1>1. /\ \A h \in Hosts : phase[h] = "telling" => value[h] = m_PowerState
      /\ \A s \in SIDs : init[s] = "send" => first[s] = m_PowerState
      /\ \A i \in DOMAIN inbox : inbox[i].value = m_PowerState
      /\ window # "closed" =>
           \A s \in active : shown = m_PowerState \/ Pending(s)
  BY DEF ValuesOK
<1>2. /\ 1 \in DOMAIN inbox /\ Head(inbox) = inbox[1]
      /\ \A i \in DOMAIN inbox' :
           i + 1 \in DOMAIN inbox /\ inbox'[i] = inbox[i + 1]
      /\ \A i \in DOMAIN inbox : i # 1 =>
           \E j \in DOMAIN inbox' : inbox'[j] = inbox[i]
  BY InboxTail DEF Reply
<1>3. \A i \in DOMAIN inbox' : inbox'[i].value = m_PowerState
  BY <1>1, <1>2
<1>4. \A s \in SIDs : init'[s] # init[s] =>
        s = inbox[1].sid /\ init'[s] = "done"
  BY <1>2 DEF Reply, InboxOK, TypeOK
<1>5. ASSUME NEW s \in active, window # "closed", shown' # m_PowerState
      PROVE  Pending(s)'
  <2>1. shown' = shown /\ inbox[1].sid # s
    BY <1>1, <1>2, <1>5 DEF Clear
  <2>2. Pending(s) /\ s \in SIDs
    BY <1>1, <1>5, <2>1 DEF TypeOK
  <2>3. init'[s] = init[s]
    BY <1>4, <2>1, <2>2
  <2>4. \A i \in DOMAIN inbox : inbox[i].sid = s =>
          \E j \in DOMAIN inbox' : inbox'[j] = inbox[i]
    BY <1>2, <2>1
  <2>5. QED
    BY <2>2, <2>3, <2>4, PendingStays
<1>6. QED
  BY <1>1, <1>3, <1>4, <1>5 DEF ValuesOK

LEMMA ValuesStep ==
  ASSUME TypeOK, PhaseOK, InboxOK, ServingOK, ValuesOK, [Next]_vars
  PROVE  ValuesOK'
<1> USE EventingAssumption
    DEF publisher, light, tree, display, event, Goto, P!reports
<1>1. ASSUME NEW h \in Hosts, Switch(h)
      PROVE  ValuesOK'
  <2>1. pc'[h] = "fire"
    BY <1>1 DEF Switch, TypeOK
  <2>2. QED
    BY <2>1 DEF ValuesOK, Clear
<1>2. ASSUME NEW h \in Hosts, Fire(h)
      PROVE  ValuesOK'
  <2> SUFFICES ASSUME ~OthersTell(h) PROVE ValuesOK'
    BY <1>2 DEF Fire, ValuesOK, Clear
  <2>1. /\ phase[h] = "idle" /\ told[h] = {}
        /\ phase' = [phase EXCEPT ![h] = "telling"]
        /\ due' = [due EXCEPT ![h] = active]
        /\ value' = [value EXCEPT ![h] = m_PowerState]
        /\ UNCHANGED <<m_PowerState, told, active, init, first, inbox>>
    BY <1>2 DEF Fire, P!BeginReport, PhaseOK
  <2>2. \A g \in Hosts : phase'[g] = "telling" => g = h
    BY <2>1 DEF OthersTell, TypeOK
  <2>3. \A s \in SIDs : init[s] \notin {"send", "await"}
    BY DEF OthersTell
  <2>4. DOMAIN inbox = {}
    <3>1. ASSUME NEW i \in DOMAIN inbox PROVE FALSE
      <4>1. inbox[i].from \in Hosts \cup SIDs
        <5>1. inbox \in Seq(Events) /\ i \in 1 .. Len(inbox)
          BY DEF TypeOK
        <5>2. inbox[i] \in Events
          BY <5>1, ElementOfSeq
        <5>3. QED
          BY <5>2 DEF Events
      <4>2. CASE inbox[i].from \in Hosts
        BY <1>2, <2>1, <2>2, <4>2 DEF InboxOK, PhaseOK, Fire, TypeOK
      <4>3. CASE inbox[i].from \in SIDs
        BY <2>3, <4>3 DEF InboxOK
      <4>4. QED
        BY <4>1, <4>2, <4>3
    <3>2. QED
      BY <3>1
  <2>5. \A s \in active : Pending(s)'
    <3>1. phase'[h] = "telling" /\ due'[h] = active /\ told'[h] = {}
      BY <2>1 DEF TypeOK
    <3>2. QED
      BY <3>1 DEF Pending
  <2>6. QED
    BY <2>1, <2>2, <2>3, <2>4, <2>5 DEF ValuesOK, TypeOK
<1>3. ASSUME NEW h \in Hosts, Notified(h)
      PROVE  ValuesOK'
  <2>1. /\ phase[h] = "telling"
        /\ due[h] \cap active \subseteq told[h]
        /\ phase' = [phase EXCEPT ![h] = "ok"]
        /\ UNCHANGED <<m_PowerState, value, init, first, inbox, due, told,
                       active, shown, window, blurred>>
    BY <1>3 DEF Notified, P!Succeed
  <2>2. Clear' => Clear
    BY <1>3, <2>1 DEF Notified, Clear, TypeOK
  <2>3. \A i \in DOMAIN inbox : inbox[i].from # h
    BY <1>3 DEF Notified, InboxOK
  <2>4. ASSUME NEW s \in active, Pending(s)
        PROVE  Pending(s)'
    <3>1. s \in SIDs /\ s \notin due[h] \ told[h]
      BY <2>1 DEF TypeOK
    <3>2. \A g \in Hosts : g # h => phase'[g] = phase[g]
      BY <2>1 DEF TypeOK
    <3>3. QED
      BY <2>1, <2>3, <2>4, <3>1, <3>2, PendingStays
  <2>5. QED
    BY <2>1, <2>2, <2>4 DEF ValuesOK, TypeOK
<1>4. ASSUME NEW h \in Hosts, NotifyFails(h)
      PROVE  ValuesOK'
  BY <1>4 DEF NotifyFails, ValuesOK, Clear
<1>5. ASSUME NEW h \in Hosts, NEW s \in SIDs, Notify(h, s)
      PROVE  ValuesOK'
  <2>1. PICK e \in Events :
          /\ inbox' = Append(inbox, e)
          /\ e.from = h /\ e.sid = s /\ e.value = value[h]
    BY <1>5, Notices DEF Notify
  <2>2. PICK n : /\ DOMAIN inbox' = DOMAIN inbox \cup {n}
                 /\ inbox'[n] = e
                 /\ \A i \in DOMAIN inbox : inbox'[i] = inbox[i]
    BY <2>1, InboxAppend
  <2>3. /\ phase[h] = "telling"
        /\ told' = [told EXCEPT ![h] = @ \cup {s}]
        /\ UNCHANGED <<m_PowerState, phase, value, init, first, due, active,
                       shown, window, blurred>>
    BY <1>5 DEF Notify, P!Tell
  <2>4. Clear' => Clear
    BY <1>5, <2>3 DEF Notify, Clear, TypeOK
  <2>5. ASSUME NEW r \in active, Pending(r)
        PROVE  Pending(r)'
    <3>1. CASE r = s
      <4>1. n \in DOMAIN inbox' /\ inbox'[n].from = h /\ inbox'[n].sid = r
        BY <2>1, <2>2, <3>1
      <4>2. QED
        BY <2>3, <4>1 DEF Pending
    <3>2. CASE r # s
      <4>1. r \in SIDs /\ \A g \in Hosts : r \in due[g] \ told[g] =>
                                             r \in due'[g] \ told'[g]
        BY <2>3, <3>2 DEF TypeOK
      <4>2. QED
        BY <2>2, <2>3, <2>5, <4>1, PendingStays
    <3>3. QED
      BY <3>1, <3>2
  <2>6. Clear => e.value = m_PowerState
    BY <2>1, <2>3 DEF ValuesOK
  <2>7. QED
    BY <2>2, <2>3, <2>4, <2>5, <2>6 DEF ValuesOK
<1>6. ASSUME NEW h \in Hosts, Respond(h)
      PROVE  ValuesOK'
  <2>1. /\ phase[h] # "telling"
        /\ phase' = [phase EXCEPT ![h] = "idle"]
        /\ due' = [due EXCEPT ![h] = {}]
        /\ told' = [told EXCEPT ![h] = {}]
        /\ value' = [value EXCEPT ![h] = FALSE]
        /\ UNCHANGED <<m_PowerState, init, first, inbox, active, shown, window,
                       blurred>>
    BY <1>6 DEF Respond, P!Close
  <2>2. Clear' => Clear
    BY <1>6, <2>1 DEF Respond, Clear, TypeOK
  <2>3. \A g \in Hosts : /\ phase'[g] = "telling" <=> phase[g] = "telling"
                         /\ phase[g] = "telling" =>
                              /\ due'[g] = due[g] /\ told'[g] = told[g]
                              /\ value'[g] = value[g]
    BY <2>1 DEF TypeOK
  <2>4. ASSUME NEW s \in active, Pending(s)
        PROVE  Pending(s)'
    BY <2>1, <2>3, <2>4, PendingStays DEF TypeOK
  <2>5. QED
    BY <2>1, <2>2, <2>3, <2>4 DEF ValuesOK
<1>7. ASSUME NEW h \in Hosts, Query(h)
      PROVE  ValuesOK'
  <2>1. /\ shown' = m_PowerState
        /\ UNCHANGED <<m_PowerState, phase, pc, value, init, first, inbox,
                       blurred>>
    BY <1>7 DEF Query
  <2>2. QED
    BY <2>1 DEF ValuesOK, Clear
<1>8. ASSUME NEW h \in Hosts, NEW s \in SIDs, Subscribe(h, s)
      PROVE  ValuesOK'
  <2>1. /\ active' = active \cup {s}
        /\ init' = [init EXCEPT ![s] = "armed"]
        /\ UNCHANGED <<m_PowerState, phase, pc, value, first, inbox, due, told,
                       shown, blurred>>
    BY <1>8 DEF Subscribe, P!Accept
  <2>2. window # "closed"
    BY <1>8, HeadOfQueue DEF Subscribe, Serves, ServingOK
  <2>3. ASSUME NEW r \in active, Pending(r)
        PROVE  Pending(r)'
    BY <2>1, <2>3, PendingStays DEF TypeOK
  <2>4. Pending(s)'
    BY <2>1 DEF Pending, TypeOK
  <2>5. Clear' => Clear
    BY <2>1 DEF Clear
  <2>6. QED
    BY <2>1, <2>2, <2>3, <2>4, <2>5 DEF ValuesOK, TypeOK
<1>9. ASSUME NEW h \in Hosts, Unsubscribe(h)
      PROVE  ValuesOK'
  BY <1>9, ValuesStay DEF Unsubscribe, P!Retire, Clear
<1>10. ASSUME NEW s \in SIDs, Expire(s)
       PROVE  ValuesOK'
  BY <1>10, ValuesStay DEF Expire, P!Retire, Clear
<1>11. ASSUME NEW s \in SIDs, InitRead(s)
       PROVE  ValuesOK'
  <2>1. /\ init' = [init EXCEPT ![s] = "send"]
        /\ first' = [first EXCEPT ![s] = m_PowerState]
        /\ UNCHANGED <<m_PowerState, phase, pc, value, inbox, due, told, active,
                       shown, window, blurred>>
    BY <1>11 DEF InitRead
  <2>2. ASSUME NEW r \in active, Pending(r)
        PROVE  Pending(r)'
    BY <2>1, <2>2, PendingStays DEF TypeOK
  <2>3. QED
    BY <2>1, <2>2 DEF ValuesOK, Clear, TypeOK
<1>12. ASSUME NEW s \in SIDs, InitSend(s)
       PROVE  ValuesOK'
  <2>1. PICK e \in Events :
          /\ inbox' = Append(inbox, e)
          /\ e.value = first[s]
    BY <1>12, Notices DEF InitSend
  <2>2. PICK n : /\ DOMAIN inbox' = DOMAIN inbox \cup {n}
                 /\ inbox'[n] = e
                 /\ \A i \in DOMAIN inbox : inbox'[i] = inbox[i]
    BY <2>1, InboxAppend
  <2>3. /\ init[s] = "send"
        /\ init' = [init EXCEPT ![s] = "await"]
        /\ first' = [first EXCEPT ![s] = FALSE]
        /\ UNCHANGED <<m_PowerState, phase, pc, value, due, told, active,
                       shown, window, blurred>>
    BY <1>12 DEF InitSend
  <2>4. ASSUME NEW r \in active, Pending(r)
        PROVE  Pending(r)'
    <3>1. r \in SIDs
      BY DEF TypeOK
    <3>2. init[r] \in {"armed", "send", "await"} =>
            init'[r] \in {"armed", "send", "await"}
      BY <2>3, <3>1 DEF TypeOK
    <3>3. QED
      BY <2>2, <2>3, <2>4, <3>1, <3>2, PendingStays
  <2>5. \A r \in SIDs : init'[r] = "send" =>
          init[r] = "send" /\ first'[r] = first[r]
    BY <2>3 DEF TypeOK
  <2>6. Clear = Clear'
    BY <2>3 DEF Clear
  <2>7. QED
    BY <2>1, <2>2, <2>3, <2>4, <2>5, <2>6 DEF ValuesOK
<1>13. ASSUME NEW s \in SIDs, InitFails(s)
       PROVE  ValuesOK'
  BY <1>13, ValuesStay DEF InitFails, Clear
<1>14. CASE CloseWindow
  <2>1. DOMAIN inbox' = {}
    BY <1>14 DEF CloseWindow
  <2>2. QED
    BY <1>14, <2>1 DEF CloseWindow, ValuesOK, Clear
<1>15. CASE Lookup
  <2>1. CASE Head(inbox).sid \in nodes /\ UNCHANGED <<inbox, pc, init, blurred>>
    BY <1>15, <2>1, ValuesStay DEF Lookup, Clear
  <2>2. CASE blurred' = (blurred \/ Head(inbox).sid \in active) /\ Reply
    <3>1. Clear' => Clear
      <4>1. \A h \in Hosts : pc[h] = "fire" => pc'[h] = "fire"
        <5>1. Head(inbox) = inbox[1] /\ 1 \in DOMAIN inbox
          BY <1>15, <2>2, InboxTail DEF Reply, Lookup, ServingOK
        <5>2. QED
          BY <2>2, <5>1 DEF Reply, InboxOK, TypeOK
      <4>2. QED
        BY <2>2, <4>1 DEF Clear
    <3>2. QED
      BY <1>15, <2>2, <3>1, ValuesReply DEF Lookup, ServingOK
  <2>3. QED
    BY <1>15, <2>1, <2>2 DEF Lookup
<1>16. CASE SetText
  <2>1. Clear' => Clear
    <3>1. Head(inbox) = inbox[1] /\ 1 \in DOMAIN inbox
      BY <1>16, InboxTail DEF Reply, SetText, ServingOK
    <3>2. \A h \in Hosts : pc[h] = "fire" => pc'[h] = "fire"
      BY <1>16, <3>1 DEF SetText, Reply, InboxOK, TypeOK
    <3>3. QED
      BY <1>16, <3>2 DEF SetText, Clear
  <2>2. QED
    BY <1>16, <2>1, ValuesReply DEF SetText, ServingOK
<1>17. CASE AddNode \/ AddItem \/ UNCHANGED vars
  BY <1>17, ValuesStay DEF AddNode, AddItem, vars, Clear
<1>18. ASSUME NEW c, NEW request, Call(c, request)
       PROVE  ValuesOK'
  BY <1>18, ValuesStay DEF Call, Clear
<1>19. ASSUME NEW f, ConnectionEnds(f)
       PROVE  ValuesOK'
  BY <1>19, ValuesStay DEF ConnectionEnds, Clear
<1>20. QED
  BY <1>1, <1>2, <1>3, <1>4, <1>5, <1>6, <1>7, <1>8, <1>9, <1>10, <1>11,
     <1>12, <1>13, <1>14, <1>15, <1>16, <1>17, <1>18, <1>19
     DEF Next, Invoke, Click, ServerStep, TimerStep, Shows

-----------------------------------------------------------------------------
(* Theorems.                                                               *)

LEMMA InitInvariant == Init => TypeOK /\ ShowInv
<1> SUFFICES ASSUME Init PROVE TypeOK /\ ShowInv
  OBVIOUS
<1>1. <<>> \in Seq(Events) /\ <<>> \in Seq(Callers) /\ DOMAIN <<>> = {}
  BY EmptySeq
<1>2. TypeOK
  BY <1>1, EventingAssumption
     DEF Init, P!Init, TypeOK, QueuesOK, IsInjective, Range
<1>3. ShowInv
  BY <1>1, EventingAssumption
     DEF Init, P!Init, ShowInv, ServingOK, PhaseOK, InboxOK, ValuesOK, Callers
<1>4. QED
  BY <1>2, <1>3

LEMMA Invariant == Spec => [](TypeOK /\ ShowInv)
<1>1. TypeOK /\ ShowInv /\ [Next]_vars => (TypeOK /\ ShowInv)'
  BY TypeStep, ServingStep, PhaseStep, InboxStep, ValuesStep DEF ShowInv
<1>2. QED
  BY <1>1, InitInvariant, PTL DEF Spec

\* Every variable keeps its type, and every queue holds the callers that wait
\* for its host, each once.
THEOREM TypeCorrect == Spec => []TypeOK
BY Invariant, PTL

\* When all is quiet, the tree shows the light as it is, for any number of
\* servers, workers and subscriptions, unless the last change was told while
\* another value was, or an event found no node, or a report failed.
THEOREM ShownCorrect == Spec => []ShownIsCurrent
<1>1. TypeOK /\ ShowInv => ShownIsCurrent
  BY DEF ShowInv, TypeOK, ShownIsCurrent, Quiet, PhaseOK, ValuesOK, Clear,
     Pending
<1>2. QED
  BY <1>1, Invariant, PTL

\* No step of anyone else lets one of the three go on.
LEMMA CircleStep ==
  ASSUME TypeOK, ServingOK, Circle, [Next]_vars
  PROVE  Circle'
<1> USE EventingAssumption
    DEF publisher, light, tree, display, event, Goto, Circle, Callers
<1>1. ~Free /\ window = "idle" /\ Found[UI] \in Hosts
  BY DEF Free, ServingOK, TypeOK
<1>2. ASSUME UNCHANGED <<inbox, listener, created>>,
             ask'[UI] = ask[UI], pc'[Found[UI]] = pc[Found[UI]]
      PROVE  Circle'
  BY <1>2
<1>3. ASSUME NEW c \in Callers, NEW request, Call(c, request)
      PROVE  Circle'
  BY <1>2, <1>3 DEF Call, TypeOK
<1>4. ~CloseWindow /\ ~AddNode /\ ~Shows /\ ~Lookup
  BY <1>1 DEF CloseWindow, AddNode, Shows, AddItem, SetText, Lookup
<1>5. ASSUME NEW h \in Hosts, queue[h] # <<>>, Answer(h), h # Found[UI]
      PROVE  ask'[UI] = ask[UI]
  <2>1. Head(queue[h]) # UI
    BY <1>5, HeadOfQueue
  <2>2. QED
    BY <1>5, <2>1 DEF Answer, TypeOK
<1>6. ASSUME NEW h \in Hosts, Respond(h) \/ Query(h) \/ Unsubscribe(h)
      PROVE  Circle'
  <2>1. h # Found[UI]
    BY <1>6 DEF Respond, Query, Unsubscribe, Serves
  <2>2. queue[h] # <<>> /\ Answer(h)
    BY <1>6 DEF Respond, Query, Unsubscribe, Serves, ServingOK
  <2>3. pc'[Found[UI]] = pc[Found[UI]]
    BY <1>1, <1>6, <2>1 DEF Respond, Query, Unsubscribe, TypeOK
  <2>4. UNCHANGED <<inbox, listener, created>>
    BY <1>6 DEF Respond, Query, Unsubscribe
  <2>5. QED
    BY <1>2, <1>5, <2>1, <2>2, <2>3, <2>4
<1>7. ASSUME NEW h \in Hosts, NEW s \in SIDs, Subscribe(h, s)
      PROVE  Circle'
  <2>1. h # Found[UI]
    BY <1>7 DEF Subscribe, Serves
  <2>2. QED
    BY <1>2, <1>5, <1>7, <2>1 DEF Subscribe, Serves
<1>8. ASSUME NEW h \in Hosts, NEW s \in SIDs, Notify(h, s)
      PROVE  Circle'
  <2>1. inbox' # <<>> /\ h # Found[UI]
    BY <1>8, Notices, InboxAppend DEF Notify
  <2>2. QED
    BY <1>1, <1>8, <2>1 DEF Notify, TypeOK
<1>9. ASSUME NEW h \in Hosts,
             Switch(h) \/ Fire(h) \/ Notified(h) \/ NotifyFails(h)
      PROVE  Circle'
  <2>1. h # Found[UI]
    BY <1>1, <1>9 DEF Switch, Serves, Fire, Notified, NotifyFails
  <2>2. QED
    BY <1>1, <1>2, <1>9, <2>1 DEF Switch, Fire, Notified, NotifyFails, TypeOK
<1>10. ASSUME NEW s \in SIDs, InitSend(s)
       PROVE  Circle'
  <2>1. inbox' # <<>>
    BY <1>10, Notices, InboxAppend DEF InitSend
  <2>2. QED
    BY <1>10, <2>1 DEF InitSend
<1>11. ASSUME NEW s \in SIDs, InitRead(s) \/ InitFails(s) \/ Expire(s)
       PROVE  Circle'
  BY <1>2, <1>11 DEF InitRead, InitFails, Expire
<1>12. CASE UNCHANGED vars
  BY <1>2, <1>12 DEF vars
<1>13. ASSUME NEW f, ConnectionEnds(f)
       PROVE  Circle'
  BY <1>2, <1>13 DEF ConnectionEnds
<1>14. QED
  BY <1>3, <1>4, <1>6, <1>7, <1>8, <1>9, <1>10, <1>11, <1>12, <1>13
     DEF Next, Invoke, Click, ServerStep, TimerStep

\* Once window, server and listener wait for each other, they do so for good,
\* whatever everyone else does: SUBSCRIBE, UNSUBSCRIBE and queries have no
\* timeout, and a device's NOTIFY has none either.
THEOREM CircleIsForGood == Spec => [][Circle => Circle']_vars
<1>1. TypeOK /\ ShowInv /\ [Next]_vars => [Circle => Circle']_vars
  BY CircleStep DEF ShowInv
<1>2. QED
  BY <1>1, Invariant, PTL DEF Spec
=============================================================================
