------------------------- MODULE EventHandler_proofs -------------------------
(***************************************************************************)
(* Proofs about EventHandler, for every device, every number of threads    *)
(* and subscriptions, and every expiration and period.                     *)
(***************************************************************************)
EXTENDS EventHandler, SequenceTheorems, TLAPS

\* Removing position i of a list: what is left, and where.
LEMMA RemoveAtProperties ==
  ASSUME NEW S, NEW q \in Seq(S), NEW i \in 1 .. Len(q)
  PROVE  /\ RemoveAt(q, i) \in Seq(S)
         /\ Len(RemoveAt(q, i)) = Len(q) - 1
         /\ \A j \in 1 .. Len(q) - 1 :
              RemoveAt(q, i)[j] = IF j < i THEN q[j] ELSE q[j + 1]
<1>1. PICK l, r : l = SubSeq(q, 1, i - 1) /\ r = SubSeq(q, i + 1, Len(q))
  OBVIOUS
<1>2. l \in Seq(S) /\ Len(l) = i - 1 /\ \A j \in 1 .. i - 1 : l[j] = q[j]
  BY <1>1
<1>3. r \in Seq(S) /\ Len(r) = Len(q) - i
      /\ \A j \in 1 .. Len(q) - i : r[j] = q[i + j]
  BY <1>1
<1>4. /\ l \o r \in Seq(S)
      /\ Len(l \o r) = Len(q) - 1
      /\ \A j \in 1 .. Len(q) - 1 :
           (l \o r)[j] = IF j <= Len(l) THEN l[j] ELSE r[j - Len(l)]
  BY <1>2, <1>3, ConcatProperties
<1>5. ASSUME NEW j \in 1 .. Len(q) - 1
      PROVE  (l \o r)[j] = IF j < i THEN q[j] ELSE q[j + 1]
  <2>1. CASE j < i
    BY <1>2, <1>4, <2>1
  <2>2. CASE ~(j < i)
    <3>1. (l \o r)[j] = r[j - (i - 1)] /\ j - (i - 1) \in 1 .. Len(q) - i
      BY <1>2, <1>4, <2>2
    <3>2. QED
      BY <1>3, <2>2, <3>1
  <2>3. QED
    BY <2>1, <2>2
<1>6. RemoveAt(q, i) = l \o r
  BY <1>1 DEF RemoveAt
<1>7. QED
  BY <1>4, <1>5, <1>6

\* A list without repetitions keeps none when an element is removed, and what
\* it holds is what it held at the other positions.
LEMMA RemoveAtDistinct ==
  ASSUME NEW S, NEW q \in Seq(S), NEW i \in 1 .. Len(q),
         \A j, k \in 1 .. Len(q) : q[j] = q[k] => j = k
  PROVE  /\ \A j, k \in 1 .. Len(RemoveAt(q, i)) :
              RemoveAt(q, i)[j] = RemoveAt(q, i)[k] => j = k
         /\ \A e : (\E j \in 1 .. Len(RemoveAt(q, i)) : RemoveAt(q, i)[j] = e)
                     <=> (e # q[i] /\ \E j \in 1 .. Len(q) : q[j] = e)
<1> DEFINE r == RemoveAt(q, i)
<1>1. /\ Len(r) = Len(q) - 1
      /\ \A j \in 1 .. Len(q) - 1 : r[j] = IF j < i THEN q[j] ELSE q[j + 1]
  BY RemoveAtProperties
<1> HIDE DEF r
<1>2. ASSUME NEW j \in 1 .. Len(r), NEW k \in 1 .. Len(r), r[j] = r[k]
      PROVE  j = k
  <2>1. PICK m \in 1 .. Len(q) : m = (IF j < i THEN j ELSE j + 1)
    BY <1>1
  <2>2. PICK n \in 1 .. Len(q) : n = (IF k < i THEN k ELSE k + 1)
    BY <1>1
  <2>3. q[m] = q[n]
    BY <1>1, <1>2, <2>1, <2>2
  <2>4. QED
    BY <2>1, <2>2, <2>3
<1>3. ASSUME NEW e, NEW j \in 1 .. Len(r), r[j] = e
      PROVE  e # q[i] /\ \E k \in 1 .. Len(q) : q[k] = e
  <2>1. PICK m \in 1 .. Len(q) : m = (IF j < i THEN j ELSE j + 1)
    BY <1>1
  <2>2. q[m] = e /\ m # i
    BY <1>1, <1>3, <2>1
  <2>3. QED
    BY <2>2
<1>4. ASSUME NEW e, e # q[i], NEW k \in 1 .. Len(q), q[k] = e
      PROVE  \E j \in 1 .. Len(r) : r[j] = e
  <2>1. CASE k < i
    BY <2>1, <1>1, <1>4
  <2>2. CASE k > i
    <3>1. k - 1 \in 1 .. Len(r) /\ ~(k - 1 < i)
      BY <2>2, <1>1
    <3>2. r[k - 1] = q[(k - 1) + 1]
      BY <3>1, <1>1
    <3>3. QED
      BY <3>1, <3>2, <1>4
  <2>3. QED
    BY <2>1, <2>2, <1>4
<1>5. QED
  BY <1>2, <1>3, <1>4 DEF r

\* The same when an element that the list does not hold is appended.
LEMMA AppendDistinct ==
  ASSUME NEW S, NEW q \in Seq(S), NEW e \in S,
         \A j, k \in 1 .. Len(q) : q[j] = q[k] => j = k,
         \A j \in 1 .. Len(q) : q[j] # e
  PROVE  /\ \A j, k \in 1 .. Len(Append(q, e)) :
              Append(q, e)[j] = Append(q, e)[k] => j = k
         /\ \A f : (\E j \in 1 .. Len(Append(q, e)) : Append(q, e)[j] = f)
                     <=> (f = e \/ \E j \in 1 .. Len(q) : q[j] = f)
<1>1. /\ Len(Append(q, e)) = Len(q) + 1
      /\ \A j \in 1 .. Len(q) : Append(q, e)[j] = q[j]
      /\ Append(q, e)[Len(q) + 1] = e
  BY AppendProperties
<1>2. QED
  BY <1>1

-----------------------------------------------------------------------------
\* A thread that found an item, or notifies one, holds its SID.
SidOK == \A t \in Threads : pc[t] \in {"found", "notify"} => sid[t] \in SIDs

TypeInv == TypeOK /\ SidOK

\* What Remove leaves of a list of SIDs is a list of SIDs, and its
\* modification count never goes back.
LEMMA ListRemoveType ==
  ASSUME NEW s, ListRemove(s), TypeOK
  PROVE  m_Subscriptions' \in Seq(SIDs) /\ version' \in Nat
<1>1. ASSUME NEW i \in 1 .. Len(m_Subscriptions),
             m_Subscriptions' = RemoveAt(m_Subscriptions, i)
      PROVE  m_Subscriptions' \in Seq(SIDs)
  BY <1>1, RemoveAtProperties DEF TypeOK
<1>2. QED
  BY <1>1 DEF ListRemove, TypeOK, list

\* MoveNext yields an element of the list.
LEMMA CurrentType ==
  ASSUME NEW p \in Nat, NEW v \in Nat, Yields(p, v), TypeOK
  PROVE  Current(p) \in SIDs
BY DEF Yields, Current, TypeOK

\* MoveNext has one outcome.
LEMMA MoveNextCases ==
  ASSUME NEW p \in Nat, NEW v
  PROVE  /\ Throws(v) => ~AtEnd(p, v) /\ ~Yields(p, v)
         /\ AtEnd(p, v) => ~Throws(v) /\ ~Yields(p, v)
         /\ Yields(p, v) => ~Throws(v) /\ ~AtEnd(p, v)
BY DEF Throws, AtEnd, Yields

LEMMA InitTyping == Init => TypeInv
<1> SUFFICES ASSUME Init PROVE TypeInv
  OBVIOUS
<1>1. NoDevice \in Devices
  BY ConstantsAssumption DEF NoDevice
<1>2. QED
  BY <1>1, ConstantsAssumption
     DEF Init, TypeInv, TypeOK, SidOK, AllCalls

LEMMA Typing == Spec => []TypeInv
<1>1. TypeInv /\ [Next]_vars => TypeInv'
  <2> SUFFICES ASSUME TypeInv, [Next]_vars PROVE TypeInv'
    OBVIOUS
  <2> USE ConstantsAssumption
      DEF TypeInv, TypeOK, SidOK, Threads, AllCalls, list, items, enum, calls,
          refresh, hist, store, threads, process, Begin, Return, Goto
  <2>1. CASE BadRequest
    BY <2>1 DEF BadRequest
  <2>2. ASSUME NEW service \in Services, NEW s \in SIDs, Subscribe(service, s)
        PROVE  TypeInv'
    <3>1. Append(m_Subscriptions, s) \in Seq(SIDs)
      BY AppendProperties
    <3>2. QED
      BY <2>2, <3>1 DEF Subscribe, ListAdd
  <2>3. ASSUME NEW s \in SIDs \cup {NoSID}, Resubscribe(s)
        PROVE  TypeInv'
    BY <2>3 DEF Resubscribe, BeginLookup, Enumerate
  <2>4. ASSUME NEW s \in SIDs \cup {NoSID}, RemoveSubscription(s)
        PROVE  TypeInv'
    BY <2>4 DEF RemoveSubscription, BeginLookup, Enumerate
  <2>5. CASE LookupNext
    <3>1. Yields(pos[Http], ver[Http]) => Current(pos[Http]) \in SIDs
      BY CurrentType
    <3>2. QED
      BY <2>5, <3>1 DEF LookupNext
  <2>6. CASE RenewFound
    BY <2>6 DEF RenewFound
  <2>7. CASE RemoveFound
    BY <2>7, ListRemoveType DEF RemoveFound
  <2>8. ASSUME NEW t \in Firers, NEW d \in Devices,
               NEW o \in {"fire", "fireEmpty"}, FireStateChanged(t, d, o)
        PROVE  TypeInv'
    BY <2>8 DEF FireStateChanged, Active, Retired
  <2>9. ASSUME NEW t \in Threads, NextService(t)
        PROVE  TypeInv'
    <3>1. UNCHANGED <<store, op, sid, dev, refresh, process, hist>>
      BY <2>9 DEF NextService
    <3>2. CASE /\ svc' = [svc EXCEPT ![t] = @ + 1]
               /\ Enumerate(t)
               /\ Goto(t, "items")
               /\ UNCHANGED outcome
      <4>1. svc' \in [Threads -> Nat] /\ pos' \in [Threads -> Nat]
        BY <3>2 DEF Enumerate
      <4>2. ver' \in [Threads -> Nat]
        BY <3>2 DEF Enumerate
      <4>3. pc' = [pc EXCEPT ![t] = "items"] /\ UNCHANGED outcome
        BY <3>2
      <4>4. QED
        BY <3>1, <4>1, <4>2, <4>3
    <3>3. CASE Return(t, "ok") /\ UNCHANGED <<svc, enum>>
      BY <3>1, <3>3
    <3>4. QED
      BY <2>9, <3>2, <3>3 DEF NextService
  <2>10. ASSUME NEW t \in Threads, NextItem(t)
         PROVE  TypeInv'
    <3>1. Yields(pos[t], ver[t]) => Current(pos[t]) \in SIDs
      BY CurrentType
    <3>2. CASE Throws(ver[t])
      BY <2>10, <3>2, MoveNextCases DEF NextItem
    <3>3. CASE AtEnd(pos[t], ver[t])
      BY <2>10, <3>3, MoveNextCases DEF NextItem
    <3>4. CASE Yields(pos[t], ver[t])
      <4>1. ~Throws(ver[t]) /\ ~AtEnd(pos[t], ver[t])
        BY <3>4, MoveNextCases
      <4>2. /\ pos' = [pos EXCEPT ![t] = @ + 1]
            /\ UNCHANGED <<outcome, ver>>
            /\ UNCHANGED <<store, op, dev, svc, refresh, process, hist>>
        BY <2>10, <4>1 DEF NextItem
      <4>3. \/ UNCHANGED <<pc, sid>>
            \/ Goto(t, "notify") /\ sid' = [sid EXCEPT ![t] = Current(pos[t])]
        BY <2>10, <4>1 DEF NextItem
      <4>4. QED
        <5>1. pos' \in [Threads -> Nat]
          BY <4>2
        <5>2. CASE UNCHANGED <<pc, sid>>
          BY <4>2, <5>1, <5>2
        <5>3. CASE Goto(t, "notify") /\ sid' = [sid EXCEPT ![t] = Current(pos[t])]
          BY <3>1, <3>4, <4>2, <5>1, <5>3
        <5>4. QED
          BY <4>3, <5>2, <5>3
    <3>5. QED
      BY <2>10, <3>2, <3>3, <3>4 DEF NextItem
  <2>11. ASSUME NEW t \in Threads, Deliver(t)
         PROVE  TypeInv'
    BY <2>11 DEF Deliver
  <2>12. ASSUME NEW t \in Threads, Respond(t)
         PROVE  TypeInv'
    <3>1. NoDevice \in Devices
      BY DEF NoDevice
    <3>2. QED
      BY <2>12, <3>1 DEF Respond
  <2>13. ASSUME NEW t \in Threads, ThreadWait(t)
         PROVE  TypeInv'
    <3>1. CASE Answered(t)
      BY <3>1 DEF Answered
    <3>2. CASE NotifyFails(t)
      BY <3>2 DEF NotifyFails
    <3>3. QED
      BY <2>13, <3>1, <3>2 DEF ThreadWait
  <2>14. ASSUME NEW s \in SIDs, InitEvent(s)
         PROVE  TypeInv'
    <3>1. CASE SendInitEvent(s)
      BY <3>1 DEF SendInitEvent
    <3>2. CASE InitDelivered(s)
      BY <3>2 DEF InitDelivered
    <3>3. CASE InitAnswered(s)
      BY <3>3 DEF InitAnswered
    <3>4. CASE InitFails(s)
      BY <3>4 DEF InitFails
    <3>5. QED
      BY <2>14, <3>1, <3>2, <3>3, <3>4 DEF InitEvent
  <2>15. CASE RefreshSubscription
    BY <2>15 DEF RefreshSubscription
  <2>16. CASE RefreshNext
    <3>1. Yields(rpos, rver) => Current(rpos) \in SIDs
      BY CurrentType
    <3>2. CASE Throws(rver)
      BY <2>16, <3>2, MoveNextCases DEF RefreshNext
    <3>3. CASE AtEnd(rpos, rver)
      <4>1. ~Throws(rver) /\ ~Yields(rpos, rver)
        BY <3>3, MoveNextCases
      <4>2. rpc' = "idle" /\ rpos' = 0 /\ rver' = 0 /\ rsid' = NoSID /\ rleft' = 0
        BY <2>16, <4>1 DEF RefreshNext
      <4>3. UNCHANGED <<store, threads, process>>
        BY <2>16, <4>1 DEF RefreshNext
      <4>4. QED
        BY <4>2, <4>3
    <3>4. CASE Yields(rpos, rver)
      <4>1. ~Throws(rver) /\ ~AtEnd(rpos, rver)
        BY <3>4, MoveNextCases
      <4>2. /\ rpc' = "write"
            /\ rpos' = rpos + 1
            /\ rsid' = Current(rpos)
            /\ rleft' = TimeLeftToExpire[Current(rpos)]
        BY <2>16, <4>1 DEF RefreshNext
      <4>3. UNCHANGED <<store, threads, process, rver>>
        BY <2>16, <4>1 DEF RefreshNext
      <4>4. QED
        BY <3>1, <3>4, <4>2, <4>3
    <3>5. QED
      BY <2>16, <3>2, <3>3, <3>4 DEF RefreshNext
  <2>17. CASE RefreshWrite
    <3>1. rleft - RefreshPeriod \in Int
      OBVIOUS
    <3>2. QED
      BY <2>17, <3>1 DEF RefreshWrite
  <2>18. CASE RefreshTest
    BY <2>18 DEF RefreshTest
  <2>19. CASE RefreshRemove
    BY <2>19, ListRemoveType DEF RefreshRemove
  <2>20. CASE CollectTimer
    BY <2>20 DEF CollectTimer
  <2>21. CASE UNCHANGED vars
    BY <2>21 DEF vars
  <2> HIDE DEF TypeInv
  <2>22. QED
    BY <2>1, <2>2, <2>3, <2>4, <2>5, <2>6, <2>7, <2>8, <2>9, <2>10, <2>11,
       <2>12, <2>13, <2>14, <2>15, <2>16, <2>17, <2>18, <2>19, <2>20, <2>21
       DEF Next, HttpRequest, HttpLookup, Fire, ThreadStep, RefreshStep
<1>2. QED
  BY InitTyping, <1>1, PTL DEF Spec

\* Every variable keeps its type, whatever the threads do.
THEOREM TypeCorrect == Spec => []TypeOK
BY Typing, PTL DEF TypeInv

-----------------------------------------------------------------------------
(* The list holds no SID twice, and only SIDs of accepted subscriptions.   *)

NoRepetition ==
  \A i, j \in 1 .. Len(m_Subscriptions) :
    m_Subscriptions[i] = m_Subscriptions[j] => i = j

ListInv == NoRepetition /\ \A s \in SIDs : Listed(s) => Created(s)

LEMMA ListRemoveEffect ==
  ASSUME NEW s, ListRemove(s), TypeOK, NoRepetition
  PROVE  NoRepetition' /\ \A f : Listed(f)' <=> Listed(f) /\ f # s
<1>1. CASE ~Listed(s) /\ UNCHANGED list
  BY <1>1 DEF list, Listed, NoRepetition
<1>2. ASSUME NEW i \in 1 .. Len(m_Subscriptions),
             m_Subscriptions[i] = s,
             m_Subscriptions' = RemoveAt(m_Subscriptions, i)
      PROVE  NoRepetition' /\ \A f : Listed(f)' <=> Listed(f) /\ f # s
  <2>1. m_Subscriptions \in Seq(SIDs)
    BY DEF TypeOK
  <2> DEFINE r == RemoveAt(m_Subscriptions, i)
  <2>2. /\ \A j, k \in 1 .. Len(r) : r[j] = r[k] => j = k
        /\ \A e : (\E j \in 1 .. Len(r) : r[j] = e)
                    <=> (e # m_Subscriptions[i] /\ Listed(e))
    BY <2>1, RemoveAtDistinct DEF NoRepetition, Listed
  <2>3. m_Subscriptions' = r
    BY <1>2
  <2> HIDE DEF r
  <2>4. QED
    BY <1>2, <2>2, <2>3 DEF NoRepetition, Listed
<1>3. QED
  BY <1>1, <1>2 DEF ListRemove

LEMMA ListAddEffect ==
  ASSUME NEW s \in SIDs, ListAdd(s), TypeOK, NoRepetition, ~Listed(s)
  PROVE  NoRepetition' /\ \A f : Listed(f)' <=> Listed(f) \/ f = s
<1>1. m_Subscriptions \in Seq(SIDs)
  BY DEF TypeOK
<1>2. QED
  BY <1>1, AppendDistinct DEF ListAdd, NoRepetition, Listed

\* What each step does to the list.
ListStep ==
  \/ UNCHANGED <<list, init>>
  \/ \E service \in Services, s \in SIDs : Subscribe(service, s)
  \/ \E s \in SIDs : InitEvent(s) /\ UNCHANGED list
  \/ RemoveFound
  \/ RefreshRemove

LEMMA ListSteps == [Next]_vars => ListStep
<1> SUFFICES ASSUME [Next]_vars PROVE ListStep
  OBVIOUS
<1> USE DEF ListStep, store, list
<1>1. CASE HttpRequest
  BY <1>1 DEF HttpRequest, BadRequest, Resubscribe, RemoveSubscription,
              BeginLookup
<1>2. CASE HttpLookup
  BY <1>2 DEF HttpLookup, LookupNext, RenewFound
<1>3. ASSUME NEW t \in Firers, Fire(t)
      PROVE  ListStep
  BY <1>3 DEF Fire, FireStateChanged
<1>4. ASSUME NEW t \in Threads, ThreadStep(t) \/ ThreadWait(t)
      PROVE  ListStep
  BY <1>4 DEF ThreadStep, ThreadWait, NextService, NextItem, Deliver, Respond,
              Answered, NotifyFails
<1>5. ASSUME NEW s \in SIDs, InitEvent(s)
      PROVE  ListStep
  BY <1>5 DEF InitEvent, SendInitEvent, InitDelivered, InitAnswered, InitFails
<1>6. CASE RefreshSubscription \/ RefreshStep \/ CollectTimer
  BY <1>6 DEF RefreshSubscription, RefreshStep, RefreshNext, RefreshWrite,
              RefreshTest, CollectTimer
<1>7. CASE UNCHANGED vars
  BY <1>7 DEF vars
<1>8. QED
  BY <1>1, <1>2, <1>3, <1>4, <1>5, <1>6, <1>7 DEF Next

\* An accepted subscription stays accepted.
LEMMA CreatedStays ==
  ASSUME TypeOK, ListStep, NEW s \in SIDs, Created(s)
  PROVE  Created(s)'
<1>1. ASSUME NEW r \in SIDs, InitEvent(r)
      PROVE  Created(s)'
  BY <1>1 DEF InitEvent, SendInitEvent, InitDelivered, InitAnswered,
              InitFails, Created, TypeOK, store
<1>2. QED
  BY <1>1 DEF ListStep, Subscribe, RemoveFound, RefreshRemove, Created,
              TypeOK, store, list

LEMMA ListInvariant == Spec => []ListInv
<1>1. Init => ListInv
  BY DEF Init, ListInv, NoRepetition, Listed
<1>2. TypeInv /\ ListInv /\ [Next]_vars => ListInv'
  <2> SUFFICES ASSUME TypeInv, ListInv, ListStep PROVE ListInv'
    BY ListSteps
  <2>1. CASE UNCHANGED list
    BY <2>1, CreatedStays DEF ListInv, NoRepetition, Listed, list, TypeInv
  <2>2. ASSUME NEW service \in Services, NEW s \in SIDs, Subscribe(service, s)
        PROVE  ListInv'
    <3>1. ListAdd(s) /\ ~Listed(s) /\ Created(s)'
      BY <2>2 DEF Subscribe, ListInv, Created, TypeInv, TypeOK
    <3>2. QED
      BY <3>1, ListAddEffect, CreatedStays DEF ListInv, TypeInv
  <2>3. ASSUME NEW s, ListRemove(s)
        PROVE  ListInv'
    BY <2>3, ListRemoveEffect, CreatedStays DEF ListInv, TypeInv
  <2>4. QED
    BY <2>1, <2>2, <2>3 DEF ListStep, RemoveFound, RefreshRemove, list
<1>3. QED
  BY <1>1, <1>2, Typing, PTL DEF Spec

-----------------------------------------------------------------------------
(* No expired subscription survives its pass.  While the pass is at an     *)
(* item, that item alone may have no time left.                            *)

ExpiryInv ==
  /\ ExpiredAreRemoved
  /\ rpc \in {"write", "test", "remove"} =>
       \A s \in SIDs : Listed(s) /\ s # rsid => TimeLeftToExpire[s] > 0

\* The steps that the refresh pass and the subscriptions' time do not see.
LEMMA ExpiryFrame ==
  ASSUME UNCHANGED <<m_Subscriptions, TimeLeftToExpire, rpc, rsid>>, ExpiryInv
  PROVE  ExpiryInv'
BY DEF ExpiryInv, ExpiredAreRemoved, Listed

LEMMA ExpiryStep ==
  ASSUME TypeInv, ListInv, ExpiryInv, [Next]_vars
  PROVE  ExpiryInv'
<1> USE DEF store, list, items, refresh, process
<1>1. ASSUME NEW service \in Services, NEW s \in SIDs, Subscribe(service, s)
      PROVE  ExpiryInv'
  <2>1. \A f : Listed(f)' <=> Listed(f) \/ f = s
    BY <1>1, ListAddEffect DEF Subscribe, ListInv, Created, TypeInv
  <2>2. /\ TimeLeftToExpire' =
             [TimeLeftToExpire EXCEPT ![s] = DefaultExpiration]
        /\ UNCHANGED <<rpc, rsid>>
    BY <1>1 DEF Subscribe
  <2>3. QED
    BY <2>1, <2>2, ConstantsAssumption
       DEF ExpiryInv, ExpiredAreRemoved, TypeInv, TypeOK
<1>2. CASE RenewFound
  <2>1. /\ TimeLeftToExpire' =
             [TimeLeftToExpire EXCEPT ![sid[Http]] = DefaultExpiration]
        /\ UNCHANGED <<m_Subscriptions, rpc, rsid>>
    BY <1>2 DEF RenewFound
  <2>2. \A f : Listed(f)' <=> Listed(f)
    BY <2>1 DEF Listed
  <2>3. QED
    BY <2>1, <2>2, ConstantsAssumption
       DEF ExpiryInv, ExpiredAreRemoved, TypeInv, TypeOK
<1>3. CASE RemoveFound
  <2>1. \A f : Listed(f)' => Listed(f)
    BY <1>3, ListRemoveEffect DEF RemoveFound, ListInv, TypeInv
  <2>2. UNCHANGED <<TimeLeftToExpire, rpc, rsid>>
    BY <1>3 DEF RemoveFound
  <2>3. QED
    BY <2>1, <2>2 DEF ExpiryInv, ExpiredAreRemoved
<1>4. CASE RefreshSubscription
  BY <1>4 DEF RefreshSubscription, ExpiryInv, ExpiredAreRemoved, Listed
<1>5. CASE RefreshNext
  <2>1. UNCHANGED <<m_Subscriptions, TimeLeftToExpire>> /\ rpc = "next"
    BY <1>5 DEF RefreshNext
  <2>2. \/ UNCHANGED <<rpc, rsid>>
        \/ rpc' = "idle"
        \/ rpc' = "write"
    BY <1>5 DEF RefreshNext
  <2>3. QED
    BY <2>1, <2>2 DEF ExpiryInv, ExpiredAreRemoved, Listed
<1>6. CASE RefreshWrite
  <2>1. /\ TimeLeftToExpire' =
             [TimeLeftToExpire EXCEPT ![rsid] = rleft - RefreshPeriod]
        /\ UNCHANGED <<m_Subscriptions, rsid>>
        /\ rpc = "write" /\ rpc' = "test"
    BY <1>6 DEF RefreshWrite
  <2>2. \A f : Listed(f)' <=> Listed(f)
    BY <2>1 DEF Listed
  <2>3. QED
    BY <2>1, <2>2 DEF ExpiryInv, ExpiredAreRemoved, TypeInv, TypeOK
<1>7. CASE RefreshTest
  <2>1. /\ UNCHANGED <<m_Subscriptions, TimeLeftToExpire, rsid>>
        /\ rpc = "test"
        /\ rpc' = IF TimeLeftToExpire[rsid] <= 0 THEN "remove" ELSE "next"
    BY <1>7 DEF RefreshTest
  <2>2. rsid \in SIDs => TimeLeftToExpire[rsid] \in Int
    BY DEF TypeInv, TypeOK
  <2>3. QED
    BY <2>1, <2>2 DEF ExpiryInv, ExpiredAreRemoved, Listed
<1>8. CASE RefreshRemove
  <2>1. \A f : Listed(f)' <=> Listed(f) /\ f # rsid
    BY <1>8, ListRemoveEffect DEF RefreshRemove, ListInv, TypeInv
  <2>2. /\ UNCHANGED <<TimeLeftToExpire, rsid>>
        /\ rpc = "remove" /\ rpc' = "next"
    BY <1>8 DEF RefreshRemove
  <2>3. QED
    BY <2>1, <2>2 DEF ExpiryInv, ExpiredAreRemoved
<1>9. CASE UNCHANGED <<m_Subscriptions, TimeLeftToExpire, rpc, rsid>>
  BY <1>9, ExpiryFrame
<1>10. ASSUME NEW t \in Threads, ThreadStep(t) \/ ThreadWait(t)
       PROVE  UNCHANGED <<m_Subscriptions, TimeLeftToExpire, rpc, rsid>>
  BY <1>10 DEF ThreadStep, ThreadWait, NextService, NextItem, Deliver,
               Respond, Answered, NotifyFails
<1>11. ASSUME NEW s \in SIDs, InitEvent(s)
       PROVE  UNCHANGED <<m_Subscriptions, TimeLeftToExpire, rpc, rsid>>
  BY <1>11 DEF InitEvent, SendInitEvent, InitDelivered, InitAnswered, InitFails
<1>12. ASSUME NEW t \in Firers, Fire(t)
       PROVE  UNCHANGED <<m_Subscriptions, TimeLeftToExpire, rpc, rsid>>
  BY <1>12 DEF Fire, FireStateChanged
<1>13. CASE CollectTimer \/ LookupNext \/ UNCHANGED vars
  BY <1>13, <1>9 DEF CollectTimer, LookupNext, vars
<1>14. CASE HttpRequest
  BY <1>14, <1>1, <1>9 DEF HttpRequest, BadRequest, Resubscribe,
                           RemoveSubscription, BeginLookup
<1>15. QED
  BY <1>2, <1>3, <1>4, <1>5, <1>6, <1>7, <1>8, <1>9, <1>10, <1>11, <1>12,
     <1>13, <1>14 DEF Next, HttpLookup, RefreshStep

\* Between two items of a refresh pass every listed subscription has time
\* left, whatever renewals race with the pass.
THEOREM ExpiryCorrect == Spec => []ExpiredAreRemoved
<1>1. Init => ExpiryInv
  BY DEF Init, ExpiryInv, ExpiredAreRemoved, Listed
<1>2. TypeInv /\ ListInv /\ ExpiryInv /\ [Next]_vars => ExpiryInv'
  BY ExpiryStep
<1>3. ExpiryInv => ExpiredAreRemoved
  BY DEF ExpiryInv
<1>4. QED
  BY <1>1, <1>2, <1>3, Typing, ListInvariant, PTL DEF Spec

-----------------------------------------------------------------------------
(* A cancelled subscription is a created one, and stays out of the list.   *)

EndedInv ==
  /\ UnsubscribeIsFinal
  /\ \A s \in ended : Created(s)
  /\ pc[Http] = "found" => Created(sid[Http])

\* What left the list does not return: only Subscribe adds, and a fresh SID.
LEMMA GoneStaysGone ==
  ASSUME TypeInv, ListInv, ListStep, NEW s \in SIDs, Created(s), ~Listed(s)
  PROVE  ~Listed(s)'
<1>1. CASE UNCHANGED list
  BY <1>1 DEF list, Listed
<1>2. ASSUME NEW service \in Services, NEW r \in SIDs, Subscribe(service, r)
      PROVE  ~Listed(s)'
  <2>1. r # s /\ ListAdd(r) /\ ~Listed(r)
    BY <1>2 DEF Subscribe, ListInv
  <2>2. QED
    BY <2>1, ListAddEffect DEF ListInv, TypeInv
<1>3. ASSUME NEW r, ListRemove(r)
      PROVE  ~Listed(s)'
  BY <1>3, ListRemoveEffect DEF ListInv, TypeInv
<1>4. QED
  BY <1>1, <1>2, <1>3 DEF ListStep, RemoveFound, RefreshRemove, list

\* A thread at "found" got there with the SID of a listed item.
LEMMA FoundStep ==
  ASSUME TypeInv, [Next]_vars, pc'[Http] = "found"
  PROVE  LookupNext \/ (pc[Http] = "found" /\ sid'[Http] = sid[Http])
<1> USE DEF TypeInv, TypeOK, Threads, calls, enum, threads, Goto, Return, Begin
<1>1. CASE HttpRequest
  BY <1>1 DEF HttpRequest, BadRequest, Subscribe, Resubscribe,
              RemoveSubscription, BeginLookup
<1>2. CASE RenewFound \/ RemoveFound
  BY <1>2 DEF RenewFound, RemoveFound
<1>3. ASSUME NEW t \in Firers, Fire(t)
      PROVE  pc[Http] = "found" /\ sid'[Http] = sid[Http]
  BY <1>3 DEF Fire, FireStateChanged
<1>4. ASSUME NEW t \in Threads, ThreadStep(t) \/ ThreadWait(t)
      PROVE  pc[Http] = "found" /\ sid'[Http] = sid[Http]
  BY <1>4 DEF ThreadStep, ThreadWait, NextService, NextItem, Deliver, Respond,
              Answered, NotifyFails
<1>5. ASSUME NEW s \in SIDs, InitEvent(s)
      PROVE  pc[Http] = "found" /\ sid'[Http] = sid[Http]
  BY <1>5 DEF InitEvent, SendInitEvent, InitDelivered, InitAnswered, InitFails
<1>6. CASE RefreshSubscription \/ RefreshStep \/ CollectTimer
  BY <1>6 DEF RefreshSubscription, RefreshStep, RefreshNext, RefreshWrite,
              RefreshTest, RefreshRemove, CollectTimer
<1>7. CASE UNCHANGED vars
  BY <1>7 DEF vars
<1>8. QED
  BY <1>1, <1>2, <1>3, <1>4, <1>5, <1>6, <1>7 DEF Next, HttpLookup

\* Only an accepted UNSUBSCRIBE adds to ended.
LEMMA EndedChanges ==
  ASSUME [Next]_vars
  PROVE  RemoveFound \/ UNCHANGED ended
<1> USE DEF hist, threads
<1>1. CASE HttpRequest \/ LookupNext \/ RenewFound
  BY <1>1 DEF HttpRequest, BadRequest, Subscribe, Resubscribe,
              RemoveSubscription, BeginLookup, LookupNext, RenewFound
<1>2. ASSUME NEW t \in Firers, Fire(t)
      PROVE  UNCHANGED ended
  BY <1>2 DEF Fire, FireStateChanged
<1>3. ASSUME NEW t \in Threads, ThreadStep(t) \/ ThreadWait(t)
      PROVE  UNCHANGED ended
  BY <1>3 DEF ThreadStep, ThreadWait, NextService, NextItem, Deliver, Respond,
              Answered, NotifyFails
<1>4. ASSUME NEW s \in SIDs, InitEvent(s)
      PROVE  UNCHANGED ended
  BY <1>4 DEF InitEvent, SendInitEvent, InitDelivered, InitAnswered, InitFails
<1>5. CASE RefreshSubscription \/ RefreshStep \/ CollectTimer
  BY <1>5 DEF RefreshSubscription, RefreshStep, RefreshNext, RefreshWrite,
              RefreshTest, RefreshRemove, CollectTimer
<1>6. CASE UNCHANGED vars
  BY <1>6 DEF vars
<1>7. QED
  BY <1>1, <1>2, <1>3, <1>4, <1>5, <1>6 DEF Next, HttpLookup

LEMMA EndedStep ==
  ASSUME TypeInv, ListInv, EndedInv, [Next]_vars
  PROVE  EndedInv'
<1>1. ListStep
  BY ListSteps
<1>2. ended \subseteq SIDs
  BY DEF TypeInv, TypeOK
<1>3. \A s \in SIDs : Created(s) => Created(s)'
  BY <1>1, CreatedStays DEF TypeInv
<1>4. \A s \in SIDs : Created(s) /\ ~Listed(s) => ~Listed(s)'
  BY <1>1, GoneStaysGone
<1>5. (pc[Http] = "found" => Created(sid[Http]))'
  <2>1. CASE LookupNext /\ pc'[Http] = "found"
    <3>1. /\ Yields(pos[Http], ver[Http])
          /\ Current(pos[Http]) = sid[Http]
          /\ UNCHANGED <<sid, init>>
      BY <2>1 DEF LookupNext, Return, Goto, TypeInv, TypeOK, Threads, store
    <3>2. Listed(sid[Http]) /\ sid[Http] \in SIDs
      BY <3>1 DEF Yields, Current, Listed, TypeInv, TypeOK, Threads
    <3>3. QED
      BY <3>1, <3>2 DEF ListInv, Created
  <2>2. CASE pc[Http] = "found" /\ sid'[Http] = sid[Http]
    BY <2>2, <1>3 DEF EndedInv, TypeInv, SidOK, Threads, Created
  <2>3. QED
    BY <2>1, <2>2, FoundStep
<1>6. CASE RemoveFound
  <2>1. /\ pc[Http] = "found" /\ sid[Http] \in SIDs
        /\ ListRemove(sid[Http])
        /\ ended' = ended \cup {sid[Http]}
    BY <1>6 DEF RemoveFound, TypeInv, SidOK, Threads
  <2>2. Created(sid[Http])
    BY <2>1 DEF EndedInv
  <2>3. \A s : s = sid[Http] => ~Listed(s)'
    BY <2>1, ListRemoveEffect DEF ListInv, TypeInv
  <2>4. QED
    BY <1>2, <1>3, <1>4, <1>5, <2>1, <2>2, <2>3 DEF EndedInv, UnsubscribeIsFinal
<1>7. CASE UNCHANGED ended
  BY <1>2, <1>3, <1>4, <1>5, <1>7 DEF EndedInv, UnsubscribeIsFinal
<1>8. QED
  BY <1>6, <1>7, EndedChanges

\* A subscription whose UNSUBSCRIBE was accepted is never listed again.
THEOREM UnsubscribeCorrect == Spec => []UnsubscribeIsFinal
<1>1. Init => EndedInv
  BY DEF Init, EndedInv, UnsubscribeIsFinal, Threads
<1>2. TypeInv /\ ListInv /\ EndedInv /\ [Next]_vars => EndedInv'
  BY EndedStep
<1>3. EndedInv => UnsubscribeIsFinal
  BY DEF EndedInv
<1>4. QED
  BY <1>1, <1>2, <1>3, Typing, ListInvariant, PTL DEF Spec

-----------------------------------------------------------------------------
(* EventHandler walks its list correctly whatever other threads do to it.  *)
(*                                                                         *)
(* The argument is about one thread at a time.  A step of another thread   *)
(* leaves this one's locals alone and can do only three things to the      *)
(* shared list (Around): keep it, add a fresh SID, or remove SIDs; and any *)
(* change of the list makes this thread's enumerator stale for good.       *)

\* The k-th service of the device whose change t reports.
ServiceAt(t, k) == ServicesOf[dev[t]][k]

Firing(t) == pc[t] \in {"services", "items", "notify", "await"}

\* The number of services whose inner loop t has completed.
Walked(t) == IF pc[t] = "services" THEN svc[t] ELSE svc[t] - 1

\* Which calls can be where.
Shape(t) ==
  /\ pc[t] = "idle" <=> op[t] = "none"
  /\ pc[t] \in {"lookup", "found"} => op[t] \in {"renew", "unsubscribe"}
  /\ pc[t] \in {"services", "items"} => op[t] \in {"fire", "fireEmpty"}
  /\ pc[t] \in {"notify", "await"} => op[t] = "fire"
  /\ pc[t] = "return" => outcome[t] \in {"ok", "fault"}
  /\ op[t] # "fire" => told[t] = {}
  /\ pc[t] = "idle" => svc[t] = 0

\* What t remembers of the past is still so.
Memory(t) ==
  /\ \A s \in atStart[t] \cup told[t] : Created(s)
  /\ \A s \in gone[t] : Created(s) /\ ~Listed(s)
  /\ ver[t] <= version

\* GetSubscription and RemoveSubscription have passed no item with the SID.
Search(t) ==
  /\ pc[t] = "lookup" /\ ver[t] = version =>
       /\ pos[t] <= Len(m_Subscriptions)
       /\ \A i \in 1 .. pos[t] : m_Subscriptions[i] # sid[t]
  /\ (pc[t] = "return" /\ op[t] \in {"renew", "unsubscribe"}
        /\ outcome[t] = "fault") => ~Listed(sid[t]) \/ Throws(ver[t])

\* The outer loop: the services that t is done with, and whom it told.
OuterLoop(t) ==
  Firing(t) /\ op[t] = "fire" =>
    /\ svc[t] <= Len(ServicesOf[dev[t]])
    /\ pc[t] # "services" => svc[t] >= 1
    /\ \A s \in atStart[t] : \A k \in 1 .. Walked(t) :
         Listed(s) /\ ServiceID[s] = ServiceAt(t, k) => s \in told[t]
    /\ \A s \in told[t] : \E k \in 1 .. svc[t] : ServiceID[s] = ServiceAt(t, k)

\* The inner loop: the items before pos[t] were told, and no other was.
InnerLoop(t) ==
  (Firing(t) /\ op[t] = "fire" /\ pc[t] # "services" /\ ver[t] = version) =>
    /\ pos[t] <= Len(m_Subscriptions)
    /\ \A i \in 1 .. pos[t] :
         ServiceID[m_Subscriptions[i]] = ServiceAt(t, svc[t]) =>
           \/ m_Subscriptions[i] \in told[t]
           \/ pc[t] = "notify" /\ m_Subscriptions[i] = sid[t]
    /\ \A s \in told[t] :
         ServiceID[s] = ServiceAt(t, svc[t]) =>
           \E i \in 1 .. pos[t] : m_Subscriptions[i] = s

\* The item that t is about to notify.
Notifying(t) ==
  pc[t] = "notify" =>
    /\ Created(sid[t])
    /\ sid[t] \notin told[t] \cup gone[t]
    /\ ServiceID[sid[t]] = ServiceAt(t, svc[t])
    /\ ver[t] = version => \E i \in 1 .. pos[t] : m_Subscriptions[i] = sid[t]

Complete(t) ==
  (pc[t] = "return" /\ op[t] = "fire" /\ outcome[t] = "ok") =>
    \A s \in atStart[t] : Listed(s) /\ Subscribes(s, dev[t]) => s \in told[t]

ThreadInv(t) ==
  /\ Shape(t)
  /\ Memory(t)
  /\ Search(t)
  /\ OuterLoop(t)
  /\ InnerLoop(t)
  /\ Notifying(t)
  /\ Complete(t)

-----------------------------------------------------------------------------
\* What any step does to the list and the items, as seen by a thread.
Around ==
  /\ \A s \in SIDs : Created(s) => Created(s)' /\ ServiceID'[s] = ServiceID[s]
  /\ \A s \in SIDs : Created(s) /\ Listed(s)' => Listed(s)
  /\ \/ UNCHANGED list
     \/ version' = version + 1

Same(t) ==
  /\ pc'[t] = pc[t] /\ op'[t] = op[t] /\ outcome'[t] = outcome[t]
  /\ sid'[t] = sid[t] /\ dev'[t] = dev[t] /\ svc'[t] = svc[t]
  /\ pos'[t] = pos[t] /\ ver'[t] = ver[t]
  /\ told'[t] = told[t] /\ atStart'[t] = atStart[t] /\ gone'[t] = gone[t]

Own(t) ==
  \/ t = Http /\ (HttpRequest \/ HttpLookup)
  \/ Fire(t) \/ ThreadStep(t) \/ ThreadWait(t)

\* Only Subscribe gives an item its ServiceID.
LEMMA ServiceChanges ==
  ASSUME [Next]_vars
  PROVE  \/ UNCHANGED ServiceID
         \/ \E service \in Services, s \in SIDs : Subscribe(service, s)
<1> USE DEF store, items
<1>1. CASE HttpRequest \/ HttpLookup
  BY <1>1 DEF HttpRequest, BadRequest, Resubscribe, RemoveSubscription,
              BeginLookup, HttpLookup, LookupNext, RenewFound, RemoveFound
<1>2. ASSUME NEW t \in Firers, Fire(t)
      PROVE  UNCHANGED ServiceID
  BY <1>2 DEF Fire, FireStateChanged
<1>3. ASSUME NEW t \in Threads, ThreadStep(t) \/ ThreadWait(t)
      PROVE  UNCHANGED ServiceID
  BY <1>3 DEF ThreadStep, ThreadWait, NextService, NextItem, Deliver, Respond,
              Answered, NotifyFails
<1>4. ASSUME NEW s \in SIDs, InitEvent(s)
      PROVE  UNCHANGED ServiceID
  BY <1>4 DEF InitEvent, SendInitEvent, InitDelivered, InitAnswered, InitFails
<1>5. CASE RefreshSubscription \/ RefreshStep \/ CollectTimer
  BY <1>5 DEF RefreshSubscription, RefreshStep, RefreshNext, RefreshWrite,
              RefreshTest, RefreshRemove, CollectTimer
<1>6. CASE UNCHANGED vars
  BY <1>6 DEF vars
<1>7. QED
  BY <1>1, <1>2, <1>3, <1>4, <1>5, <1>6 DEF Next

LEMMA StepAround ==
  ASSUME TypeInv, ListInv, [Next]_vars
  PROVE  Around
<1>1. ListStep
  BY ListSteps
<1>2. \A s \in SIDs : Created(s) => Created(s)'
  BY <1>1, CreatedStays DEF TypeInv
<1>3. \A s \in SIDs : Created(s) => ServiceID'[s] = ServiceID[s]
  BY ServiceChanges DEF Subscribe, TypeInv, TypeOK
<1>4. \A s \in SIDs : Created(s) /\ Listed(s)' => Listed(s)
  BY <1>1, GoneStaysGone
<1>5. UNCHANGED list \/ version' = version + 1
  BY <1>1 DEF ListStep, Subscribe, ListAdd, RemoveFound, RefreshRemove,
              ListRemove, list
<1>6. QED
  BY <1>2, <1>3, <1>4, <1>5 DEF Around

\* A thread's locals are changed by its own steps only.
LEMMA LocalSteps ==
  ASSUME TypeInv, [Next]_vars, NEW t \in Threads
  PROVE  Same(t) \/ Own(t)
<1> USE DEF TypeInv, TypeOK, Threads, Same, Own, calls, enum, hist, threads,
            Begin, Goto, Return, Enumerate
<1>1. CASE HttpRequest
  BY <1>1 DEF HttpRequest, BadRequest, Subscribe, Resubscribe,
              RemoveSubscription, BeginLookup
<1>2. CASE HttpLookup
  BY <1>2 DEF HttpLookup, LookupNext, RenewFound, RemoveFound
<1>3. ASSUME NEW u \in Firers, Fire(u), u # t
      PROVE  Same(t)
  BY <1>3 DEF Fire, FireStateChanged
<1>4. ASSUME NEW u \in Threads, ThreadStep(u) \/ ThreadWait(u)
      PROVE  Same(t) \/ Own(t)
  BY <1>4 DEF ThreadStep, ThreadWait, NextService, NextItem, Deliver, Respond,
              Answered, NotifyFails
<1>5. ASSUME NEW s \in SIDs, InitEvent(s)
      PROVE  Same(t)
  BY <1>5 DEF InitEvent, SendInitEvent, InitDelivered, InitAnswered, InitFails
<1>6. CASE RefreshSubscription \/ RefreshStep \/ CollectTimer
  BY <1>6 DEF RefreshSubscription, RefreshStep, RefreshNext, RefreshWrite,
              RefreshTest, RefreshRemove, CollectTimer
<1>7. CASE UNCHANGED vars
  BY <1>7 DEF vars
<1>8. QED
  BY <1>1, <1>2, <1>3, <1>4, <1>5, <1>6, <1>7 DEF Next

-----------------------------------------------------------------------------
\* The steps of the other threads.
LEMMA FrameStep ==
  ASSUME TypeInv, ListInv, NEW t \in Threads, ThreadInv(t), Around, Same(t)
  PROVE  ThreadInv(t)'
<1> USE DEF Same
<1>1. /\ atStart[t] \subseteq SIDs /\ told[t] \subseteq SIDs
      /\ gone[t] \subseteq SIDs
      /\ ver[t] \in Nat /\ version \in Nat
  BY DEF TypeInv, TypeOK
<1>2. \A s \in SIDs : Created(s) => Created(s)' /\ ServiceID'[s] = ServiceID[s]
  BY DEF Around
<1>3. \A s \in SIDs : Created(s) /\ Listed(s)' => Listed(s)
  BY DEF Around
<1>4. ver[t] = version' => UNCHANGED list /\ ver[t] = version
  BY <1>1 DEF Around, ThreadInv, Memory, list
<1>5. Memory(t)
  BY DEF ThreadInv
<1>6. \A i \in 1 .. Len(m_Subscriptions) :
        m_Subscriptions[i] \in SIDs /\ Created(m_Subscriptions[i])
  BY DEF TypeInv, TypeOK, ListInv, Listed
<1>7. ServiceAt(t, svc[t])' = ServiceAt(t, svc[t])
  BY DEF ServiceAt
<1>8. Shape(t)'
  BY DEF ThreadInv, Shape
<1>9. Memory(t)'
  <2>1. \A s \in atStart[t] \cup told[t] : Created(s)'
    BY <1>1, <1>2, <1>5 DEF Memory
  <2>2. \A s \in gone[t] : Created(s)' /\ ~Listed(s)'
    BY <1>1, <1>2, <1>3, <1>5 DEF Memory
  <2>3. ver[t] <= version'
    BY <1>1, <1>5 DEF Memory, Around, list
  <2>4. QED
    BY <2>1, <2>2, <2>3 DEF Memory
<1>10. Search(t)'
  BY DEF ThreadInv, Search, Memory, Around, TypeInv, TypeOK, list, Listed,
         Throws
<1>11. OuterLoop(t)'
  <2>1. OuterLoop(t)
    BY DEF ThreadInv
  <2>2. \A s \in atStart[t] \cup told[t] :
          s \in SIDs /\ ServiceID'[s] = ServiceID[s]
    BY <1>1, <1>2, <1>5 DEF Memory
  <2>3. \A s \in atStart[t] : Listed(s)' => Listed(s)
    BY <1>1, <1>3, <1>5 DEF Memory
  <2>4. QED
    BY <2>1, <2>2, <2>3 DEF OuterLoop, Firing, Walked, ServiceAt
<1>12. InnerLoop(t)'
  <2> SUFFICES ASSUME (Firing(t) /\ op[t] = "fire" /\ pc[t] # "services"
                         /\ ver[t] = version)'
               PROVE  InnerLoop(t)'
    BY DEF InnerLoop
  <2>1. UNCHANGED m_Subscriptions
    BY <1>4 DEF list
  <2>2. InnerLoop(t) /\ Firing(t) /\ op[t] = "fire" /\ pc[t] # "services"
        /\ ver[t] = version
    BY <1>4 DEF ThreadInv, Firing
  <2>3. pos[t] <= Len(m_Subscriptions) /\ pos[t] \in Nat
    BY <2>2 DEF InnerLoop, TypeInv, TypeOK
  <2>4. \A i \in 1 .. pos[t] :
          ServiceID'[m_Subscriptions[i]] = ServiceID[m_Subscriptions[i]]
    BY <1>2, <1>6, <2>3
  <2>5. \A s \in told[t] : ServiceID'[s] = ServiceID[s]
    BY <1>1, <1>2, <1>5 DEF Memory
  <2>6. QED
    BY <1>7, <2>1, <2>2, <2>4, <2>5 DEF InnerLoop
<1>13. Notifying(t)'
  <2> SUFFICES ASSUME pc[t] = "notify"
               PROVE  Notifying(t)'
    BY DEF Notifying
  <2>1. Notifying(t) /\ sid[t] \in SIDs
    BY DEF ThreadInv, TypeInv, SidOK
  <2>2. Created(sid[t])' /\ ServiceID'[sid[t]] = ServiceID[sid[t]]
    BY <1>2, <2>1 DEF Notifying, Created
  <2>3. QED
    BY <1>4, <1>7, <2>1, <2>2 DEF Notifying, list
<1>14. Complete(t)'
  BY DEF ThreadInv, Complete, Memory, Around, TypeInv, TypeOK, Subscribes
<1>15. QED
  BY <1>8, <1>9, <1>10, <1>11, <1>12, <1>13, <1>14 DEF ThreadInv

-----------------------------------------------------------------------------
(* The thread's own steps.                                                 *)

\* A step that leaves what t remembers alone.
LEMMA MemoryStays ==
  ASSUME TypeInv, NEW t \in Threads, Memory(t), Around,
         atStart'[t] = atStart[t], told'[t] = told[t], gone'[t] = gone[t],
         ver'[t] = ver[t] \/ ver'[t] = version
  PROVE  Memory(t)'
<1>1. /\ atStart[t] \subseteq SIDs /\ told[t] \subseteq SIDs
      /\ gone[t] \subseteq SIDs
      /\ ver[t] \in Nat /\ version \in Nat
  BY DEF TypeInv, TypeOK
<1>2. \A s \in atStart[t] \cup told[t] : Created(s)'
  BY <1>1 DEF Memory, Around
<1>3. \A s \in gone[t] : Created(s)' /\ ~Listed(s)'
  BY <1>1 DEF Memory, Around
<1>4. ver'[t] <= version'
  BY <1>1 DEF Memory, Around, list
<1>5. QED
  BY <1>2, <1>3, <1>4 DEF Memory

LEMMA HttpStep ==
  ASSUME TypeInv, ListInv, ThreadInv(Http), Around, HttpRequest \/ HttpLookup
  PROVE  ThreadInv(Http)'
<1> USE DEF TypeInv, TypeOK, Threads, calls, enum, hist, store, list, Begin,
            Goto, Return, Enumerate
<1>1. /\ Shape(Http) /\ Memory(Http) /\ Search(Http)
      /\ Http \in Threads
  BY DEF ThreadInv
<1>2. /\ atStart'[Http] = atStart[Http] /\ told'[Http] = told[Http]
      /\ gone'[Http] = gone[Http]
      /\ ver'[Http] = ver[Http] \/ ver'[Http] = version
  BY DEF HttpRequest, HttpLookup, BadRequest, Subscribe, Resubscribe,
         RemoveSubscription, BeginLookup, LookupNext, RenewFound, RemoveFound
<1>3. Memory(Http)'
  BY <1>1, <1>2, MemoryStays
<1>4. CASE HttpRequest
  <2>1. pc[Http] = "idle" /\ told'[Http] = {}
    BY <1>1, <1>2, <1>4 DEF Shape, HttpRequest, BadRequest, Subscribe,
       Resubscribe, RemoveSubscription, BeginLookup
  <2>2. \/ /\ pc'[Http] = "return" /\ outcome'[Http] \in {"ok", "fault"}
           /\ op'[Http] \in {"bad", "subscribe"}
        \/ /\ pc'[Http] = "lookup" /\ op'[Http] \in {"renew", "unsubscribe"}
           /\ pos'[Http] = 0
    BY <1>4 DEF HttpRequest, BadRequest, Subscribe, Resubscribe,
       RemoveSubscription, BeginLookup
  <2>3. Shape(Http)'
    BY <2>1, <2>2 DEF Shape
  <2>4. Search(Http)'
    BY <2>2 DEF Search
  <2>5. QED
    BY <1>3, <2>2, <2>3, <2>4
       DEF ThreadInv, OuterLoop, InnerLoop, Notifying, Complete, Firing
<1>5. CASE HttpLookup
  <2>1. /\ pc[Http] \in {"lookup", "found"}
        /\ op[Http] \in {"renew", "unsubscribe"}
        /\ UNCHANGED <<op, sid>>
    BY <1>1, <1>5 DEF Shape, HttpLookup, LookupNext, RenewFound, RemoveFound
  <2>2. pc'[Http] \in {"lookup", "found", "return"}
    BY <1>5 DEF HttpLookup, LookupNext, RenewFound, RemoveFound
  <2>3. Shape(Http)'
    <3>1. pc'[Http] = "return" => outcome'[Http] \in {"ok", "fault"}
      BY <1>5 DEF HttpLookup, LookupNext, RenewFound, RemoveFound
    <3>2. QED
      BY <1>1, <1>2, <2>1, <2>2, <3>1 DEF Shape
  <2>4. Search(Http)'
    <3>1. CASE LookupNext /\ (Throws(ver[Http]) \/ AtEnd(pos[Http], ver[Http]))
      <4>1. UNCHANGED <<list, ver, pos>> /\ pc'[Http] = "return"
        BY <3>1, MoveNextCases DEF LookupNext
      <4>2. AtEnd(pos[Http], ver[Http]) => ~Listed(sid[Http])
        BY <1>1, <3>1 DEF Search, AtEnd, Listed, LookupNext
      <4>3. QED
        BY <2>1, <3>1, <4>1, <4>2 DEF Search, Listed, Throws
    <3>2. CASE LookupNext /\ Yields(pos[Http], ver[Http])
      <4>1. UNCHANGED <<list, ver>> /\ pc[Http] = "lookup"
        BY <3>2, MoveNextCases DEF LookupNext
      <4>2. \/ pc'[Http] = "found"
            \/ /\ Current(pos[Http]) # sid[Http]
               /\ pc'[Http] = "lookup" /\ pos'[Http] = pos[Http] + 1
        BY <3>2, MoveNextCases DEF LookupNext
      <4>3. QED
        BY <1>1, <2>1, <3>2, <4>1, <4>2 DEF Search, Yields, Current
    <3>3. CASE RenewFound \/ RemoveFound
      BY <3>3 DEF RenewFound, RemoveFound, Search
    <3>4. QED
      BY <1>5, <3>1, <3>2, <3>3 DEF HttpLookup, LookupNext
  <2>5. QED
    BY <1>3, <2>1, <2>2, <2>3, <2>4
       DEF ThreadInv, OuterLoop, InnerLoop, Notifying, Complete, Firing
<1>6. QED
  BY <1>4, <1>5

\* A step of t that touches neither the list nor the items.
LEMMA StoreStays ==
  ASSUME UNCHANGED store
  PROVE  /\ UNCHANGED <<m_Subscriptions, version, ServiceID>>
         /\ \A s : Listed(s)' <=> Listed(s)
         /\ \A s : Created(s)' <=> Created(s)
         /\ \A v : Throws(v)' <=> Throws(v)
BY DEF store, list, items, Listed, Created, Throws

LEMMA FireStep ==
  ASSUME TypeInv, ListInv, NEW t \in Threads, ThreadInv(t), Around, Fire(t)
  PROVE  ThreadInv(t)'
<1> USE DEF TypeInv, TypeOK
<1>1. Shape(t) /\ Memory(t)
  BY DEF ThreadInv
<1>2. UNCHANGED <<store, ver, svc, told, outcome>> /\ pc[t] = "idle"
  BY DEF Fire, FireStateChanged, Begin, enum
<1>3. /\ pc'[t] = "services" /\ op'[t] \in {"fire", "fireEmpty"}
      /\ atStart'[t] = Active /\ gone'[t] = Retired
  BY DEF Fire, FireStateChanged, Begin, Goto
<1>4. told[t] = {} /\ svc[t] = 0
  BY <1>1, <1>2 DEF Shape
<1>5. Shape(t)'
  BY <1>2, <1>3, <1>4 DEF Shape
<1>6. Memory(t)'
  BY <1>1, <1>2, <1>3, <1>4, StoreStays
     DEF Memory, Active, Retired, ListInv
<1>7. OuterLoop(t)'
  <2>1. dev' \in [Threads -> Devices]
    BY DEF Fire, FireStateChanged
  <2>2. Len(ServicesOf[dev'[t]]) \in Nat
    BY <2>1, ConstantsAssumption
  <2>3. QED
    BY <1>2, <1>3, <1>4, <2>2 DEF OuterLoop, Firing, Walked
<1>8. QED
  BY <1>3, <1>5, <1>6, <1>7
     DEF ThreadInv, Search, InnerLoop, Notifying, Complete

LEMMA RespondStep ==
  ASSUME TypeInv, NEW t \in Threads, ThreadInv(t), Respond(t)
  PROVE  ThreadInv(t)'
<1>1. /\ pc'[t] = "idle" /\ op'[t] = "none" /\ svc'[t] = 0 /\ ver'[t] = 0
      /\ told'[t] = {} /\ atStart'[t] = {} /\ gone'[t] = {}
      /\ UNCHANGED store
  BY DEF Respond, Goto, TypeInv, TypeOK, store
<1>2. version' \in Nat
  BY <1>1, StoreStays DEF TypeInv, TypeOK
<1>3. QED
  BY <1>1, <1>2 DEF ThreadInv, Shape, Memory, Search, OuterLoop, InnerLoop,
                    Notifying, Complete, Firing

LEMMA NextServiceStep ==
  ASSUME TypeInv, ListInv, NEW t \in Threads, ThreadInv(t), Around,
         NextService(t)
  PROVE  ThreadInv(t)'
<1> USE DEF TypeInv, TypeOK
<1>1. Shape(t) /\ Memory(t) /\ OuterLoop(t) /\ pc[t] = "services"
  BY DEF ThreadInv, NextService
<1>2. UNCHANGED <<store, op, sid, dev, told, atStart, gone>>
  BY DEF NextService, hist
<1>3. Len(ServicesOf[dev[t]]) \in Nat
  BY ConstantsAssumption
<1>4. CASE /\ svc[t] < Len(ServicesOf[dev[t]])
           /\ svc' = [svc EXCEPT ![t] = @ + 1]
           /\ Enumerate(t)
           /\ Goto(t, "items")
           /\ UNCHANGED outcome
  <2>1. /\ svc'[t] = svc[t] + 1 /\ pos'[t] = 0 /\ ver'[t] = version
        /\ pc'[t] = "items" /\ svc[t] \in Nat
    BY <1>4 DEF Enumerate, Goto
  <2>2. Shape(t)'
    BY <1>1, <1>2, <2>1 DEF Shape
  <2>3. Memory(t)'
    BY <1>1, <1>2, <2>1, MemoryStays
  <2>4. OuterLoop(t)'
    BY <1>1, <1>2, <1>3, <1>4, <2>1, StoreStays
       DEF OuterLoop, Firing, Walked, ServiceAt
  <2>5. InnerLoop(t)'
    <3> SUFFICES ASSUME (Firing(t) /\ op[t] = "fire")'
                 PROVE  InnerLoop(t)'
      BY DEF InnerLoop
    <3>1. \A s \in told[t] : \E k \in 1 .. svc[t] :
            ServiceID[s] = ServiceAt(t, k)
      BY <1>1, <1>2 DEF OuterLoop, Firing
    <3>2. \A k \in 1 .. svc[t] : ServiceAt(t, k) # ServiceAt(t, svc[t] + 1)
      <4>1. ServicesOf[dev[t]] \in Seq(Services)
        BY ConstantsAssumption
      <4>2. \A k \in 1 .. svc[t] + 1 : k \in DOMAIN ServicesOf[dev[t]]
        BY <1>4, <2>1, <4>1
      <4>3. \A i, j \in DOMAIN ServicesOf[dev[t]] :
              ServicesOf[dev[t]][i] = ServicesOf[dev[t]][j] => i = j
        BY ConstantsAssumption
      <4>4. ASSUME NEW k \in 1 .. svc[t]
            PROVE  ServiceAt(t, k) # ServiceAt(t, svc[t] + 1)
        <5>1. /\ k \in 1 .. svc[t] + 1 /\ svc[t] + 1 \in 1 .. svc[t] + 1
              /\ k # svc[t] + 1
          BY <2>1
        <5>2. QED
          BY <4>2, <4>3, <5>1 DEF ServiceAt
      <4>5. QED
        BY <4>4
    <3>3. \A s \in told[t] : ServiceID[s] # ServiceAt(t, svc[t] + 1)
      BY <3>1, <3>2
    <3>4. ServiceAt(t, svc[t])' = ServiceAt(t, svc[t] + 1)
      BY <1>2, <2>1 DEF ServiceAt
    <3>5. Len(m_Subscriptions') \in Nat
      BY <1>2, StoreStays
    <3>6. QED
      BY <1>2, <2>1, <3>3, <3>4, <3>5, StoreStays DEF InnerLoop
  <2>6. QED
    BY <2>1, <2>2, <2>3, <2>4, <2>5 DEF ThreadInv, Search, Notifying, Complete
<1>5. CASE /\ svc[t] = Len(ServicesOf[dev[t]])
           /\ Return(t, "ok")
           /\ UNCHANGED <<svc, enum>>
  <2>1. /\ pc'[t] = "return" /\ outcome'[t] = "ok" /\ UNCHANGED <<svc, ver>>
    BY <1>5 DEF Return, Goto, enum
  <2>2. Shape(t)'
    BY <1>1, <1>2, <2>1 DEF Shape
  <2>3. Memory(t)'
    BY <1>1, <1>2, <2>1, MemoryStays
  <2>4. Complete(t)'
    <3> SUFFICES ASSUME op[t] = "fire", NEW s \in atStart[t], Listed(s),
                        Subscribes(s, dev[t])
                 PROVE  s \in told[t]
      BY <1>2, StoreStays DEF Complete, Subscribes
    <3>1. PICK k \in 1 .. Len(ServicesOf[dev[t]]) :
            ServiceID[s] = ServicesOf[dev[t]][k]
      <4>1. ServicesOf[dev[t]] \in Seq(Services)
        BY ConstantsAssumption
      <4>2. DOMAIN ServicesOf[dev[t]] = 1 .. Len(ServicesOf[dev[t]])
        BY <4>1
      <4>3. QED
        BY <4>2 DEF Subscribes, ToSet
    <3>2. QED
      BY <1>1, <1>5, <3>1 DEF OuterLoop, Firing, Walked, ServiceAt
  <2>5. QED
    BY <1>1, <1>2, <2>1, <2>2, <2>3, <2>4
       DEF ThreadInv, Shape, Search, OuterLoop, InnerLoop, Notifying, Firing
<1>6. QED
  BY <1>4, <1>5 DEF NextService

LEMMA NextItemStep ==
  ASSUME TypeInv, ListInv, NEW t \in Threads, ThreadInv(t), Around, NextItem(t)
  PROVE  ThreadInv(t)'
<1> USE DEF TypeInv, TypeOK
<1>1. /\ Shape(t) /\ Memory(t) /\ OuterLoop(t) /\ InnerLoop(t)
      /\ pc[t] = "items" /\ op[t] \in {"fire", "fireEmpty"}
  BY DEF ThreadInv, NextItem, Shape
<1>2. UNCHANGED <<store, op, dev, svc, ver, told, atStart, gone>>
  BY DEF NextItem, hist, enum
<1>3. Memory(t)'
  BY <1>1, <1>2, MemoryStays
<1>4. CASE Throws(ver[t])
  <2>1. pc'[t] = "return" /\ outcome'[t] = "fault"
    BY <1>4, MoveNextCases DEF NextItem, Return, Goto
  <2>2. QED
    BY <1>1, <1>2, <1>3, <2>1
       DEF ThreadInv, Shape, Search, OuterLoop, InnerLoop, Notifying,
           Complete, Firing
<1>5. CASE AtEnd(pos[t], ver[t])
  <2>1. pc'[t] = "services"
    BY <1>5, MoveNextCases DEF NextItem, Goto
  <2>2. Shape(t)'
    BY <1>1, <1>2, <2>1 DEF Shape
  <2>3. OuterLoop(t)'
    <3> SUFFICES ASSUME op[t] = "fire"
                 PROVE  OuterLoop(t)'
      BY <1>2 DEF OuterLoop
    <3>1. /\ svc[t] <= Len(ServicesOf[dev[t]])
          /\ svc[t] >= 1 /\ svc[t] \in Nat
          /\ \A s \in told[t] :
               \E k \in 1 .. svc[t] : ServiceID[s] = ServiceAt(t, k)
      BY <1>1 DEF OuterLoop, Firing
    <3>2. ASSUME NEW s \in atStart[t], NEW k \in 1 .. svc[t], Listed(s),
                 ServiceID[s] = ServiceAt(t, k)
          PROVE  s \in told[t]
      <4>1. CASE k = svc[t]
        <5>1. PICK i \in 1 .. Len(m_Subscriptions) : m_Subscriptions[i] = s
          BY <3>2 DEF Listed
        <5>2. i \in 1 .. pos[t] /\ ver[t] = version
          BY <1>5, <5>1 DEF AtEnd
        <5>3. QED
          BY <1>1, <3>2, <4>1, <5>1, <5>2 DEF InnerLoop, Firing
      <4>2. CASE k # svc[t]
        <5>1. k \in 1 .. svc[t] - 1
          BY <3>1, <4>2
        <5>2. QED
          BY <1>1, <3>2, <5>1 DEF OuterLoop, Firing, Walked
      <4>3. QED
        BY <4>1, <4>2
    <3>3. QED
      BY <1>2, <2>1, <3>1, <3>2, StoreStays
         DEF OuterLoop, Firing, Walked, ServiceAt
  <2>4. QED
    BY <1>3, <2>1, <2>2, <2>3
       DEF ThreadInv, Search, InnerLoop, Notifying, Complete
<1>6. CASE Yields(pos[t], ver[t])
  <2> DEFINE c == Current(pos[t])
  <2>1. /\ pos'[t] = pos[t] + 1 /\ pos[t] \in Nat
        /\ \/ pc'[t] = "items" /\ ~Wanted(t, c)
           \/ pc'[t] = "notify" /\ sid'[t] = c /\ Wanted(t, c)
    BY <1>1, <1>6, MoveNextCases DEF NextItem, Goto
  <2>2. /\ c = m_Subscriptions[pos[t] + 1] /\ ver[t] = version
        /\ pos[t] + 1 \in 1 .. Len(m_Subscriptions)
        /\ c \in SIDs /\ Listed(c) /\ Created(c)
    BY <1>6, <2>1 DEF Yields, Current, Listed, ListInv
  <2> HIDE DEF c
  <2>3. Shape(t)'
    BY <1>1, <1>2, <2>1 DEF Shape, Wanted
  <2>4. OuterLoop(t)'
    BY <1>1, <1>2, <2>1, StoreStays
       DEF OuterLoop, Firing, Walked, ServiceAt
  <2>5. InnerLoop(t)'
    <3> SUFFICES ASSUME op[t] = "fire"
                 PROVE  InnerLoop(t)'
      BY <1>2 DEF InnerLoop
    <3>1. /\ \A i \in 1 .. pos[t] :
               ServiceID[m_Subscriptions[i]] = ServiceAt(t, svc[t]) =>
                 m_Subscriptions[i] \in told[t]
          /\ \A s \in told[t] :
               ServiceID[s] = ServiceAt(t, svc[t]) =>
                 \E i \in 1 .. pos[t] : m_Subscriptions[i] = s
      BY <1>1, <2>2 DEF InnerLoop, Firing
    <3>2. ServiceID[c] = ServiceAt(t, svc[t]) =>
            pc'[t] = "notify" /\ sid'[t] = c
      BY <2>1 DEF Wanted, ServiceAt
    <3>3. ASSUME NEW i \in 1 .. pos[t] + 1,
                 ServiceID[m_Subscriptions[i]] = ServiceAt(t, svc[t])
          PROVE  \/ m_Subscriptions[i] \in told[t]
                 \/ pc'[t] = "notify" /\ m_Subscriptions[i] = sid'[t]
      BY <2>1, <2>2, <3>1, <3>2, <3>3
    <3>4. \A s \in told[t] :
            ServiceID[s] = ServiceAt(t, svc[t]) =>
              \E i \in 1 .. pos[t] + 1 : m_Subscriptions[i] = s
      BY <2>1, <3>1
    <3>5. pos[t] + 1 <= Len(m_Subscriptions)
      BY <2>2
    <3>6. ServiceAt(t, svc[t])' = ServiceAt(t, svc[t])
      BY <1>2 DEF ServiceAt
    <3>7. QED
      BY <1>2, <2>1, <3>3, <3>4, <3>5, <3>6, StoreStays DEF InnerLoop
  <2>6. Notifying(t)'
    <3> SUFFICES ASSUME pc'[t] = "notify"
                 PROVE  Notifying(t)'
      BY DEF Notifying
    <3>1. /\ sid'[t] = c /\ op[t] = "fire"
          /\ ServiceID[c] = ServiceAt(t, svc[t])
      BY <2>1 DEF Wanted, ServiceAt
    <3>2. c \notin told[t]
      <4>1. c \in told[t] => \E i \in 1 .. pos[t] : m_Subscriptions[i] = c
        BY <1>1, <2>2, <3>1 DEF InnerLoop, Firing
      <4>2. ASSUME NEW i \in 1 .. pos[t]
            PROVE  m_Subscriptions[i] # c
        <5>1. i \in 1 .. Len(m_Subscriptions) /\ i # pos[t] + 1
          BY <2>1, <2>2
        <5>2. QED
          BY <2>2, <5>1 DEF ListInv, NoRepetition
      <4>3. QED
        BY <4>1, <4>2
    <3>3. c \notin gone[t]
      BY <1>1, <2>2 DEF Memory
    <3>4. pos[t] + 1 \in 1 .. pos'[t]
      BY <2>1
    <3>5. ServiceAt(t, svc[t])' = ServiceAt(t, svc[t])
      BY <1>2 DEF ServiceAt
    <3>6. Created(sid[t])'
      BY <1>2, <2>2, <3>1, StoreStays DEF store, Created
    <3>7. QED
      BY <1>2, <2>2, <3>1, <3>2, <3>3, <3>4, <3>5, <3>6, StoreStays
         DEF Notifying
  <2>7. QED
    BY <1>3, <2>1, <2>3, <2>4, <2>5, <2>6 DEF ThreadInv, Search, Complete
<1>7. QED
  BY <1>4, <1>5, <1>6 DEF NextItem

LEMMA DeliverStep ==
  ASSUME TypeInv, NEW t \in Threads, ThreadInv(t), Around, Deliver(t)
  PROVE  ThreadInv(t)'
<1> USE DEF TypeInv, TypeOK
<1>1. /\ Shape(t) /\ Memory(t) /\ OuterLoop(t) /\ InnerLoop(t) /\ Notifying(t)
      /\ pc[t] = "notify" /\ op[t] = "fire" /\ sid[t] \in SIDs
  BY DEF ThreadInv, Deliver, Shape, SidOK
<1>2. /\ UNCHANGED <<store, op, dev, svc, sid, pos, ver, atStart, gone>>
      /\ pc'[t] = "await" /\ told'[t] = told[t] \cup {sid[t]}
  BY DEF Deliver, hist, enum, Goto
<1>3. Shape(t)'
  BY <1>1, <1>2 DEF Shape
<1>4. Memory(t)'
  BY <1>1, <1>2, StoreStays DEF Memory, Notifying
<1>5. OuterLoop(t)'
  <2>1. svc[t] \in 1 .. svc[t]
    BY <1>1 DEF OuterLoop, Firing
  <2>2. QED
    BY <1>1, <1>2, <2>1, StoreStays
       DEF OuterLoop, Firing, Walked, ServiceAt, Notifying
<1>6. InnerLoop(t)'
  BY <1>1, <1>2, StoreStays DEF InnerLoop, Firing, ServiceAt, Notifying
<1>7. QED
  BY <1>2, <1>3, <1>4, <1>5, <1>6 DEF ThreadInv, Search, Notifying, Complete

LEMMA WaitStep ==
  ASSUME TypeInv, NEW t \in Threads, ThreadInv(t), Around, ThreadWait(t)
  PROVE  ThreadInv(t)'
<1> USE DEF TypeInv, TypeOK
<1>1. Shape(t) /\ Memory(t) /\ OuterLoop(t) /\ InnerLoop(t)
  BY DEF ThreadInv
<1>2. UNCHANGED <<store, op, dev, svc, sid, pos, ver, told, atStart, gone>>
  BY DEF ThreadWait, Answered, NotifyFails, hist, enum
<1>3. Memory(t)'
  BY <1>1, <1>2, MemoryStays
<1>4. CASE Answered(t)
  <2>1. pc[t] = "await" /\ pc'[t] = "items" /\ op[t] = "fire"
    BY <1>1, <1>4 DEF Answered, Goto, Shape
  <2>2. Shape(t)'
    BY <1>1, <1>2, <2>1 DEF Shape
  <2>3. OuterLoop(t)'
    BY <1>1, <1>2, <2>1, StoreStays DEF OuterLoop, Firing, Walked, ServiceAt
  <2>4. InnerLoop(t)'
    BY <1>1, <1>2, <2>1, StoreStays DEF InnerLoop, Firing, ServiceAt
  <2>5. QED
    BY <1>3, <2>1, <2>2, <2>3, <2>4 DEF ThreadInv, Search, Notifying, Complete
<1>5. CASE NotifyFails(t)
  <2>1. /\ pc[t] \in {"notify", "await"} /\ op[t] = "fire"
        /\ pc'[t] = "return" /\ outcome'[t] = "fault"
    BY <1>1, <1>5 DEF NotifyFails, Return, Goto, Shape
  <2>2. QED
    BY <1>1, <1>2, <1>3, <2>1
       DEF ThreadInv, Shape, Search, OuterLoop, InnerLoop, Notifying,
           Complete, Firing
<1>6. QED
  BY <1>4, <1>5 DEF ThreadWait

-----------------------------------------------------------------------------
AllThreads == \A t \in Threads : ThreadInv(t)

LEMMA AllThreadsStep ==
  ASSUME TypeInv, ListInv, AllThreads, [Next]_vars
  PROVE  AllThreads'
<1>1. Around
  BY StepAround
<1>2. ASSUME NEW t \in Threads
      PROVE  ThreadInv(t)'
  <2>1. ThreadInv(t)
    BY DEF AllThreads
  <2>2. CASE Same(t)
    BY <1>1, <2>1, <2>2, FrameStep
  <2>3. CASE t = Http /\ (HttpRequest \/ HttpLookup)
    BY <1>1, <2>1, <2>3, HttpStep
  <2>4. CASE Fire(t)
    BY <1>1, <2>1, <2>4, FireStep
  <2>5. CASE ThreadStep(t)
    BY <1>1, <2>1, <2>5, NextServiceStep, NextItemStep, DeliverStep,
       RespondStep DEF ThreadStep
  <2>6. CASE ThreadWait(t)
    BY <1>1, <2>1, <2>6, WaitStep
  <2>7. QED
    BY <2>2, <2>3, <2>4, <2>5, <2>6, LocalSteps DEF Own
<1>3. QED
  BY <1>2 DEF AllThreads, Threads

LEMMA ThreadsInvariant == Spec => []AllThreads
<1>1. Init => AllThreads
  BY DEF Init, AllThreads, ThreadInv, Shape, Memory, Search, OuterLoop,
         InnerLoop, Notifying, Complete, Firing
<1>2. TypeInv /\ ListInv /\ AllThreads /\ [Next]_vars => AllThreads'
  BY AllThreadsStep
<1>3. QED
  BY <1>1, <1>2, Typing, ListInvariant, PTL DEF Spec

\* A change that is reported without an exception was told to every
\* subscription of the device that was listed throughout; and none is told
\* twice of one change, or of a change that began after it left the list.
THEOREM FireCorrect == Spec => []FireIsExact
<1>1. AllThreads => FireIsComplete
  BY DEF AllThreads, ThreadInv, Complete, FireIsComplete
<1>2. AllThreads => NotifiedOnce
  BY DEF AllThreads, ThreadInv, Notifying, NotifiedOnce
<1>3. AllThreads => FireIsExact
  BY <1>1, <1>2 DEF FireIsExact
<1>4. QED
  BY <1>3, ThreadsInvariant, PTL

\* A renewal or an UNSUBSCRIBE of a listed SID is refused only when the list
\* changed under the walk.
THEOREM LookupCorrect == Spec => []LookupIsExact
<1>1. AllThreads => LookupIsExact
  BY DEF AllThreads, ThreadInv, Search, LookupIsExact, Threads
<1>2. QED
  BY <1>1, ThreadsInvariant, PTL

-----------------------------------------------------------------------------
(* EventHandler implements EventPublisher.                                 *)

Gone(t) == IF op[t] = "fire" THEN gone[t] ELSE {}

\* What the publisher sees of thread t does not change.
Unseen(t) ==
  /\ Phase(t)' = Phase(t) /\ Due(t)' = Due(t)
  /\ told'[t] = told[t] /\ Gone(t)' = Gone(t)

LEMMA SameUnseen ==
  ASSUME TypeInv, NEW t \in Threads, ThreadInv(t), Around, Same(t)
  PROVE  Unseen(t)
<1>1. \A s \in atStart[t] : Subscribes(s, dev[t])' <=> Subscribes(s, dev[t])
  BY DEF Same, Around, ThreadInv, Memory, Subscribes, TypeInv, TypeOK
<1>2. Due(t)' = Due(t)
  BY <1>1 DEF Due, Same
<1>3. QED
  BY <1>2 DEF Unseen, Phase, Gone, Same

\* What the publisher sees of the list.
LEMMA ActiveSteps ==
  ASSUME TypeInv, ListInv, AllThreads, [Next]_vars
  PROVE  \/ UNCHANGED <<Active, Retired>>
         \/ /\ \E s \in SIDs : /\ s \notin Active \cup Retired
                               /\ Active' = Active \cup {s}
                               /\ Retired' = Retired
            /\ \A t \in Threads : Unseen(t)
         \/ /\ \E s \in Active : /\ Active' = Active \ {s}
                                 /\ Retired' = Retired \cup {s}
            /\ \A t \in Threads : Unseen(t)
<1> USE DEF Active, Retired, TypeInv
<1>1. Around
  BY StepAround
<1>2. ASSUME NEW t \in Threads, op[t] # "fire", op'[t] # "fire",
             told'[t] = told[t]
      PROVE  Unseen(t)
  BY <1>2 DEF Unseen, Phase, Due, Gone
<1>3. CASE UNCHANGED <<list, init>>
  BY <1>3 DEF list, Listed, Created
<1>4. ASSUME NEW r \in SIDs, InitEvent(r), UNCHANGED list
      PROVE  UNCHANGED <<Active, Retired>>
  <2>1. \A s \in SIDs : Created(s)' <=> Created(s)
    BY <1>4 DEF InitEvent, SendInitEvent, InitDelivered, InitAnswered,
                InitFails, Created, TypeOK, store
  <2>2. QED
    BY <1>4, <2>1 DEF list, Listed
<1>5. ASSUME NEW service \in Services, NEW s \in SIDs, Subscribe(service, s)
      PROVE  /\ s \notin Active \cup Retired
             /\ Active' = Active \cup {s}
             /\ Retired' = Retired
             /\ \A t \in Threads : Unseen(t)
  <2>1. ListAdd(s) /\ ~Created(s) /\ ~Listed(s)
    BY <1>5 DEF Subscribe, ListInv
  <2>2. \A f : Listed(f)' <=> Listed(f) \/ f = s
    BY <2>1, ListAddEffect DEF ListInv
  <2>3. \A f \in SIDs : Created(f)' <=> Created(f) \/ f = s
    BY <1>5 DEF Subscribe, Created, TypeOK
  <2>4. ASSUME NEW t \in Threads
        PROVE  Unseen(t)
    <3>1. CASE t = Http
      <4>1. pc[t] = "idle" /\ op'[t] = "subscribe" /\ told'[t] = told[t]
        BY <1>5, <3>1 DEF Subscribe, Begin, hist, TypeOK, Threads
      <4>2. op[t] = "none"
        BY <4>1 DEF AllThreads, ThreadInv, Shape
      <4>3. QED
        BY <1>2, <4>1, <4>2
    <3>2. CASE t # Http
      <4>1. Same(t)
        BY <1>5, <3>2 DEF Subscribe, Begin, Goto, hist, enum, TypeOK, Same
      <4>2. QED
        BY <1>1, <4>1, SameUnseen DEF AllThreads
    <3>3. QED
      BY <3>1, <3>2
  <2>5. QED
    BY <2>1, <2>2, <2>3, <2>4
<1>6. ASSUME NEW s \in SIDs, ListRemove(s), UNCHANGED init
      PROVE  \/ UNCHANGED <<Active, Retired>>
             \/ /\ s \in Active
                /\ Active' = Active \ {s}
                /\ Retired' = Retired \cup {s}
  <2>1. \A f : Listed(f)' <=> Listed(f) /\ f # s
    BY <1>6, ListRemoveEffect DEF ListInv
  <2>2. \A f \in SIDs : Created(f)' <=> Created(f)
    BY <1>6 DEF Created
  <2>3. Listed(s) => Created(s)
    BY DEF ListInv
  <2>4. QED
    BY <2>1, <2>2, <2>3
<1>7. CASE RemoveFound
  <2>1. sid[Http] \in SIDs /\ ListRemove(sid[Http]) /\ UNCHANGED init
    BY <1>7 DEF RemoveFound, SidOK, Threads
  <2>2. ASSUME NEW t \in Threads
        PROVE  Unseen(t)
    <3>1. CASE t = Http
      <4>1. /\ op[t] = "unsubscribe" /\ op'[t] = "unsubscribe"
            /\ told'[t] = told[t]
        BY <1>7, <3>1 DEF RemoveFound
      <4>2. QED
        BY <1>2, <4>1
    <3>2. CASE t # Http
      <4>1. Same(t)
        BY <1>7, <3>2 DEF RemoveFound, Return, Goto, enum, TypeOK, Same
      <4>2. QED
        BY <1>1, <4>1, SameUnseen DEF AllThreads
    <3>3. QED
      BY <3>1, <3>2
  <2>3. QED
    BY <1>6, <2>1, <2>2
<1>8. CASE RefreshRemove
  <2>1. ListRemove(rsid) /\ UNCHANGED init
    BY <1>8 DEF RefreshRemove
  <2>2. \A t \in Threads : Same(t)
    BY <1>8 DEF RefreshRemove, threads, calls, hist, enum, Same
  <2>3. \A t \in Threads : Unseen(t)
    BY <1>1, <2>2, SameUnseen DEF AllThreads
  <2>4. CASE rsid \in SIDs
    BY <1>6, <2>1, <2>3, <2>4
  <2>5. CASE rsid \notin SIDs
    <3>1. ~Listed(rsid)
      BY <2>5 DEF Listed, TypeOK
    <3>2. UNCHANGED list
      BY <2>1, <3>1 DEF ListRemove, Listed
    <3>3. QED
      BY <1>3, <2>1, <3>2
  <2>6. QED
    BY <2>4, <2>5
<1>9. QED
  BY <1>3, <1>4, <1>5, <1>7, <1>8, ListSteps DEF ListStep

\* What the publisher sees of a step of thread t.
SeenBegin(t) ==
  /\ Phase(t) = "idle" /\ Phase(t)' = "telling"
  /\ Due(t)' \subseteq Active /\ Gone(t)' = Retired /\ told'[t] = told[t]

SeenTell(t) ==
  /\ Phase(t) = "telling" /\ Phase(t)' = "telling"
  /\ Due(t)' = Due(t) /\ Gone(t)' = Gone(t)
  /\ sid[t] \in SIDs /\ sid[t] \notin told[t] \cup Gone(t)
  /\ told'[t] = told[t] \cup {sid[t]}

SeenEnd(t) ==
  /\ Phase(t) = "telling"
  /\ \/ Phase(t)' = "fault"
     \/ Phase(t)' = "ok" /\ Due(t) \cap Active \subseteq told[t]
  /\ Due(t)' = Due(t) /\ Gone(t)' = Gone(t) /\ told'[t] = told[t]

SeenClose(t) ==
  /\ Phase(t) \in {"ok", "fault"} /\ Phase(t)' = "idle"
  /\ Due(t)' = {} /\ Gone(t)' = {} /\ told'[t] = {}

Seen(t) ==
  Unseen(t) \/ SeenBegin(t) \/ SeenTell(t) \/ SeenEnd(t) \/ SeenClose(t)

FirerAction(t) == Fire(t) \/ ThreadStep(t) \/ ThreadWait(t)

LEMMA FirerSeen ==
  ASSUME TypeInv, ListInv, NEW t \in Threads, ThreadInv(t), ThreadInv(t)',
         FirerAction(t)
  PROVE  Seen(t) /\ UNCHANGED store
<1> USE DEF TypeInv, TypeOK, Goto, Return, Begin, hist, enum
<1>1. Shape(t) /\ Memory(t) /\ Notifying(t) /\ Complete(t)'
  BY DEF ThreadInv
<1>2. UNCHANGED store
  BY DEF FirerAction, Fire, FireStateChanged, ThreadStep, NextService,
         NextItem, Deliver, Respond, ThreadWait, Answered, NotifyFails, store
<1>3. /\ \A s : Subscribes(s, dev[t])' <=>
                  ServiceID[s] \in ToSet(ServicesOf[dev'[t]])
      /\ Active' = Active /\ Retired' = Retired
  BY <1>2, StoreStays DEF Subscribes, Active, Retired
<1>4. CASE Fire(t)
  <2>1. /\ pc[t] = "idle" /\ op[t] = "none" /\ pc'[t] = "services"
        /\ told'[t] = told[t] /\ told[t] = {}
        /\ atStart'[t] = Active /\ gone'[t] = Retired
        /\ op'[t] \in {"fire", "fireEmpty"}
    BY <1>1, <1>4 DEF Fire, FireStateChanged, Shape
  <2>2. CASE op'[t] = "fire"
    BY <1>2, <2>1, <2>2 DEF SeenBegin, Seen, Phase, Due, Gone
  <2>3. CASE op'[t] = "fireEmpty"
    BY <1>2, <2>1, <2>3 DEF Unseen, Seen, Phase, Due, Gone
  <2>4. QED
    BY <1>2, <2>1, <2>2, <2>3
<1>5. CASE Deliver(t)
  <2>1. /\ pc[t] = "notify" /\ pc'[t] = "await" /\ op[t] = "fire"
        /\ told'[t] = told[t] \cup {sid[t]} /\ sid[t] \in SIDs
        /\ UNCHANGED <<op, dev, atStart, gone>>
    BY <1>1, <1>5 DEF Deliver, Shape, SidOK
  <2>2. sid[t] \notin told[t] \cup gone[t]
    BY <1>1, <2>1 DEF Notifying
  <2>3. Due(t)' = Due(t)
    BY <1>3, <2>1 DEF Due, Subscribes
  <2>4. QED
    BY <1>2, <2>1, <2>2, <2>3 DEF SeenTell, Seen, Phase, Gone
<1>6. CASE Respond(t)
  <2>1. /\ pc[t] = "return" /\ outcome[t] \in {"ok", "fault"}
        /\ op'[t] = "none" /\ told'[t] = {}
        /\ op[t] # "fire" => told[t] = {}
    BY <1>1, <1>6 DEF Respond, Shape
  <2>2. CASE op[t] = "fire"
    BY <1>2, <2>1, <2>2 DEF SeenClose, Seen, Phase, Due, Gone
  <2>3. CASE op[t] # "fire"
    BY <1>2, <2>1, <2>3 DEF Unseen, Seen, Phase, Due, Gone
  <2>4. QED
    BY <1>2, <2>2, <2>3
<1>7. CASE NextService(t) \/ NextItem(t) \/ ThreadWait(t)
  <2>1. /\ UNCHANGED <<op, dev, told, atStart, gone>> /\ pc[t] # "return"
        /\ pc'[t] = "return" => outcome'[t] \in {"ok", "fault"}
    BY <1>7 DEF NextService, NextItem, ThreadWait, Answered, NotifyFails
  <2>2. Due(t)' = Due(t) /\ Gone(t)' = Gone(t)
    BY <1>3, <2>1 DEF Due, Gone, Subscribes
  <2>3. CASE op[t] = "fire" /\ pc'[t] = "return"
    <3>1. outcome'[t] = "ok" => Due(t) \cap Active \subseteq told[t]
      BY <1>1, <1>2, <1>3, <2>1, <2>3, StoreStays
         DEF Complete, Due, Active, Subscribes
    <3>2. QED
      BY <1>2, <2>1, <2>2, <2>3, <3>1 DEF SeenEnd, Seen, Phase
  <2>4. CASE ~(op[t] = "fire" /\ pc'[t] = "return")
    BY <1>2, <2>1, <2>2, <2>4 DEF Unseen, Seen, Phase
  <2>5. QED
    BY <1>2, <2>3, <2>4
<1>8. QED
  BY <1>4, <1>5, <1>6, <1>7 DEF FirerAction, ThreadStep

\* While t fires, the other threads' locals stay.
LEMMA OthersSame ==
  ASSUME TypeInv, NEW t \in Threads, FirerAction(t), NEW u \in Threads, u # t
  PROVE  Same(u)
<1> USE DEF TypeInv, TypeOK, Same, hist, enum, Begin, Goto, Return, Enumerate
<1>1. CASE Fire(t)
  BY <1>1 DEF Fire, FireStateChanged
<1>2. CASE ThreadStep(t)
  BY <1>2 DEF ThreadStep, NextService, NextItem, Deliver, Respond
<1>3. CASE ThreadWait(t)
  BY <1>3 DEF ThreadWait, Answered, NotifyFails
<1>4. QED
  BY <1>1, <1>2, <1>3 DEF FirerAction

\* Every other step changes no thread's view.
LEMMA QuietSteps ==
  ASSUME TypeInv, ListInv, AllThreads, [Next]_vars
  PROVE  \/ \E t \in Threads : FirerAction(t)
         \/ \A t \in Threads : Unseen(t)
<1>1. Around
  BY StepAround
<1>2. SUFFICES ASSUME ~\E t \in Threads : FirerAction(t), NEW t \in Threads
               PROVE  Unseen(t)
  OBVIOUS
<1>3. CASE Same(t)
  BY <1>1, <1>3, SameUnseen DEF AllThreads
<1>4. CASE t = Http /\ (HttpRequest \/ HttpLookup)
  <2>1. told'[t] = told[t] /\ op[t] # "fire" /\ op'[t] # "fire"
    <3>1. Shape(t)
      BY DEF AllThreads, ThreadInv
    <3>2. CASE HttpRequest
      BY <1>4, <3>1, <3>2 DEF HttpRequest, BadRequest, Subscribe, Resubscribe,
         RemoveSubscription, BeginLookup, Begin, Shape, hist, TypeInv, TypeOK
    <3>3. CASE HttpLookup
      BY <1>4, <3>1, <3>3 DEF HttpLookup, LookupNext, RenewFound, RemoveFound,
         Shape, hist
    <3>4. QED
      BY <1>4, <3>2, <3>3
  <2>2. QED
    BY <2>1 DEF Unseen, Phase, Due, Gone
<1>5. QED
  BY <1>2, <1>3, <1>4, LocalSteps DEF Own, FirerAction

-----------------------------------------------------------------------------
(* The four functions of threads that the publisher's variables stand for. *)

Phases == [t \in Threads |-> Phase(t)]
Dues   == [t \in Threads |-> Due(t)]
Gones  == [t \in Threads |-> Gone(t)]

LEMMA UnseenFunctions ==
  ASSUME TypeInv, TypeInv', \A t \in Threads : Unseen(t)
  PROVE  UNCHANGED <<Phases, Dues, told, Gones>>
<1>1. Phases' = Phases
  BY DEF Unseen, Phases
<1>2. Dues' = Dues
  BY DEF Unseen, Dues
<1>3. Gones' = Gones
  BY DEF Unseen, Gones
<1>4. told' = told
  BY DEF Unseen, TypeInv, TypeOK
<1>5. QED
  BY <1>1, <1>2, <1>3, <1>4

LEMMA SeenFunctions ==
  ASSUME TypeInv, TypeInv', NEW t \in Threads,
         \A u \in Threads : u # t => Unseen(u)
  PROVE  /\ Phases' = [Phases EXCEPT ![t] = Phase(t)']
         /\ Dues' = [Dues EXCEPT ![t] = Due(t)']
         /\ told' = [told EXCEPT ![t] = told'[t]]
         /\ Gones' = [Gones EXCEPT ![t] = Gone(t)']
         /\ Phases[t] = Phase(t) /\ Dues[t] = Due(t) /\ Gones[t] = Gone(t)
<1>1. Phases' = [Phases EXCEPT ![t] = Phase(t)']
  BY DEF Unseen, Phases
<1>2. Dues' = [Dues EXCEPT ![t] = Due(t)']
  BY DEF Unseen, Dues
<1>3. Gones' = [Gones EXCEPT ![t] = Gone(t)']
  BY DEF Unseen, Gones
<1>4. told' = [told EXCEPT ![t] = told'[t]]
  BY DEF Unseen, TypeInv, TypeOK
<1>5. QED
  BY <1>1, <1>2, <1>3, <1>4 DEF Phases, Dues, Gones

LEMMA SameFunction ==
  ASSUME NEW D, NEW R, NEW f \in [D -> R], NEW x \in D, NEW y, y = f[x]
  PROVE  [f EXCEPT ![x] = y] = f
  OBVIOUS

LEMMA FirerMaps ==
  ASSUME TypeInv, TypeInv', NEW t \in Threads, Seen(t),
         \A u \in Threads : u # t => Unseen(u),
         UNCHANGED <<Active, Retired>>
  PROVE  [Publisher!Next]_(Publisher!vars)
<1>1. /\ Phases' = [Phases EXCEPT ![t] = Phase(t)']
      /\ Dues' = [Dues EXCEPT ![t] = Due(t)']
      /\ told' = [told EXCEPT ![t] = told'[t]]
      /\ Gones' = [Gones EXCEPT ![t] = Gone(t)']
      /\ Phases[t] = Phase(t) /\ Dues[t] = Due(t) /\ Gones[t] = Gone(t)
  BY SeenFunctions
<1>2. ASSUME Due(t)' = Due(t)
      PROVE  Dues' = Dues
  BY <1>1, <1>2 DEF Dues
<1>3. ASSUME Gone(t)' = Gone(t)
      PROVE  Gones' = Gones
  BY <1>1, <1>3 DEF Gones
<1>4. ASSUME told'[t] = told[t]
      PROVE  told' = told
  BY <1>1, <1>4 DEF TypeInv, TypeOK
<1>5. ASSUME Phase(t)' = Phase(t)
      PROVE  Phases' = Phases
  BY <1>1, <1>5 DEF Phases
<1>6. CASE Unseen(t)
  <2>1. UNCHANGED <<Phases, Dues, told, Gones>>
    BY <1>2, <1>3, <1>4, <1>5, <1>6 DEF Unseen
  <2>2. QED
    BY <2>1 DEF Publisher!vars, Phases, Dues, Gones, Gone
<1>7. CASE SeenBegin(t)
  <2>1. PICK D \in SUBSET Active : D = Due(t)'
    BY <1>7 DEF SeenBegin
  <2>2. /\ Phases[t] = "idle" /\ Phases' = [Phases EXCEPT ![t] = "telling"]
        /\ Dues' = [Dues EXCEPT ![t] = D] /\ told' = told
        /\ Gones' = [Gones EXCEPT ![t] = Retired]
    BY <1>1, <1>4, <1>7, <2>1 DEF SeenBegin
  <2>3. Publisher!BeginReport(t, D)
    BY <2>2 DEF Publisher!BeginReport, Phases, Dues, Gones, Gone
  <2>4. QED
    BY <2>1, <2>3 DEF Publisher!Next
<1>8. CASE SeenTell(t)
  <2>1. Publisher!Tell(t, sid[t]) /\ sid[t] \in SIDs
    BY <1>1, <1>2, <1>3, <1>5, <1>8 DEF SeenTell, Publisher!Tell, Phases, Dues,
                                        Gones, Gone
  <2>2. QED
    BY <2>1 DEF Publisher!Next
<1>9. CASE SeenEnd(t)
  <2>1. Publisher!Fail(t) \/ Publisher!Succeed(t)
    BY <1>1, <1>2, <1>3, <1>4, <1>9 DEF SeenEnd, Publisher!Fail,
       Publisher!Succeed, Phases, Dues, Gones, Gone
  <2>2. QED
    BY <2>1 DEF Publisher!Next
<1>10. CASE SeenClose(t)
  <2>1. Publisher!Close(t)
    BY <1>1, <1>10 DEF SeenClose, Publisher!Close, Phases, Dues, Gones, Gone
  <2>2. QED
    BY <2>1 DEF Publisher!Next
<1>11. QED
  BY <1>6, <1>7, <1>8, <1>9, <1>10 DEF Seen

LEMMA ListMaps ==
  ASSUME TypeInv, TypeInv', \A t \in Threads : Unseen(t),
         \/ UNCHANGED <<Active, Retired>>
         \/ \E s \in SIDs : /\ s \notin Active \cup Retired
                             /\ Active' = Active \cup {s}
                             /\ Retired' = Retired
         \/ \E s \in Active : /\ Active' = Active \ {s}
                               /\ Retired' = Retired \cup {s}
  PROVE  [Publisher!Next]_(Publisher!vars)
<1>1. UNCHANGED <<Phases, Dues, told, Gones>>
  BY UnseenFunctions
<1>2. UNCHANGED Publisher!reports
  BY <1>1 DEF Publisher!reports, Phases, Dues, Gones, Gone
<1>3. CASE UNCHANGED <<Active, Retired>>
  BY <1>1, <1>3 DEF Publisher!vars, Phases, Dues, Gones, Gone
<1>4. ASSUME NEW s \in SIDs, s \notin Active \cup Retired,
             Active' = Active \cup {s}, Retired' = Retired
      PROVE  Publisher!Next
  BY <1>2, <1>4 DEF Publisher!Accept, Publisher!Next
<1>5. ASSUME NEW s \in Active, Active' = Active \ {s},
             Retired' = Retired \cup {s}
      PROVE  Publisher!Next
  <2>1. Publisher!Retire(s) /\ s \in SIDs
    BY <1>2, <1>5 DEF Publisher!Retire, Active
  <2>2. QED
    BY <2>1 DEF Publisher!Next
<1>6. QED
  BY <1>3, <1>4, <1>5

\* EventHandler implements EventPublisher: what the list and the threads do is
\* what a publisher promises its subscribers.
THEOREM Refinement == Spec => ImplementsPublisher
<1>1. Init => Publisher!Init
  <2>1. Init => Active = {} /\ Retired = {}
    BY DEF Init, Active, Retired, Listed, Created
  <2>2. Init => \A t \in Threads : Phase(t) = "idle" /\ Due(t) = {}
                                    /\ op[t] = "none"
    BY DEF Init, Phase, Due
  <2>3. QED
    BY <2>1, <2>2 DEF Init, Publisher!Init
<1>2. /\ TypeInv /\ ListInv /\ AllThreads
      /\ TypeInv' /\ AllThreads' /\ [Next]_vars
      => [Publisher!Next]_(Publisher!vars)
  <2> SUFFICES ASSUME TypeInv, ListInv, AllThreads, TypeInv', AllThreads',
                      [Next]_vars
               PROVE  [Publisher!Next]_(Publisher!vars)
    OBVIOUS
  <2>1. CASE \A t \in Threads : Unseen(t)
    BY <2>1, ActiveSteps, ListMaps
  <2>2. ASSUME NEW t \in Threads, FirerAction(t)
        PROVE  [Publisher!Next]_(Publisher!vars)
    <3>1. Seen(t) /\ UNCHANGED store
      BY <2>2, FirerSeen DEF AllThreads
    <3>2. UNCHANGED <<Active, Retired>>
      BY <3>1, StoreStays DEF Active, Retired
    <3>3. \A u \in Threads : u # t => Unseen(u)
      BY <2>2, OthersSame, StepAround, SameUnseen DEF AllThreads
    <3>4. QED
      BY <3>1, <3>2, <3>3, FirerMaps
  <2>3. QED
    BY <2>1, <2>2, QuietSteps
<1>3. QED
  BY <1>1, <1>2, Typing, ListInvariant, ThreadsInvariant, PTL
     DEF Spec, ImplementsPublisher, Publisher!Spec
=============================================================================
