-------------------------- MODULE Discovery_proofs --------------------------
(***************************************************************************)
(* Proofs about Discovery, for any number of services of the device.       *)
(***************************************************************************)
EXTENDS Discovery, TLAPS

\* A device has none of its services, or one more while it has not all.
LEMMA Counts ==
  /\ 0 \in 0 .. Services
  /\ \A n \in 0 .. Services : n < Services => n + 1 \in 0 .. Services
BY DiscoveryAssumption

\* A membership is a Boolean.
LEMMA Truths == \A b, x, S : b = (x \in S) => b \in BOOLEAN
BY SMT

\* Every variable keeps its type.
THEOREM TypeCorrect == Spec => []TypeOK
<1>1. Init => TypeOK
  BY Counts DEF Init, TypeOK, Host!Init
<1>2. TypeOK /\ [Next]_vars => TypeOK'
  <2> SUFFICES ASSUME TypeOK, [Next]_vars PROVE TypeOK'
    OBVIOUS
  <2> USE Counts DEF TypeOK, advertiser, control, loads, table, hist, Goto
  <2>1. CASE Outside
    BY <2>1 DEF Outside, Host!Next, Host!Host, Host!Start, Host!Serve,
       Host!Announce, Host!Answer, Host!SayBye, Host!StopServing, Host!Vanish,
       Host!Transmit, Host!Send
  <2>2. ASSUME NEW t \in Threads, NEW datagram, BeginLoad(t, datagram)
       PROVE  TypeOK'
    BY <2>2 DEF BeginLoad, Receive
  <2>3. CASE OnNotifyByeMessage
    BY <2>3 DEF OnNotifyByeMessage, Receive
  <2>4. CASE StartFind
    BY <2>4 DEF StartFind
  <2>10. CASE CancelFind
    BY <2>10 DEF CancelFind
  <2>5. ASSUME NEW t \in Threads, LoadRoot(t)
        PROVE  TypeOK'
    BY <2>5 DEF LoadRoot
  <2>6. ASSUME NEW t \in Threads, LoadRootFails(t)
        PROVE  TypeOK'
    BY <2>6 DEF LoadRootFails
  <2>7. ASSUME NEW t \in Threads, LoadService(t)
        PROVE  TypeOK'
    <3>1. CASE got[t] < Services /\ got' = [got EXCEPT ![t] = @ + 1]
                 /\ UNCHANGED stage
      BY <2>7, <3>1 DEF LoadService
    <3>2. CASE Goto(t, "add") /\ UNCHANGED got
      BY <2>7, <3>2 DEF LoadService
    <3>3. QED
      BY <2>7, <3>1, <3>2 DEF LoadService
  <2>11. ASSUME NEW t \in Threads, LoadServiceFails(t)
         PROVE  TypeOK'
    BY <2>11 DEF LoadServiceFails
  <2>12. ASSUME NEW t \in Threads, AddDevice(t)
         PROVE  TypeOK'
    <3>1. CASE listed
      BY <2>12, <3>1 DEF AddDevice
    <3>2. CASE ~listed
      <4>1. services' \in 0 .. Services /\ stage' \in
              [Threads -> {"idle", "root", "services", "add"}]
        BY <2>12, <3>2 DEF AddDevice
      <4>2. listed' \in BOOLEAN
        BY <2>12, <3>2 DEF AddDevice
      <4>3. late' = (t \in doubtful) /\ part' = (t \in cut)
        BY <2>12, <3>2 DEF AddDevice
      <4>4. late' \in BOOLEAN /\ part' \in BOOLEAN
        BY <4>3, Truths
      <4>5. UNCHANGED <<advertiser, got, searching, heardBye, doubtful, cut>>
        BY <2>12 DEF AddDevice
      <4>6. QED
        BY <4>1, <4>2, <4>4, <4>5
    <3>3. QED
      BY <3>1, <3>2
  <2>8. CASE UNCHANGED vars
    BY <2>8 DEF vars
  <2>9. QED
    BY <2>1, <2>2, <2>3, <2>4, <2>5, <2>6, <2>7, <2>8, <2>10, <2>11, <2>12
    DEF Next, Load, OnNotifyAliveMessage, OnSearchResult, Threads
<1>3. QED
  BY <1>1, <1>2, PTL DEF Spec

-----------------------------------------------------------------------------
\* What the host does and says is in order.
HostOK ==
  /\ phase = "gone" => serving = "no more"
  /\ "bye" \in wire \/ heardBye => phase \in {"leaving", "gone"}

\* A load past its first request comes from a host that served, and is doubtful
\* once a byebye was handled.
LoadsOK ==
  \A t \in Threads :
    /\ stage[t] \in {"services", "add"} => serving # "not yet"
    /\ stage[t] \in {"services", "add"} /\ heardBye => t \in doubtful

TableInv == HostOK /\ LoadsOK /\ ByeIsFinal

LEMMA TableStep == TypeOK /\ TableInv /\ [Next]_vars => TableInv'
<1> SUFFICES ASSUME TypeOK, TableInv, [Next]_vars PROVE TableInv'
  OBVIOUS
<1> USE DiscoveryAssumption
    DEF TypeOK, TableInv, HostOK, LoadsOK, ByeIsFinal,
    advertiser, control, loads, table, hist, Goto
<1>1. CASE Outside
  BY <1>1 DEF Outside, Host!Next, Host!Host, Host!Start, Host!Serve,
     Host!Announce, Host!Answer, Host!SayBye, Host!StopServing, Host!Vanish,
     Host!Transmit, Host!Send
<1>2. ASSUME NEW t \in Threads, NEW datagram, BeginLoad(t, datagram)
     PROVE  TableInv'
  BY <1>2 DEF BeginLoad, Receive
<1>3. CASE OnNotifyByeMessage
  BY <1>3 DEF OnNotifyByeMessage, Receive
<1>4. CASE StartFind
  BY <1>4 DEF StartFind
<1>10. CASE CancelFind
  BY <1>10 DEF CancelFind
<1>5. ASSUME NEW t \in Threads, LoadRoot(t)
      PROVE  TableInv'
  BY <1>5 DEF LoadRoot
<1>6. ASSUME NEW t \in Threads, LoadRootFails(t)
      PROVE  TableInv'
  BY <1>6 DEF LoadRootFails
<1>7. ASSUME NEW t \in Threads, LoadService(t)
      PROVE  TableInv'
  BY <1>7 DEF LoadService
<1>11. ASSUME NEW t \in Threads, LoadServiceFails(t)
       PROVE  TableInv'
  BY <1>11 DEF LoadServiceFails
<1>12. ASSUME NEW t \in Threads, AddDevice(t)
       PROVE  TableInv'
  BY <1>12 DEF AddDevice
<1>8. CASE UNCHANGED vars
  BY <1>8 DEF vars
<1>9. QED
  BY <1>1, <1>2, <1>3, <1>4, <1>5, <1>6, <1>7, <1>8, <1>10, <1>11, <1>12
  DEF Next, Load, OnNotifyAliveMessage, OnSearchResult, Threads

LEMMA TableInvariant == Spec => []TableInv
<1>1. Init => TableInv
  BY DEF Init, Host!Init, TableInv, HostOK, LoadsOK, ByeIsFinal
<1>2. QED
  BY <1>1, TableStep, TypeCorrect, PTL DEF Spec

\* A device comes back after its byebye only from a load between the byebye and
\* the end of the HTTPServer, or under way when the byebye was handled.
THEOREM ByeCorrect == Spec => []ByeIsFinal
BY TableInvariant, PTL DEF TableInv
=============================================================================
