------------------------ MODULE DeviceManager_proofs ------------------------
(***************************************************************************)
(* Proofs about DeviceManager, for every set of devices, names and         *)
(* searches.                                                               *)
(***************************************************************************)
EXTENDS DeviceManager, SequenceTheorems, TLAPS

\* Removing position i of a list: what is left, and where.
LEMMA RemoveAtProperties ==
  ASSUME NEW S, NEW q \in Seq(S), NEW i \in 1 .. Len(q)
  PROVE  /\ RemoveAt(q, i) \in Seq(S)
         /\ Len(RemoveAt(q, i)) = Len(q) - 1
         /\ \A j \in 1 .. Len(q) - 1 :
              RemoveAt(q, i)[j] = IF j < i THEN q[j] ELSE q[j + 1]
<1>1. PICK l, r : l = SubSeq(q, 1, i - 1) /\ r = SubSeq(q, i + 1, Len(q))
  OBVIOUS
<1>2. l \in Seq(S) /\ Len(l) = i - 1 /\ \A j \in 1 .. i - 1 : l[j] = q[j]
  BY <1>1
<1>3. r \in Seq(S) /\ Len(r) = Len(q) - i
      /\ \A j \in 1 .. Len(q) - i : r[j] = q[i + j]
  BY <1>1
<1>4. /\ l \o r \in Seq(S)
      /\ Len(l \o r) = Len(q) - 1
      /\ \A j \in 1 .. Len(q) - 1 :
           (l \o r)[j] = IF j <= Len(l) THEN l[j] ELSE r[j - Len(l)]
  BY <1>2, <1>3, ConcatProperties
<1>5. ASSUME NEW j \in 1 .. Len(q) - 1
      PROVE  (l \o r)[j] = IF j < i THEN q[j] ELSE q[j + 1]
  <2>1. CASE j < i
    BY <1>2, <1>4, <2>1
  <2>2. CASE ~(j < i)
    <3>1. (l \o r)[j] = r[j - (i - 1)] /\ j - (i - 1) \in 1 .. Len(q) - i
      BY <1>2, <1>4, <2>2
    <3>2. QED
      BY <1>3, <2>2, <3>1
  <2>3. QED
    BY <2>1, <2>2
<1>6. RemoveAt(q, i) = l \o r
  BY <1>1 DEF RemoveAt
<1>7. QED
  BY <1>4, <1>5, <1>6

\* A thread that adds, or found, a device holds it.
ObjOK ==
  \A t \in Threads :
    pc[t] \in {"addwalk", "append", "erase", "report", "invoke"} =>
      obj[t] \in Objects

TypeInv == TypeOK /\ ObjOK

\* The threads whose delegates are queued wait for them, each for one.
QueueOK ==
  /\ \A i \in 1 .. Len(invoked) : pc[invoked[i]] = "invoke"
  /\ \A i, j \in 1 .. Len(invoked) : invoked[i] = invoked[j] => i = j

\* MoveNext yields a device of the list.
LEMMA CurrentType ==
  ASSUME NEW p \in Nat, NEW v, Yields(p, v), TypeOK
  PROVE  Current(p) \in Objects /\ p + 1 \in 1 .. Len(Devices)
BY DEF Yields, Current, TypeOK

\* MoveNext has one outcome.
LEMMA MoveNextCases ==
  ASSUME NEW p, NEW v
  PROVE  /\ Throws(v) => ~AtEnd(p, v) /\ ~Yields(p, v)
         /\ AtEnd(p, v) => ~Throws(v)
         /\ Yields(p, v) => ~Throws(v)
BY DEF Throws, AtEnd, Yields

LEMMA NameType ==
  ASSUME TypeInv, NEW t \in Threads,
         pc[t] \in {"append", "erase", "report", "invoke"}
  PROVE  Name(t) \in UDNs
BY DevicesAssumption DEF Name, TypeInv, TypeOK, ObjOK

LEMMA Bump ==
  ASSUME NEW f, NEW g, NEW t \in Threads, f \in [Threads -> Nat],
         g = f \/ g = [f EXCEPT ![t] = @ + 1]
  PROVE  g \in [Threads -> Nat]
  OBVIOUS

\* Other threads than those that wait leave the queue alone.
LEMMA QueueSame ==
  ASSUME QueueOK, TypeOK, UNCHANGED invoked, NEW t \in Threads,
         pc[t] # "invoke", \A r \in Threads : r # t => pc'[r] = pc[r]
  PROVE  QueueOK'
<1>1. \A i \in 1 .. Len(invoked) : invoked[i] \in Threads /\ invoked[i] # t
  BY DEF QueueOK, TypeOK
<1>2. QED
  BY <1>1 DEF QueueOK

LEMMA QueueStep ==
  ASSUME TypeOK, QueueOK, [Next]_vars
  PROVE  QueueOK'
<1> USE DEF TypeOK, Goto, Return, window
<1>1. ASSUME NEW t \in Threads,
             \/ BeginAdd(t) \/ \E u \in UDNs : BeginRemove(t, u)
             \/ \E o \in Objects : Loaded(t, o)
             \/ LoadFails(t) \/ AddNext(t) \/ List(t) \/ RemoveNext(t)
             \/ Erase(t) \/ InvokeThrows(t) \/ Done(t)
      PROVE  QueueOK'
  <2>1. UNCHANGED invoked /\ pc[t] # "invoke"
    BY <1>1 DEF BeginAdd, BeginRemove, Loaded, LoadFails, AddNext, List,
       RemoveNext, Erase, InvokeThrows, Done
  <2>2. \A r \in Threads : r # t => pc'[r] = pc[r]
    BY <1>1 DEF BeginAdd, BeginRemove, Loaded, LoadFails, AddNext, List,
       RemoveNext, Erase, InvokeThrows, Done
  <2>3. QED
    BY <2>1, <2>2, QueueSame
<1>2. ASSUME NEW t \in Threads, Invoke(t)
      PROVE  QueueOK'
  <2>1. /\ invoked' = Append(invoked, t) /\ pc[t] = "report"
        /\ pc' = [pc EXCEPT ![t] = "invoke"]
    BY <1>2 DEF Invoke
  <2>2. \A i \in 1 .. Len(invoked) : invoked[i] \in Threads /\ invoked[i] # t
    BY <2>1 DEF QueueOK
  <2>3. /\ Len(invoked) \in Nat /\ Len(invoked') = Len(invoked) + 1
        /\ \A i \in 1 .. Len(invoked) : invoked'[i] = invoked[i]
        /\ invoked'[Len(invoked) + 1] = t
    BY <2>1, AppendProperties
  <2>4. \A i \in 1 .. Len(invoked') :
           i \in 1 .. Len(invoked) \/ i = Len(invoked) + 1
    <3>1. \A n \in Nat : \A i \in 1 .. n + 1 : i \in 1 .. n \/ i = n + 1
      OBVIOUS
    <3>2. QED
      BY <2>3, <3>1
  <2>5. \A i \in 1 .. Len(invoked') : pc'[invoked'[i]] = "invoke"
    BY <2>1, <2>2, <2>3, <2>4 DEF QueueOK
  <2>6. \A i, j \in 1 .. Len(invoked') :
           invoked'[i] = invoked'[j] => i = j
    <3>1. ASSUME NEW i \in 1 .. Len(invoked'), NEW j \in 1 .. Len(invoked'),
                 invoked'[i] = invoked'[j]
          PROVE  i = j
      <4>1. CASE i = Len(invoked) + 1
        BY <2>2, <2>3, <2>4, <3>1, <4>1
      <4>2. CASE j = Len(invoked) + 1
        BY <2>2, <2>3, <2>4, <3>1, <4>2
      <4>3. CASE i \in 1 .. Len(invoked) /\ j \in 1 .. Len(invoked)
        BY <2>3, <3>1, <4>3 DEF QueueOK
      <4>4. QED
        BY <2>4, <4>1, <4>2, <4>3
    <3>2. QED
      BY <3>1
  <2>7. QED
    BY <2>5, <2>6 DEF QueueOK
<1>3. CASE RunDelegate
  <2>1. /\ invoked # <<>> /\ invoked' = Tail(invoked)
        /\ pc' = [pc EXCEPT ![Head(invoked)] = "return"]
    BY <1>3 DEF RunDelegate
  <2>2. /\ Len(invoked') = Len(invoked) - 1
        /\ \A i \in 1 .. Len(invoked') : invoked'[i] = invoked[i + 1]
        /\ Head(invoked) = invoked[1] /\ Len(invoked) \in Nat \ {0}
    BY <2>1, HeadTailProperties, EmptySeq
  <2>3. \A i \in 1 .. Len(invoked') :
           i + 1 \in 1 .. Len(invoked) /\ i + 1 # 1
    BY <2>2
  <2>4. \A i \in 1 .. Len(invoked') :
           invoked'[i] # Head(invoked) /\ invoked'[i] \in Threads
    <3>1. ASSUME NEW i \in 1 .. Len(invoked')
          PROVE  invoked'[i] # Head(invoked) /\ invoked'[i] \in Threads
      <4>1. i + 1 \in 1 .. Len(invoked) /\ 1 \in 1 .. Len(invoked)
        BY <2>2, <2>3
      <4>2. invoked[i + 1] # invoked[1]
        BY <4>1, <2>3 DEF QueueOK
      <4>3. invoked'[i] = invoked[i + 1] /\ Head(invoked) = invoked[1]
        BY <2>2
      <4>4. invoked[i + 1] \in Threads
        BY <4>1
      <4>5. QED
        BY <4>2, <4>3, <4>4
    <3>2. QED
      BY <3>1
  <2>5. \A i \in 1 .. Len(invoked') : pc'[invoked'[i]] = "invoke"
    BY <2>1, <2>2, <2>3, <2>4 DEF QueueOK
  <2>6. \A i, j \in 1 .. Len(invoked') :
           invoked'[i] = invoked'[j] => i = j
    <3>1. ASSUME NEW i \in 1 .. Len(invoked'), NEW j \in 1 .. Len(invoked'),
                 invoked'[i] = invoked'[j]
          PROVE  i = j
      <4>1. invoked[i + 1] = invoked[j + 1]
        BY <2>2, <3>1
      <4>2. i + 1 = j + 1
        BY <4>1, <2>3 DEF QueueOK
      <4>3. i \in Int /\ j \in Int
        BY <2>2
      <4>4. QED
        BY <4>2, <4>3
    <3>2. QED
      BY <3>1
  <2>7. QED
    BY <2>5, <2>6 DEF QueueOK
<1>4. CASE ShowForm
  BY <1>4 DEF ShowForm, locals, QueueOK
<1>5. CASE CloseForm
  <2>1. UNCHANGED invoked /\ pc[UI] # "invoke" /\ UI \in Threads
        /\ \A r \in Threads : r # UI => pc'[r] = pc[r]
    BY <1>5 DEF CloseForm, Threads
  <2>2. QED
    BY <2>1, QueueSame
<1>6. CASE StopListener
  <2>1. \A i \in 1 .. Len(invoked) :
           invoked[i] \in Threads /\ invoked[i] \notin {UI, Listen}
    BY <1>6 DEF StopListener, QueueOK
  <2>2. QED
    BY <1>6, <2>1 DEF StopListener, QueueOK
<1>7. CASE DestroyHandle
  BY <1>7 DEF DestroyHandle, QueueOK
<1>8. CASE UNCHANGED vars
  BY <1>8 DEF vars, locals, QueueOK
<1>9. QED
  BY <1>1, <1>2, <1>3, <1>4, <1>5, <1>6, <1>7, <1>8
     DEF Next, Call, LoadStep, Step, Close

LEMMA TypeStep == TypeInv /\ QueueOK /\ [Next]_vars => TypeInv'
<1> SUFFICES ASSUME TypeInv, QueueOK, [Next]_vars PROVE TypeInv'
  OBVIOUS
<1> USE DevicesAssumption
    DEF TypeInv, TypeOK, ObjOK, list, enum, locals, window, hist, Goto,
        Return
<1>1. ASSUME NEW t \in Threads, BeginAdd(t)
      PROVE  TypeInv'
  BY <1>1 DEF BeginAdd
<1>2. ASSUME NEW t \in Threads, NEW u \in UDNs, BeginRemove(t, u)
      PROVE  TypeInv'
  BY <1>2 DEF BeginRemove, Enumerate
<1>3. ASSUME NEW t \in Threads, NEW o \in Objects, Loaded(t, o)
      PROVE  TypeInv'
  BY <1>3 DEF Loaded, Enumerate
<1>4. ASSUME NEW t \in Threads, LoadFails(t)
      PROVE  TypeInv'
  BY <1>4 DEF LoadFails
<1>5. ASSUME NEW t \in Threads, AddNext(t)
      PROVE  TypeInv'
  <2>1. UDN[obj[t]] \in UDNs
    BY <1>5 DEF AddNext
  <2>2. disturbed' \subseteq UDNs
    BY <1>5, <2>1 DEF AddNext, Disturb
  <2>3. pos' = pos \/ pos' = [pos EXCEPT ![t] = @ + 1]
    BY <1>5 DEF AddNext
  <2>4. \/ UNCHANGED <<pc, outcome>>
        \/ Goto(t, "append") /\ UNCHANGED outcome
        \/ Return(t, "broken") \/ Return(t, "refused")
    BY <1>5 DEF AddNext
  <2>5. /\ pc[t] = "addwalk"
        /\ UNCHANGED <<list, loaded, op, obj, target, ver, window, addedBy>>
    BY <1>5 DEF AddNext
  <2>6. pos' \in [Threads -> Nat]
    BY <2>3, Bump DEF TypeInv, TypeOK
  <2>7. QED
    BY <2>2, <2>4, <2>5, <2>6
<1>6. ASSUME NEW t \in Threads, List(t)
      PROVE  TypeInv'
  <2>1. Append(Devices, obj[t]) \in Seq(Objects)
    BY <1>6, AppendProperties DEF List
  <2>2. QED
    BY <1>6, <2>1 DEF List
<1>7. ASSUME NEW t \in Threads, RemoveNext(t)
      PROVE  TypeInv'
  <2>1. Yields(pos[t], ver[t]) => Current(pos[t]) \in Objects
    BY CurrentType
  <2>2. disturbed' \subseteq UDNs
    BY <1>7 DEF RemoveNext, Disturb
  <2>3. pos' = pos \/ pos' = [pos EXCEPT ![t] = @ + 1]
    BY <1>7 DEF RemoveNext
  <2>4. \/ UNCHANGED <<pc, outcome, obj>>
        \/ (Return(t, "broken") \/ Return(t, "refused")) /\ UNCHANGED obj
        \/ /\ Goto(t, "erase") /\ UNCHANGED outcome
           /\ obj' = [obj EXCEPT ![t] = Current(pos[t])]
           /\ Yields(pos[t], ver[t])
    BY <1>7 DEF RemoveNext
  <2>5. UNCHANGED <<list, loaded, op, target, ver, window, addedBy>>
    BY <1>7 DEF RemoveNext
  <2>6. pos' \in [Threads -> Nat]
    BY <2>3, Bump DEF TypeInv, TypeOK
  <2>7. CASE UNCHANGED <<pc, outcome, obj>>
    BY <2>2, <2>5, <2>6, <2>7
  <2>8. CASE (Return(t, "broken") \/ Return(t, "refused")) /\ UNCHANGED obj
    BY <2>2, <2>5, <2>6, <2>8
  <2>9. CASE /\ Goto(t, "erase") /\ UNCHANGED outcome
             /\ obj' = [obj EXCEPT ![t] = Current(pos[t])]
             /\ Yields(pos[t], ver[t])
    BY <2>1, <2>2, <2>5, <2>6, <2>9
  <2>10. QED
    BY <2>4, <2>7, <2>8, <2>9
<1>8. ASSUME NEW t \in Threads, Erase(t)
      PROVE  TypeInv'
  <2>1. \A i \in 1 .. Len(Devices) : RemoveAt(Devices, i) \in Seq(Objects)
    BY RemoveAtProperties
  <2>2. Devices' \in Seq(Objects) /\ version' \in Nat
    BY <1>8, <2>1 DEF Erase
  <2>3. /\ pc[t] = "erase" /\ Goto(t, "report")
        /\ UNCHANGED <<loaded, op, outcome, obj, target, enum, window, hist>>
    BY <1>8 DEF Erase
  <2>4. QED
    BY <2>2, <2>3
<1>9. ASSUME NEW t \in Threads, Invoke(t)
      PROVE  TypeInv'
  <2>1. Append(invoked, t) \in Seq(Threads)
    BY AppendProperties
  <2>2. QED
    BY <1>9, <2>1 DEF Invoke
<1>10. ASSUME NEW t \in Threads, InvokeThrows(t)
       PROVE  TypeInv'
  <2>1. Name(t) \in UDNs
    BY <1>10, NameType DEF InvokeThrows
  <2>2. QED
    BY <1>10, <2>1 DEF InvokeThrows
<1>11. ASSUME NEW t \in Threads, Done(t)
       PROVE  TypeInv'
  BY <1>11 DEF Done, NoName
<1>12. CASE RunDelegate
  <2>1. Head(invoked) \in Threads /\ Tail(invoked) \in Seq(Threads)
    BY <1>12, HeadTailProperties DEF RunDelegate
  <2>2. PICK t \in Threads : t = Head(invoked) /\ obj[t] \in Objects
    <3>1. pc[Head(invoked)] = "invoke"
      BY <1>12, HeadTailProperties, EmptySeq DEF RunDelegate, QueueOK
    <3>2. QED
      BY <2>1, <3>1
  <2>3. /\ op[t] = "add" => InsertRootDevice(obj[t])
        /\ op[t] # "add" => RemoveRootDevice(obj[t])
        /\ Return(t, "ok")
        /\ invoked' = Tail(invoked)
        /\ UNCHANGED <<list, loaded, op, obj, target, enum, form, hist>>
    BY <1>12, <2>2 DEF RunDelegate
  <2>4. nodes' \subseteq Objects
    BY <2>2, <2>3 DEF InsertRootDevice, RemoveRootDevice
  <2>5. QED
    BY <2>1, <2>3, <2>4
<1>13. CASE ShowForm
  BY <1>13 DEF ShowForm
<1>14. CASE CloseForm
  BY <1>14 DEF CloseForm, Threads
<1>15. CASE StopListener
  BY <1>15 DEF StopListener, Threads, Workers
<1>16. CASE DestroyHandle
  <2>1. \A r \in Waiting : Name(r) \in UDNs
    BY NameType DEF Waiting
  <2>2. <<>> \in Seq(Threads)
    OBVIOUS
  <2>3. QED
    BY <1>16, <2>1, <2>2 DEF DestroyHandle, Waiting
<1>17. CASE UNCHANGED vars
  BY <1>17 DEF vars
<1>18. QED
  BY <1>1, <1>2, <1>3, <1>4, <1>5, <1>6, <1>7, <1>8, <1>9, <1>10, <1>11,
     <1>12, <1>13, <1>14, <1>15, <1>16, <1>17
     DEF Next, Call, LoadStep, Step, Close

LEMMA Typing == Spec => [](TypeInv /\ QueueOK)
<1>1. Init => TypeInv /\ QueueOK
  BY DevicesAssumption
     DEF Init, TypeInv, TypeOK, ObjOK, QueueOK, NoName, Threads
<1>2. TypeInv /\ QueueOK /\ [Next]_vars => TypeInv' /\ QueueOK'
  BY TypeStep, QueueStep DEF TypeInv
<1>3. QED
  BY <1>1, <1>2, PTL DEF Spec

\* Every variable keeps its type.
THEOREM TypeCorrect == Spec => []TypeOK
<1>1. TypeInv => TypeOK
  BY DEF TypeInv
<1>2. QED
  BY <1>1, Typing, PTL

-----------------------------------------------------------------------------
(* Devices of one name are listed by different threads.  Inductive: what a *)
(* thread that walks, or is about to append, knows of the list.            *)

\* An enumerator starts from a version of the list that was.
VersionsOK == \A t \in Threads : ver[t] <= version

Adding(t) == pc[t] \in {"addwalk", "append"}

\* A device that is being added is in no other thread's hands, and not listed.
FreshOK ==
  /\ \A i \in 1 .. Len(Devices) : Devices[i] \in loaded
  /\ \A t \in Threads : Adding(t) => obj[t] \in loaded /\ ~Lists(obj[t])
  /\ \A t, r \in Threads : (t # r /\ Adding(t) /\ Adding(r)) => obj[t] # obj[r]

\* What AddDevice has compared, in a list that did not change since.
WalkOK ==
  \A t \in Threads : (pc[t] = "addwalk" /\ ver[t] = version) =>
    \A i \in 1 .. Len(Devices) :
      i <= pos[t] => UDN[Devices[i]] # UDN[obj[t]]

\* A thread past the comparison did not list the name itself.
AppendOK ==
  \A t \in Threads : pc[t] = "append" =>
    \A i \in 1 .. Len(Devices) :
      UDN[Devices[i]] = UDN[obj[t]] => addedBy[Devices[i]] # t

TwinInv ==
  VersionsOK /\ FreshOK /\ WalkOK /\ AppendOK /\ TwinsComeFromTwoThreads

\* A step that changes neither the list nor what the adding threads know.
LEMMA TwinSame ==
  ASSUME TypeInv, TwinInv,
         UNCHANGED <<list, addedBy>>, loaded \subseteq loaded',
         \A t \in Threads :
           /\ ver'[t] <= version
           /\ Adding(t)' => /\ pc'[t] = pc[t] /\ obj'[t] = obj[t]
                            /\ pos'[t] = pos[t] /\ ver'[t] = ver[t]
  PROVE  TwinInv'
<1> USE DEF list
<1>1. \A t \in Threads : Adding(t)' => Adding(t)
  BY DEF Adding
<1>2. VersionsOK'
  BY DEF VersionsOK
<1>3. FreshOK'
  BY <1>1 DEF TwinInv, FreshOK, Lists, Adding
<1>4. WalkOK'
  BY DEF TwinInv, WalkOK, Adding
<1>5. AppendOK'
  BY DEF TwinInv, AppendOK, Adding
<1>6. TwinsComeFromTwoThreads'
  BY DEF TwinInv, TwinsComeFromTwoThreads
<1>7. QED
  BY <1>2, <1>3, <1>4, <1>5, <1>6 DEF TwinInv

LEMMA TwinLoaded ==
  ASSUME TypeInv, TwinInv, NEW t \in Threads, NEW o \in Objects, Loaded(t, o)
  PROVE  TwinInv'
<1> USE DEF list, enum, hist
<1>1. /\ UNCHANGED <<list, addedBy>> /\ loaded' = loaded \cup {o}
      /\ o \notin loaded
      /\ obj'[t] = o /\ pc'[t] = "addwalk" /\ pos'[t] = 0 /\ ver'[t] = version
      /\ \A r \in Threads : r # t =>
           /\ pc'[r] = pc[r] /\ obj'[r] = obj[r]
           /\ pos'[r] = pos[r] /\ ver'[r] = ver[r]
  BY DEF Loaded, Goto, Enumerate, TypeInv, TypeOK
<1>2. version \in Nat
  BY DEF TypeInv, TypeOK
<1>3. VersionsOK'
  BY <1>1, <1>2 DEF TwinInv, VersionsOK
<1>4. FreshOK'
  BY <1>1 DEF TwinInv, FreshOK, Lists, Adding
<1>5. WalkOK'
  BY <1>1 DEF TwinInv, WalkOK
<1>6. AppendOK'
  BY <1>1 DEF TwinInv, AppendOK
<1>7. TwinsComeFromTwoThreads'
  BY <1>1 DEF TwinInv, TwinsComeFromTwoThreads
<1>8. QED
  BY <1>3, <1>4, <1>5, <1>6, <1>7 DEF TwinInv

\* Its walk has compared one more device, or all of them.
LEMMA TwinWalk ==
  ASSUME TypeInv, TwinInv, NEW t \in Threads, AddNext(t)
  PROVE  TwinInv'
<1> USE DEF list, hist
<1>1. /\ UNCHANGED <<list, loaded, addedBy, obj, ver>> /\ pc[t] = "addwalk"
      /\ \A r \in Threads : r # t => pc'[r] = pc[r] /\ pos'[r] = pos[r]
  BY DEF AddNext, Goto, Return, TypeInv, TypeOK
<1>2. \/ pc'[t] = "return"
      \/ /\ Yields(pos[t], ver[t]) /\ UDN[Current(pos[t])] # UDN[obj[t]]
         /\ pc'[t] = pc[t] /\ pos'[t] = pos[t] + 1
      \/ AtEnd(pos[t], ver[t]) /\ pc'[t] = "append"
  BY DEF AddNext, Goto, Return, TypeInv, TypeOK
<1>3. \A r \in Threads : Adding(r)' => Adding(r)
  BY <1>1 DEF Adding
<1>4. VersionsOK'
  BY <1>1 DEF TwinInv, VersionsOK
<1>5. FreshOK'
  BY <1>1, <1>3 DEF TwinInv, FreshOK, Lists
<1>6. TwinsComeFromTwoThreads'
  BY <1>1 DEF TwinInv, TwinsComeFromTwoThreads
<1>7. pos[t] \in Nat /\ Len(Devices) \in Nat
  BY DEF TypeInv, TypeOK
<1>8. CASE pc'[t] = "return"
  <2>1. WalkOK'
    BY <1>1, <1>8 DEF TwinInv, WalkOK
  <2>2. AppendOK'
    BY <1>1, <1>8 DEF TwinInv, AppendOK
  <2>3. QED
    BY <1>4, <1>5, <1>6, <2>1, <2>2 DEF TwinInv
<1>9. CASE /\ Yields(pos[t], ver[t]) /\ UDN[Current(pos[t])] # UDN[obj[t]]
           /\ pc'[t] = pc[t] /\ pos'[t] = pos[t] + 1
  <2>1. ver[t] = version
    BY <1>9 DEF Yields
  <2>2. \A i \in 1 .. Len(Devices) :
           i <= pos[t] + 1 => UDN[Devices[i]] # UDN[obj[t]]
    <3>1. ASSUME NEW i \in 1 .. Len(Devices), i <= pos[t] + 1
          PROVE  UDN[Devices[i]] # UDN[obj[t]]
      <4>1. i <= pos[t] \/ i = pos[t] + 1
        BY <1>7, <3>1
      <4>2. QED
        BY <1>1, <1>9, <2>1, <4>1 DEF TwinInv, WalkOK, Current
    <3>2. QED
      BY <3>1
  <2>3. WalkOK'
    BY <1>1, <1>9, <2>2 DEF TwinInv, WalkOK
  <2>4. AppendOK'
    BY <1>1, <1>9 DEF TwinInv, AppendOK
  <2>5. QED
    BY <1>4, <1>5, <1>6, <2>3, <2>4 DEF TwinInv
<1>10. CASE AtEnd(pos[t], ver[t]) /\ pc'[t] = "append"
  <2>1. \A i \in 1 .. Len(Devices) : UDN[Devices[i]] # UDN[obj[t]]
    BY <1>1, <1>7, <1>10 DEF AtEnd, TwinInv, WalkOK
  <2>2. WalkOK'
    BY <1>1, <1>10 DEF TwinInv, WalkOK
  <2>3. AppendOK'
    BY <1>1, <1>10, <2>1 DEF TwinInv, AppendOK
  <2>4. QED
    BY <1>4, <1>5, <1>6, <2>2, <2>3 DEF TwinInv
<1>11. QED
  BY <1>2, <1>8, <1>9, <1>10

\* The device is appended: its name's other devices are of other threads.
LEMMA TwinList ==
  ASSUME TypeInv, TwinInv, NEW t \in Threads, List(t)
  PROVE  TwinInv'
<1> DEFINE n == Len(Devices) + 1
<1> USE DEF enum, hist
<1>1. /\ pc[t] = "append" /\ obj[t] \in Objects
      /\ UNCHANGED <<loaded, obj, pos, ver>>
      /\ pc'[t] = "report"
      /\ \A r \in Threads : r # t => pc'[r] = pc[r]
  BY DEF List, Goto, TypeInv, TypeOK, ObjOK
<1>2. version \in Nat /\ version' = version + 1
      /\ \A r \in Threads : ver[r] \in Nat
  BY DEF List, TypeInv, TypeOK
<1>3. /\ Len(Devices) \in Nat /\ Len(Devices') = n
      /\ \A i \in 1 .. Len(Devices) : Devices'[i] = Devices[i]
      /\ Devices'[n] = obj[t]
  BY <1>1, AppendProperties DEF List, TypeInv, TypeOK
<1>4. \A i \in 1 .. n : i \in 1 .. Len(Devices) \/ i = n
  BY <1>3
<1>5. /\ addedBy'[obj[t]] = t
      /\ \A o \in Objects : o # obj[t] => addedBy'[o] = addedBy[o]
  BY <1>1 DEF List, TypeInv, TypeOK
<1>6. \A i \in 1 .. Len(Devices) :
         Devices[i] \in Objects /\ addedBy'[Devices[i]] = addedBy[Devices[i]]
  BY <1>1, <1>5 DEF TwinInv, FreshOK, Adding, Lists, TypeInv, TypeOK
<1> HIDE DEF n
<1>7. VersionsOK'
  BY <1>1, <1>2 DEF TwinInv, VersionsOK
<1>8. \A r \in Threads : Adding(r)' => Adding(r) /\ r # t
  BY <1>1 DEF Adding
<1>9. Adding(t) /\ obj[t] \in loaded
  BY <1>1 DEF TwinInv, FreshOK, Adding
<1>10. FreshOK'
  <2>1. \A i \in 1 .. n : Devices'[i] \in loaded
    BY <1>3, <1>4, <1>9 DEF TwinInv, FreshOK
  <2>2. ASSUME NEW r \in Threads, Adding(r)'
        PROVE  obj[r] \in loaded /\ ~Lists(obj[r])'
    <3>1. obj[r] # obj[t] /\ obj[r] \in loaded /\ ~Lists(obj[r])
      BY <1>8, <1>9, <2>2 DEF TwinInv, FreshOK
    <3>2. QED
      BY <1>1, <1>3, <1>4, <3>1 DEF Lists
  <2>3. QED
    BY <1>1, <1>3, <1>8, <2>1, <2>2 DEF TwinInv, FreshOK
<1>11. WalkOK'
  <2>1. \A r \in Threads : ver'[r] # version'
    BY <1>1, <1>2 DEF TwinInv, VersionsOK
  <2>2. QED
    BY <2>1 DEF WalkOK
<1>12. AppendOK'
  <2>1. ASSUME NEW r \in Threads, pc'[r] = "append", NEW i \in 1 .. n,
               UDN[Devices'[i]] = UDN[obj[r]]
        PROVE  addedBy'[Devices'[i]] # r
    BY <1>1, <1>3, <1>4, <1>5, <1>6, <2>1 DEF TwinInv, AppendOK
  <2>2. QED
    BY <1>1, <1>3, <2>1 DEF AppendOK
<1>13. TwinsComeFromTwoThreads'
  <2>1. \A i \in 1 .. Len(Devices) :
           UDN[Devices[i]] = UDN[obj[t]] => addedBy'[Devices[i]] # t
    BY <1>1, <1>6 DEF TwinInv, AppendOK
  <2>2. ASSUME NEW i \in 1 .. n, NEW j \in 1 .. n, i # j,
               UDN[Devices'[i]] = UDN[Devices'[j]]
        PROVE  addedBy'[Devices'[i]] # addedBy'[Devices'[j]]
    <3>1. CASE i = n
      BY <3>1, <1>3, <1>4, <1>5, <2>1, <2>2
    <3>2. CASE j = n
      BY <3>2, <1>3, <1>4, <1>5, <2>1, <2>2
    <3>3. CASE i # n /\ j # n
      BY <3>3, <1>3, <1>4, <1>6, <2>2 DEF TwinInv, TwinsComeFromTwoThreads
    <3>4. QED
      BY <3>1, <3>2, <3>3
  <2>3. QED
    BY <1>3, <2>2 DEF TwinsComeFromTwoThreads
<1>14. QED
  BY <1>7, <1>10, <1>11, <1>12, <1>13 DEF TwinInv

\* A device is removed: what is left was listed before.
LEMMA TwinErase ==
  ASSUME TypeInv, TwinInv, NEW t \in Threads, Erase(t)
  PROVE  TwinInv'
<1> USE DEF list, enum, hist
<1>1. /\ UNCHANGED <<loaded, obj, pos, ver, addedBy>>
      /\ pc[t] = "erase" /\ pc'[t] = "report"
      /\ \A r \in Threads : r # t => pc'[r] = pc[r]
  BY DEF Erase, Goto, TypeInv, TypeOK
<1>2. \A r \in Threads : Adding(r)' => Adding(r) /\ pc'[r] = pc[r]
  BY <1>1 DEF Adding
<1>3. CASE UNCHANGED list
  BY <1>1, <1>2, <1>3, TwinSame DEF TwinInv, VersionsOK
<1>4. CASE \E i \in 1 .. Len(Devices) :
             /\ Devices' = RemoveAt(Devices, i)
             /\ version' = version + 1
  <2>1. PICK k \in 1 .. Len(Devices) : Devices' = RemoveAt(Devices, k)
    BY <1>4
  <2>2. /\ Len(Devices) \in Nat
        /\ Len(Devices') = Len(Devices) - 1
        /\ \A i \in 1 .. Len(Devices') :
             Devices'[i] = IF i < k THEN Devices[i] ELSE Devices[i + 1]
    <3>1. Devices \in Seq(Objects)
      BY DEF TypeInv, TypeOK
    <3>2. /\ Len(RemoveAt(Devices, k)) = Len(Devices) - 1
          /\ \A i \in 1 .. Len(Devices) - 1 :
               RemoveAt(Devices, k)[i] =
                 IF i < k THEN Devices[i] ELSE Devices[i + 1]
      BY <3>1, RemoveAtProperties
    <3>3. QED
      BY <2>1, <3>1, <3>2
  <2> DEFINE old(i) == IF i < k THEN i ELSE i + 1
  <2>3. \A i \in 1 .. Len(Devices') :
           old(i) \in 1 .. Len(Devices) /\ Devices'[i] = Devices[old(i)]
    BY <2>2
  <2>4. \A i, j \in 1 .. Len(Devices') : old(i) = old(j) => i = j
    BY <2>2
  <2> HIDE DEF old
  <2>5. version \in Nat /\ version' = version + 1
        /\ \A r \in Threads : ver[r] \in Nat
    BY <1>4 DEF TypeInv, TypeOK
  <2>6. VersionsOK'
    BY <1>1, <2>5 DEF TwinInv, VersionsOK
  <2>7. FreshOK'
    <3>1. \A o : Lists(o)' => Lists(o)
      BY <2>3 DEF Lists
    <3>2. \A i \in 1 .. Len(Devices') : Devices'[i] \in loaded
      BY <2>3 DEF TwinInv, FreshOK
    <3>3. ASSUME NEW r \in Threads, Adding(r)'
          PROVE  obj[r] \in loaded /\ ~Lists(obj[r])'
      <4>1. obj[r] \in loaded /\ ~Lists(obj[r])
        BY <1>2, <3>3 DEF TwinInv, FreshOK
      <4>2. QED
        BY <1>1, <3>1, <4>1 DEF Lists
    <3>4. \A r, s \in Threads :
             (r # s /\ Adding(r)' /\ Adding(s)') => obj[r] # obj[s]
      BY <1>2 DEF TwinInv, FreshOK
    <3>5. QED
      BY <1>1, <3>2, <3>3, <3>4 DEF FreshOK
  <2>8. WalkOK'
    <3>1. \A r \in Threads : ver'[r] # version'
      BY <1>1, <2>5 DEF TwinInv, VersionsOK
    <3>2. QED
      BY <3>1 DEF WalkOK
  <2>9. AppendOK'
    BY <1>1, <1>2, <2>3 DEF TwinInv, AppendOK, Adding
  <2>10. TwinsComeFromTwoThreads'
    BY <1>1, <2>3, <2>4 DEF TwinInv, TwinsComeFromTwoThreads
  <2>11. QED
    BY <2>6, <2>7, <2>8, <2>9, <2>10 DEF TwinInv
<1>5. QED
  BY <1>3, <1>4 DEF Erase

LEMMA TwinStep ==
  ASSUME TypeInv, TwinInv, [Next]_vars
  PROVE  TwinInv'
<1> USE DEF list, enum, locals, window, hist, Goto, Return
<1>1. version \in Nat /\ \A r \in Threads : ver[r] <= version
  BY DEF TypeInv, TypeOK, TwinInv, VersionsOK
<1>2. ASSUME NEW t \in Threads,
             \/ BeginAdd(t) \/ \E u \in UDNs : BeginRemove(t, u)
             \/ LoadFails(t) \/ RemoveNext(t) \/ Invoke(t) \/ InvokeThrows(t)
             \/ Done(t)
      PROVE  TwinInv'
  <2>1. /\ UNCHANGED <<list, addedBy, loaded>>
        /\ pc'[t] \notin {"addwalk", "append"}
        /\ ver'[t] \in {ver[t], version, 0}
        /\ \A r \in Threads : r # t =>
             /\ pc'[r] = pc[r] /\ obj'[r] = obj[r]
             /\ pos'[r] = pos[r] /\ ver'[r] = ver[r]
    <3>1. CASE BeginAdd(t)
      BY <3>1 DEF BeginAdd, TypeInv, TypeOK
    <3>2. CASE \E u \in UDNs : BeginRemove(t, u)
      BY <3>2 DEF BeginRemove, Enumerate, TypeInv, TypeOK
    <3>3. CASE LoadFails(t)
      BY <3>3 DEF LoadFails, TypeInv, TypeOK
    <3>4. CASE RemoveNext(t)
      BY <3>4 DEF RemoveNext, TypeInv, TypeOK
    <3>5. CASE Invoke(t)
      BY <3>5 DEF Invoke, TypeInv, TypeOK
    <3>6. CASE InvokeThrows(t)
      BY <3>6 DEF InvokeThrows, TypeInv, TypeOK
    <3>7. CASE Done(t)
      BY <3>7 DEF Done, TypeInv, TypeOK
    <3>8. QED
      BY <1>2, <3>1, <3>2, <3>3, <3>4, <3>5, <3>6, <3>7
  <2>2. \A r \in Threads : ver'[r] <= version
    BY <1>1, <2>1
  <2>3. QED
    BY <2>1, <2>2, TwinSame DEF Adding
<1>3. ASSUME /\ UNCHANGED <<list, addedBy, loaded, obj, pos, ver>>
             /\ \A r \in Threads :
                  pc'[r] \in {"addwalk", "append"} => pc'[r] = pc[r]
      PROVE  TwinInv'
  BY <1>1, <1>3, TwinSame DEF Adding
<1>4. CASE RunDelegate
  BY <1>3, <1>4 DEF RunDelegate, TypeInv, TypeOK
<1>5. CASE ShowForm
  BY <1>3, <1>5 DEF ShowForm
<1>6. CASE CloseForm
  BY <1>3, <1>6 DEF CloseForm, TypeInv, TypeOK
<1>7. CASE StopListener
  BY <1>3, <1>7 DEF StopListener, TypeInv, TypeOK
<1>8. CASE DestroyHandle
  BY <1>3, <1>8 DEF DestroyHandle, TypeInv, TypeOK
<1>9. CASE UNCHANGED vars
  BY <1>3, <1>9 DEF vars
<1>10. QED
  BY <1>2, <1>4, <1>5, <1>6, <1>7, <1>8, <1>9,
     TwinLoaded, TwinWalk, TwinList, TwinErase
     DEF Next, Call, LoadStep, Step, Close

LEMMA Twinning == Spec => []TwinInv
<1>1. Init => TwinInv
  BY DEF Init, TwinInv, VersionsOK, FreshOK, WalkOK, AppendOK,
     TwinsComeFromTwoThreads, Adding
<1>2. TypeInv /\ TwinInv /\ [Next]_vars => TwinInv'
  BY TwinStep
<1>3. QED
  BY <1>1, <1>2, Typing, PTL DEF Spec

\* Devices listed under one name come from different threads: the comparison
\* of AddDevice fails only against another thread's Add.
THEOREM TwinsCorrect == Spec => []TwinsComeFromTwoThreads
<1>1. TwinInv => TwinsComeFromTwoThreads
  BY DEF TwinInv
<1>2. QED
  BY <1>1, Twinning, PTL

-----------------------------------------------------------------------------
(* A call is refused only for what the list holds.  Inductive: what the    *)
(* walk of RemoveDevice has compared, besides that of AddDevice (WalkOK).  *)

OpOK ==
  \A t \in Threads :
    /\ pc[t] \in {"load", "addwalk"} => op[t] = "add"
    /\ pc[t] = "removewalk" => op[t] = "remove"

RemoveWalkOK ==
  \A t \in Threads : (pc[t] = "removewalk" /\ ver[t] = version) =>
    \A i \in 1 .. Len(Devices) : i <= pos[t] => UDN[Devices[i]] # target[t]

RefusalInv == OpOK /\ RemoveWalkOK /\ RefusalIsRight

\* A step that leaves the list and the refused threads alone, or changes the
\* list's version.
LEMMA RefusalSame ==
  ASSUME TypeInv, RefusalInv, NEW t \in Threads,
         UNCHANGED list \/ \A r \in Threads : ver'[r] # version',
         \A r \in Threads : r # t =>
           /\ pc'[r] = pc[r] /\ outcome'[r] = outcome[r] /\ op'[r] = op[r]
           /\ obj'[r] = obj[r] /\ target'[r] = target[r]
           /\ pos'[r] = pos[r] /\ ver'[r] = ver[r],
         /\ pc'[t] \in {"load", "addwalk"} => op'[t] = "add"
         /\ pc'[t] = "removewalk" =>
              /\ op'[t] = "remove"
              /\ ver'[t] = version' =>
                   \A i \in 1 .. Len(Devices') :
                     i <= pos'[t] => UDN[Devices'[i]] # target'[t]
         /\ (pc'[t] = "return" /\ outcome'[t] = "refused") =>
              Throws(ver[t])' \/ ((op'[t] = "add") = ListsName(Name(t))')
  PROVE  RefusalInv'
<1>1. OpOK'
  BY DEF RefusalInv, OpOK
<1>2. RemoveWalkOK'
  BY DEF RefusalInv, RemoveWalkOK, list
<1>3. RefusalIsRight'
  <2>1. ASSUME NEW r \in Threads, r # t,
               pc'[r] = "return", outcome'[r] = "refused"
        PROVE  Throws(ver[r])' \/ ((op'[r] = "add") = ListsName(Name(r))')
    <3>1. Throws(ver[r]) \/ ((op[r] = "add") = ListsName(Name(r)))
      BY <2>1 DEF RefusalInv, RefusalIsRight
    <3>2. CASE UNCHANGED list
      <4>1. Name(r)' = Name(r)
        BY <2>1 DEF Name
      <4>2. QED
        BY <2>1, <3>1, <3>2, <4>1 DEF Throws, ListsName, list
    <3>3. CASE \A s \in Threads : ver'[s] # version'
      BY <3>3 DEF Throws
    <3>4. QED
      BY <3>2, <3>3
  <2>2. QED
    BY <2>1 DEF RefusalIsRight
<1>4. QED
  BY <1>1, <1>2, <1>3 DEF RefusalInv

LEMMA RefusalStep ==
  ASSUME TypeInv, QueueOK, TwinInv, RefusalInv, [Next]_vars
  PROVE  RefusalInv'
<1> USE DEF list, enum, locals, window, hist, Goto, Return
<1>1. \A r \in Threads : ver[r] <= version /\ ver[r] \in Nat
  BY DEF TwinInv, VersionsOK, TypeInv, TypeOK
<1>2. version \in Nat /\ Len(Devices) \in Nat
      /\ \A r \in Threads : pos[r] \in Nat
  BY DEF TypeInv, TypeOK
<1>3. ASSUME NEW t \in Threads,
             \/ BeginAdd(t) \/ LoadFails(t) \/ \E o \in Objects : Loaded(t, o)
             \/ Invoke(t) \/ InvokeThrows(t) \/ Done(t)
      PROVE  RefusalInv'
  <2>1. /\ UNCHANGED list
        /\ pc'[t] # "removewalk"
        /\ pc'[t] = "return" => outcome'[t] # "refused"
        /\ \A r \in Threads : r # t =>
             /\ pc'[r] = pc[r] /\ outcome'[r] = outcome[r] /\ op'[r] = op[r]
             /\ obj'[r] = obj[r] /\ target'[r] = target[r]
             /\ pos'[r] = pos[r] /\ ver'[r] = ver[r]
        /\ pc'[t] \in {"load", "addwalk"} =>
             op'[t] = "add" \/ (pc[t] = "load" /\ op'[t] = op[t])
    <3>1. CASE BeginAdd(t)
      BY <3>1 DEF BeginAdd, TypeInv, TypeOK
    <3>2. CASE LoadFails(t)
      BY <3>2 DEF LoadFails, TypeInv, TypeOK
    <3>3. CASE \E o \in Objects : Loaded(t, o)
      BY <3>3 DEF Loaded, Enumerate, TypeInv, TypeOK
    <3>4. CASE Invoke(t)
      BY <3>4 DEF Invoke, TypeInv, TypeOK
    <3>5. CASE InvokeThrows(t)
      BY <3>5 DEF InvokeThrows, TypeInv, TypeOK
    <3>6. CASE Done(t)
      BY <3>6 DEF Done, TypeInv, TypeOK
    <3>7. QED
      BY <1>3, <3>1, <3>2, <3>3, <3>4, <3>5, <3>6
  <2>2. pc'[t] \in {"load", "addwalk"} => op'[t] = "add"
    BY <2>1 DEF RefusalInv, OpOK
  <2>3. QED
    BY <2>1, <2>2, RefusalSame
<1>4. ASSUME NEW t \in Threads, NEW u \in UDNs, BeginRemove(t, u)
      PROVE  RefusalInv'
  <2>1. /\ UNCHANGED list
        /\ pc'[t] = "removewalk" /\ op'[t] = "remove" /\ pos'[t] = 0
        /\ \A r \in Threads : r # t =>
             /\ pc'[r] = pc[r] /\ outcome'[r] = outcome[r] /\ op'[r] = op[r]
             /\ obj'[r] = obj[r] /\ target'[r] = target[r]
             /\ pos'[r] = pos[r] /\ ver'[r] = ver[r]
    BY <1>4 DEF BeginRemove, Enumerate, TypeInv, TypeOK
  <2>2. \A i \in 1 .. Len(Devices') : ~(i <= pos'[t])
    BY <2>1
  <2>3. QED
    BY <2>1, <2>2, RefusalSame
<1>5. ASSUME NEW t \in Threads, AddNext(t)
      PROVE  RefusalInv'
  <2>1. /\ UNCHANGED <<list, op, obj, target, ver>> /\ op[t] = "add"
        /\ \A r \in Threads : r # t =>
             pc'[r] = pc[r] /\ outcome'[r] = outcome[r] /\ pos'[r] = pos[r]
    BY <1>5 DEF AddNext, RefusalInv, OpOK, TypeInv, TypeOK
  <2>2. /\ pc'[t] # "removewalk" /\ pc'[t] # "load"
        /\ (pc'[t] = "return" /\ outcome'[t] = "refused") =>
             Yields(pos[t], ver[t]) /\ UDN[Current(pos[t])] = UDN[obj[t]]
    BY <1>5 DEF AddNext, TypeInv, TypeOK
  <2>3. (pc'[t] = "return" /\ outcome'[t] = "refused") => ListsName(Name(t))'
    <3>1. SUFFICES ASSUME pc'[t] = "return", outcome'[t] = "refused"
                   PROVE  ListsName(Name(t))'
      OBVIOUS
    <3>2. /\ pos[t] + 1 \in 1 .. Len(Devices)
          /\ UDN[Devices[pos[t] + 1]] = UDN[obj[t]]
      BY <1>2, <2>2, <3>1 DEF Yields, Current
    <3>3. Name(t)' = UDN[obj[t]]
      BY <2>1 DEF Name
    <3>4. QED
      BY <2>1, <3>2, <3>3 DEF ListsName
  <2>4. QED
    BY <2>1, <2>2, <2>3, RefusalSame
<1>6. ASSUME NEW t \in Threads, RemoveNext(t)
      PROVE  RefusalInv'
  <2>1. /\ UNCHANGED <<list, op, target, ver>>
        /\ pc[t] = "removewalk" /\ op[t] = "remove"
        /\ \A r \in Threads : r # t =>
             /\ pc'[r] = pc[r] /\ outcome'[r] = outcome[r]
             /\ pos'[r] = pos[r] /\ obj'[r] = obj[r]
    BY <1>6 DEF RemoveNext, RefusalInv, OpOK, TypeInv, TypeOK
  <2>2. /\ pc'[t] \notin {"load", "addwalk"}
        /\ pc'[t] = "removewalk" =>
             /\ Yields(pos[t], ver[t]) /\ UDN[Current(pos[t])] # target[t]
             /\ pos'[t] = pos[t] + 1
        /\ (pc'[t] = "return" /\ outcome'[t] = "refused") =>
             AtEnd(pos[t], ver[t])
    BY <1>6 DEF RemoveNext, TypeInv, TypeOK
  <2>3. ver[t] = version =>
          \A i \in 1 .. Len(Devices) :
            i <= pos[t] => UDN[Devices[i]] # target[t]
    BY <2>1 DEF RefusalInv, RemoveWalkOK
  <2>4. pc'[t] = "removewalk" =>
          \A i \in 1 .. Len(Devices) :
            i <= pos'[t] => UDN[Devices[i]] # target[t]
    <3>1. SUFFICES ASSUME pc'[t] = "removewalk", NEW i \in 1 .. Len(Devices),
                          i <= pos'[t]
                   PROVE  UDN[Devices[i]] # target[t]
      OBVIOUS
    <3>2. i <= pos[t] \/ i = pos[t] + 1
      BY <1>2, <2>2, <3>1
    <3>3. QED
      BY <2>2, <2>3, <3>1, <3>2 DEF Yields, Current
  <2>5. (pc'[t] = "return" /\ outcome'[t] = "refused") => ~ListsName(Name(t))'
    <3>1. SUFFICES ASSUME AtEnd(pos[t], ver[t]) PROVE ~ListsName(Name(t))'
      BY <2>2
    <3>2. \A i \in 1 .. Len(Devices) : UDN[Devices[i]] # target[t]
      BY <1>2, <2>3, <3>1 DEF AtEnd
    <3>3. Name(t)' = target[t]
      BY <2>1 DEF Name
    <3>4. QED
      BY <2>1, <3>2, <3>3 DEF ListsName
  <2>6. (pc'[t] = "return" /\ outcome'[t] = "refused") =>
          Throws(ver[t])' \/ ((op'[t] = "add") = ListsName(Name(t))')
    <3>1. op'[t] # "add"
      BY <2>1
    <3>2. QED
      BY <2>5, <3>1 DEF ListsName
  <2>7. UNCHANGED list
    BY <2>1
  <2>8. \A r \in Threads : r # t =>
           /\ pc'[r] = pc[r] /\ outcome'[r] = outcome[r] /\ op'[r] = op[r]
           /\ obj'[r] = obj[r] /\ target'[r] = target[r]
           /\ pos'[r] = pos[r] /\ ver'[r] = ver[r]
    BY <2>1
  <2>9. pc'[t] = "removewalk" =>
          /\ op'[t] = "remove"
          /\ ver'[t] = version' =>
               \A i \in 1 .. Len(Devices') :
                 i <= pos'[t] => UDN[Devices'[i]] # target'[t]
    BY <2>1, <2>4
  <2>10. QED
    BY <2>2, <2>6, <2>7, <2>8, <2>9, RefusalSame
<1>7. ASSUME NEW t \in Threads, List(t) \/ Erase(t)
      PROVE  RefusalInv'
  <2>1. /\ UNCHANGED <<op, outcome, obj, target, enum>>
        /\ UNCHANGED list \/ version' = version + 1
        /\ pc'[t] = "report"
        /\ \A r \in Threads : r # t => pc'[r] = pc[r]
    <3>1. CASE List(t)
      BY <3>1 DEF List, TypeInv, TypeOK
    <3>2. CASE Erase(t)
      BY <3>2 DEF Erase, TypeInv, TypeOK
    <3>3. QED
      BY <1>7, <3>1, <3>2
  <2>2. UNCHANGED list \/ \A r \in Threads : ver'[r] # version'
    BY <1>1, <1>2, <2>1
  <2>3. QED
    BY <2>1, <2>2, RefusalSame
<1>8. ASSUME /\ UNCHANGED <<list, op, obj, target, pos, ver>>
             /\ \A r \in Threads :
                  \/ pc'[r] = pc[r] /\ outcome'[r] = outcome[r]
                  \/ /\ pc'[r] \notin {"load", "addwalk", "removewalk"}
                     /\ pc'[r] = "return" => outcome'[r] # "refused"
      PROVE  RefusalInv'
  <2>1. OpOK' /\ RemoveWalkOK'
    BY <1>8 DEF RefusalInv, OpOK, RemoveWalkOK
  <2>2. \A r \in Threads : Name(r)' = Name(r)
    BY <1>8 DEF Name
  <2>3. RefusalIsRight'
    BY <1>8, <2>2 DEF RefusalInv, RefusalIsRight, ListsName, Throws
  <2>4. QED
    BY <2>1, <2>3 DEF RefusalInv
<1>9. CASE RunDelegate
  <2>1. PICK t \in Threads : t = Head(invoked)
    BY <1>9, HeadTailProperties DEF RunDelegate, TypeInv, TypeOK
  <2>2. QED
    BY <1>8, <1>9, <2>1 DEF RunDelegate, TypeInv, TypeOK
<1>10. CASE ShowForm
  BY <1>8, <1>10 DEF ShowForm
<1>11. CASE CloseForm
  BY <1>8, <1>11 DEF CloseForm, TypeInv, TypeOK
<1>12. CASE StopListener
  BY <1>8, <1>12 DEF StopListener, TypeInv, TypeOK
<1>13. CASE DestroyHandle
  BY <1>8, <1>13 DEF DestroyHandle, Waiting, TypeInv, TypeOK
<1>14. CASE UNCHANGED vars
  BY <1>8, <1>14 DEF vars
<1>15. QED
  BY <1>3, <1>4, <1>5, <1>6, <1>7, <1>9, <1>10, <1>11, <1>12, <1>13, <1>14
     DEF Next, Call, LoadStep, Step, Close

\* AddDevice refuses only a device that the list holds, and RemoveDevice only
\* a name that it does not hold, unless the list changed after the walk.
THEOREM RefusalCorrect == Spec => []RefusalIsRight
<1>1. Init => RefusalInv
  BY DEF Init, RefusalInv, OpOK, RemoveWalkOK, RefusalIsRight
<1>2. TypeInv /\ QueueOK /\ TwinInv /\ RefusalInv /\ [Next]_vars => RefusalInv'
  BY RefusalStep
<1>3. RefusalInv => RefusalIsRight
  BY DEF RefusalInv
<1>4. QED
  BY <1>1, <1>2, <1>3, Typing, Twinning, PTL DEF Spec

-----------------------------------------------------------------------------
(* The tree shows what the list holds.  Inductive: what a call that is     *)
(* under way has done, in the list and not yet in the tree, as long as the *)
(* calls about a name do not overlap.                                      *)

InChange(t) == pc[t] \in {"append", "erase", "report", "invoke"}

\* The call under way and the device agree.
ChangeOK ==
  \A t \in Threads : InChange(t) =>
    /\ op[t] \in {"add", "remove"}
    /\ pc[t] = "append" => op[t] = "add"
    /\ pc[t] = "erase" => op[t] = "remove"
    /\ Name(t) = UDN[obj[t]]

Single(u) ==
  \A i, j \in 1 .. Len(Devices) :
    (UDN[Devices[i]] = u /\ UDN[Devices[j]] = u) => i = j

Alone(u) ==
  \A t, r \in Threads : (Changing(t, u) /\ Changing(r, u)) => t = r

\* Until the window is told, it shows what the list held before.
HalfDone(t, u) ==
  /\ pc[t] = "append" => ~ListsName(u)
  /\ pc[t] = "erase" => Lists(obj[t])
  /\ pc[t] \in {"report", "invoke"} => (ListsName(u) <=> op[t] = "add")
  /\ Shows(u) <=> op[t] = "remove"

NameInv(u) ==
  /\ Single(u)
  /\ Alone(u)
  /\ \A t \in Threads : Changing(t, u) => HalfDone(t, u)
  /\ (\A t \in Threads : ~Changing(t, u)) => (ListsName(u) <=> Shows(u))

TreeInv == ChangeOK /\ \A u \in UDNs \ disturbed : NameInv(u)

\* A step that does nothing to the name u, in the list, in the tree or in a
\* call under way.
LEMMA NameSame ==
  ASSUME TypeInv, ChangeOK, NEW u \in UDNs, NameInv(u),
         \A r \in Threads : Changing(r, u)' <=> Changing(r, u),
         \A r \in Threads : Changing(r, u) =>
           /\ obj'[r] = obj[r] /\ op'[r] = op[r]
           /\ \/ pc'[r] = pc[r]
              \/ pc[r] = "report" /\ pc'[r] = "invoke",
         Single(u)', ListsName(u)' <=> ListsName(u), Shows(u)' <=> Shows(u),
         \A o \in Objects : UDN[o] = u => (Lists(o)' <=> Lists(o))
  PROVE  NameInv(u)'
<1>1. Alone(u)'
  BY DEF NameInv, Alone
<1>2. ASSUME NEW t \in Threads, Changing(t, u)'
      PROVE  HalfDone(t, u)'
  <2>1. Changing(t, u) /\ HalfDone(t, u)
    BY <1>2 DEF NameInv
  <2>2. obj[t] \in Objects /\ UDN[obj[t]] = u
    BY <2>1 DEF Changing, ChangeOK, InChange, TypeInv, ObjOK
  <2>3. /\ Lists(obj[t])' <=> Lists(obj[t])
        /\ obj'[t] = obj[t]
    BY <2>1, <2>2 DEF Lists
  <2>4. pc'[t] = "erase" => Lists(obj[t])'
    BY <2>1, <2>3 DEF HalfDone
  <2>5. QED
    BY <2>1, <2>4 DEF HalfDone
<1>3. (\A t \in Threads : ~Changing(t, u)') => (ListsName(u)' <=> Shows(u)')
  BY DEF NameInv
<1>4. QED
  BY <1>1, <1>2, <1>3 DEF NameInv

\* A step of t alone that leaves the list and the tree as they are, and that
\* neither begins nor ends a change.
LEMMA TreeSame ==
  ASSUME TypeInv, TreeInv,
         UNCHANGED <<list, nodes>>, disturbed \subseteq disturbed',
         \A r \in Threads :
           \/ ~InChange(r) /\ ~InChange(r)'
           \/ /\ obj'[r] = obj[r] /\ op'[r] = op[r] /\ target'[r] = target[r]
              /\ pc'[r] = pc[r] \/ (pc[r] = "report" /\ pc'[r] = "invoke")
  PROVE  TreeInv'
<1>1. \A r \in Threads : InChange(r)' <=> InChange(r)
  BY DEF InChange
<1>2. \A r \in Threads : InChange(r) =>
         /\ obj'[r] = obj[r] /\ op'[r] = op[r]
         /\ pc'[r] = pc[r] \/ (pc[r] = "report" /\ pc'[r] = "invoke")
         /\ Name(r)' = Name(r)
  BY DEF InChange, Name
<1>3. ChangeOK'
  <2>1. ASSUME NEW r \in Threads, InChange(r)'
        PROVE  /\ op'[r] \in {"add", "remove"}
               /\ pc'[r] = "append" => op'[r] = "add"
               /\ pc'[r] = "erase" => op'[r] = "remove"
               /\ Name(r)' = UDN[obj'[r]]
    BY <1>1, <1>2, <2>1 DEF TreeInv, ChangeOK
  <2>2. QED
    BY <2>1 DEF ChangeOK
<1>4. ASSUME NEW u \in UDNs \ disturbed'
      PROVE  NameInv(u)'
  <2>1. NameInv(u) /\ u \in UDNs
    BY DEF TreeInv
  <2>2. \A r \in Threads : Changing(r, u)' <=> Changing(r, u)
    BY <1>1, <1>2 DEF Changing, InChange
  <2>3. /\ Single(u)' /\ (ListsName(u)' <=> ListsName(u))
        /\ (Shows(u)' <=> Shows(u))
        /\ \A o \in Objects : Lists(o)' <=> Lists(o)
    BY <2>1 DEF NameInv, Single, ListsName, Shows, Lists, list
  <2>4. \A r \in Threads : Changing(r, u) =>
           /\ obj'[r] = obj[r] /\ op'[r] = op[r]
           /\ pc'[r] = pc[r] \/ (pc[r] = "report" /\ pc'[r] = "invoke")
    BY <1>2 DEF Changing, InChange
  <2>5. QED
    BY <2>1, <2>2, <2>3, <2>4, NameSame DEF TreeInv
<1>5. QED
  BY <1>3, <1>4 DEF TreeInv

\* A step of t at its own device, about the name v.  What is left to prove is
\* that it keeps the invariant of v and leaves the other names alone.
LEMMA TreeOwn ==
  ASSUME TypeInv, TreeInv, NEW t \in Threads, NEW v \in UDNs,
         disturbed \subseteq disturbed',
         \A r \in Threads : r # t =>
           /\ pc'[r] = pc[r] /\ obj'[r] = obj[r] /\ op'[r] = op[r]
           /\ target'[r] = target[r],
         InChange(t) => Name(t) = v,
         InChange(t)' =>
           /\ op'[t] \in {"add", "remove"}
           /\ pc'[t] = "append" => op'[t] = "add"
           /\ pc'[t] = "erase" => op'[t] = "remove"
           /\ Name(t)' = v /\ UDN[obj'[t]] = v,
         \A u \in UDNs \ disturbed : u # v =>
           /\ Single(u)'
           /\ ListsName(u)' <=> ListsName(u)
           /\ Shows(u)' <=> Shows(u)
           /\ \A o \in Objects : UDN[o] = u => (Lists(o)' <=> Lists(o)),
         v \in UDNs \ disturbed' => NameInv(v)'
  PROVE  TreeInv'
<1>1. \A r \in Threads : r # t =>
         (InChange(r)' <=> InChange(r)) /\ Name(r)' = Name(r)
  BY DEF InChange, Name
<1>2. ChangeOK'
  <2>1. ASSUME NEW r \in Threads, r # t, InChange(r)'
        PROVE  /\ op'[r] \in {"add", "remove"}
               /\ pc'[r] = "append" => op'[r] = "add"
               /\ pc'[r] = "erase" => op'[r] = "remove"
               /\ Name(r)' = UDN[obj'[r]]
    BY <1>1, <2>1 DEF TreeInv, ChangeOK
  <2>2. QED
    BY <2>1 DEF ChangeOK
<1>3. ASSUME NEW u \in UDNs \ disturbed', u # v
      PROVE  NameInv(u)'
  <2>1. NameInv(u) /\ u \in UDNs
    BY DEF TreeInv
  <2>2. ~Changing(t, u) /\ ~Changing(t, u)'
    BY <1>3 DEF Changing, InChange
  <2>3. \A r \in Threads : r # t => (Changing(r, u)' <=> Changing(r, u))
    BY <1>1 DEF Changing
  <2>4. \A r \in Threads : Changing(r, u) =>
           obj'[r] = obj[r] /\ op'[r] = op[r] /\ pc'[r] = pc[r]
    BY <2>2
  <2>5. \A r \in Threads : Changing(r, u)' <=> Changing(r, u)
    BY <2>2, <2>3
  <2>6. QED
    BY <1>3, <2>1, <2>4, <2>5, NameSame DEF TreeInv
<1>4. QED
  BY <1>2, <1>3 DEF TreeInv

\* A walk ends: its thread begins to change v, and what it has found agrees
\* with the tree, unless another thread is changing v.
LEMMA TreeBegin ==
  ASSUME TypeInv, TreeInv, NEW t \in Threads, NEW v \in UDNs,
         UNCHANGED <<list, nodes, op, target>>,
         ~InChange(t), Disturb(t, v),
         \A r \in Threads : r # t => pc'[r] = pc[r] /\ obj'[r] = obj[r],
         Name(t)' = v, UDN[obj'[t]] = v,
         \/ pc'[t] = "append" /\ op[t] = "add" /\ ~ListsName(v)
         \/ /\ pc'[t] = "erase" /\ op[t] = "remove"
            /\ ListsName(v) /\ Lists(obj'[t])
  PROVE  TreeInv'
<1> USE DEF list
<1>1. disturbed \subseteq disturbed'
  BY DEF Disturb
<1>2. ASSUME v \in UDNs \ disturbed'
      PROVE  NameInv(v)'
  <2>1. NameInv(v) /\ \A r \in Threads \ {t} : ~Changing(r, v)
    BY <1>1, <1>2 DEF TreeInv, Disturb
  <2>2. ListsName(v) <=> Shows(v)
    BY <2>1 DEF NameInv, Changing, InChange
  <2>3. \A r \in Threads : Changing(r, v)' <=> r = t
    <3>1. \A r \in Threads \ {t} : ~Changing(r, v)'
      BY <2>1 DEF Changing, Name
    <3>2. Changing(t, v)'
      BY DEF Changing
    <3>3. QED
      BY <3>1, <3>2
  <2>4. Single(v)' /\ Alone(v)'
    BY <2>1, <2>3 DEF NameInv, Single, Alone
  <2>5. HalfDone(t, v)'
    <3>1. (ListsName(v)' <=> ListsName(v)) /\ (Shows(v)' <=> Shows(v))
      BY DEF ListsName, Shows
    <3>2. pc'[t] = "erase" => Lists(obj[t])'
      BY DEF Lists
    <3>3. QED
      BY <2>2, <3>1, <3>2 DEF HalfDone
  <2>6. QED
    BY <2>3, <2>4, <2>5 DEF NameInv
<1>3. \A u \in UDNs \ disturbed : u # v =>
         /\ Single(u)'
         /\ ListsName(u)' <=> ListsName(u)
         /\ Shows(u)' <=> Shows(u)
         /\ \A o \in Objects : UDN[o] = u => (Lists(o)' <=> Lists(o))
  BY DEF TreeInv, NameInv, Single, ListsName, Shows, Lists
<1>4. InChange(t)' =>
         /\ op'[t] \in {"add", "remove"}
         /\ pc'[t] = "append" => op'[t] = "add"
         /\ pc'[t] = "erase" => op'[t] = "remove"
         /\ Name(t)' = v /\ UDN[obj'[t]] = v
  OBVIOUS
<1>5. QED
  BY <1>1, <1>2, <1>3, <1>4, TreeOwn

\* The walk of AddDevice.
LEMMA TreeAddNext ==
  ASSUME TypeInv, TwinInv, RefusalInv, TreeInv, NEW t \in Threads, AddNext(t)
  PROVE  TreeInv'
<1> USE DEF Goto, Return
<1>1. /\ UNCHANGED <<list, nodes, op, obj, target>> /\ pc[t] = "addwalk"
      /\ op[t] = "add" /\ ~InChange(t)
      /\ \A r \in Threads : r # t => pc'[r] = pc[r]
  BY DEF AddNext, window, RefusalInv, OpOK, InChange, TypeInv, TypeOK
<1>2. CASE pc'[t] # "append"
  <2>1. ~InChange(t)' /\ UNCHANGED disturbed
    BY <1>2 DEF AddNext, InChange, TypeInv, TypeOK
  <2>2. QED
    BY <1>1, <2>1, TreeSame
<1>3. CASE pc'[t] = "append"
  <2>1. AtEnd(pos[t], ver[t]) /\ Disturb(t, UDN[obj[t]])
    BY <1>3 DEF AddNext, TypeInv, TypeOK
  <2>2. UDN[obj[t]] \in UDNs
    BY <1>1, DevicesAssumption DEF TypeInv, ObjOK
  <2>3. ~ListsName(UDN[obj[t]])
    BY <1>1, <2>1 DEF AtEnd, ListsName, TwinInv, WalkOK
  <2>4. Name(t)' = UDN[obj[t]]
    BY <1>1 DEF Name
  <2>5. QED
    BY <1>1, <1>3, <2>1, <2>2, <2>3, <2>4, TreeBegin
<1>4. QED
  BY <1>2, <1>3

\* The walk of RemoveDevice.
LEMMA TreeRemoveNext ==
  ASSUME TypeInv, RefusalInv, TreeInv, NEW t \in Threads, RemoveNext(t)
  PROVE  TreeInv'
<1> USE DEF Goto, Return
<1>1. /\ UNCHANGED <<list, nodes, op, target>> /\ pc[t] = "removewalk"
      /\ op[t] = "remove" /\ ~InChange(t)
      /\ \A r \in Threads : r # t => pc'[r] = pc[r] /\ obj'[r] = obj[r]
  BY DEF RemoveNext, window, RefusalInv, OpOK, InChange, TypeInv, TypeOK
<1>2. CASE pc'[t] # "erase"
  <2>1. ~InChange(t)' /\ UNCHANGED disturbed
    BY <1>2 DEF RemoveNext, InChange, TypeInv, TypeOK
  <2>2. QED
    BY <1>1, <2>1, TreeSame
<1>3. CASE pc'[t] = "erase"
  <2>1. /\ Yields(pos[t], ver[t]) /\ obj'[t] = Current(pos[t])
        /\ UDN[Current(pos[t])] = target[t] /\ Disturb(t, target[t])
    BY <1>3 DEF RemoveNext, TypeInv, TypeOK
  <2>2. /\ pos[t] \in Nat /\ target[t] \in UDNs
        /\ pos[t] + 1 \in 1 .. Len(Devices)
    BY <2>1, CurrentType DEF TypeInv, TypeOK
  <2>3. ListsName(target[t]) /\ Lists(obj'[t])
    BY <2>1, <2>2 DEF ListsName, Lists, Current
  <2>4. Name(t)' = target[t] /\ UDN[obj'[t]] = target[t]
    BY <1>1, <2>1 DEF Name
  <2>5. QED
    BY <1>1, <1>3, <2>1, <2>2, <2>3, <2>4, TreeBegin
<1>4. QED
  BY <1>2, <1>3

\* The step of a call at v that is alone: what it leaves behind.
LEMMA TreeAlone ==
  ASSUME TypeInv, NEW t \in Threads, NEW v \in UDNs, NameInv(v), Changing(t, v),
         \A r \in Threads : r # t =>
           pc'[r] = pc[r] /\ obj'[r] = obj[r] /\ op'[r] = op[r]
                          /\ target'[r] = target[r],
         Single(v)',
         Changing(t, v)' => HalfDone(t, v)',
         ~Changing(t, v)' => (ListsName(v)' <=> Shows(v)')
  PROVE  NameInv(v)'
<1>1. \A r \in Threads : r # t => ~Changing(r, v)'
  BY DEF NameInv, Alone, Changing, Name
<1>2. Alone(v)'
  BY <1>1 DEF Alone
<1>3. QED
  BY <1>1, <1>2 DEF NameInv

\* The device is appended.  Its name was not listed.
LEMMA TreeList ==
  ASSUME TypeInv, TreeInv, NEW t \in Threads, List(t)
  PROVE  TreeInv'
<1> DEFINE n == Len(Devices) + 1
<1>0. PICK v \in UDNs : v = UDN[obj[t]]
  BY DevicesAssumption DEF List, TypeInv, ObjOK
<1>1. /\ pc[t] = "append" /\ pc'[t] = "report" /\ op[t] = "add"
      /\ UNCHANGED <<op, obj, target, nodes, disturbed>>
      /\ obj[t] \in Objects /\ Name(t) = v
      /\ \A r \in Threads : r # t => pc'[r] = pc[r]
  BY <1>0
     DEF List, Goto, window, TypeInv, TypeOK, ObjOK, TreeInv, ChangeOK, InChange
<1>2. /\ n \in Nat /\ Len(Devices') = n /\ Devices'[n] = obj[t]
      /\ \A i \in 1 .. Len(Devices) : Devices'[i] = Devices[i]
      /\ \A i \in 1 .. n : i \in 1 .. Len(Devices) \/ i = n
      /\ 1 .. Len(Devices) \subseteq 1 .. n /\ n \in 1 .. n
  <2>1. /\ Len(Devices) \in Nat /\ Devices \in Seq(Objects)
        /\ Devices' = Append(Devices, obj[t])
    BY DEF List, TypeInv, TypeOK
  <2>2. QED
    BY <1>1, <2>1, AppendProperties
<1>3. Name(t)' = v /\ Changing(t, v) /\ Changing(t, v)'
  BY <1>1, <1>0 DEF Changing, Name
<1> HIDE DEF n
<1>4. ASSUME NEW u \in UDNs \ disturbed, u # v
      PROVE  /\ Single(u)'
             /\ ListsName(u)' <=> ListsName(u)
             /\ Shows(u)' <=> Shows(u)
             /\ \A o \in Objects : UDN[o] = u => (Lists(o)' <=> Lists(o))
  <2>1. UDN[Devices'[n]] # u
    BY <1>2, <1>4, <1>0
  <2>2. Single(u)
    BY DEF TreeInv, NameInv
  <2>3. Single(u)'
    BY <1>2, <2>1, <2>2 DEF Single
  <2>4. QED
    BY <1>1, <1>2, <2>1, <2>3 DEF ListsName, Shows, Lists
<1>5. ASSUME v \in UDNs \ disturbed'
      PROVE  NameInv(v)'
  <2>1. NameInv(v) /\ HalfDone(t, v)
    BY <1>1, <1>3, <1>5 DEF TreeInv, NameInv
  <2>2. \A i \in 1 .. Len(Devices) : UDN[Devices[i]] # v
    BY <1>1, <2>1 DEF HalfDone, ListsName
  <2>3. Single(v)'
    BY <1>2, <2>2 DEF Single
  <2>4. ListsName(v)'
    BY <1>2, <1>0 DEF ListsName
  <2>5. HalfDone(t, v)'
    BY <1>1, <2>1, <2>4 DEF HalfDone, Shows
  <2>6. QED
    BY <1>1, <1>3, <2>1, <2>3, <2>5, TreeAlone
<1>6. QED
  <2>1. UDN[obj'[t]] = v
    BY <1>1, <1>0
  <2>2. QED
    BY <1>1, <1>3, <1>4, <1>5, <2>1, TreeOwn

\* The device is removed, if it is still listed.  Its name is not any more.
LEMMA TreeErase ==
  ASSUME TypeInv, TreeInv, NEW t \in Threads, Erase(t)
  PROVE  TreeInv'
<1>0. PICK v \in UDNs : v = UDN[obj[t]]
  BY DevicesAssumption DEF Erase, TypeInv, ObjOK
<1>1. /\ pc[t] = "erase" /\ pc'[t] = "report" /\ op[t] = "remove"
      /\ UNCHANGED <<op, obj, target, nodes, disturbed>>
      /\ obj[t] \in Objects /\ Name(t) = v
      /\ \A r \in Threads : r # t => pc'[r] = pc[r]
  BY <1>0
     DEF Erase, Goto, window, hist, TypeInv, TypeOK, ObjOK, TreeInv, ChangeOK,
         InChange
<1>2. Name(t)' = v /\ Changing(t, v) /\ Changing(t, v)' /\ UDN[obj'[t]] = v
  BY <1>1, <1>0 DEF Changing, Name
<1>3. CASE UNCHANGED list /\ ~Lists(obj[t])
  <2>1. \A u \in UDNs \ disturbed : u # v =>
           /\ Single(u)'
           /\ ListsName(u)' <=> ListsName(u)
           /\ Shows(u)' <=> Shows(u)
           /\ \A o \in Objects : UDN[o] = u => (Lists(o)' <=> Lists(o))
    BY <1>1, <1>3
       DEF TreeInv, NameInv, Single, ListsName, Shows, Lists, list
  <2>2. v \notin UDNs \ disturbed'
    BY <1>1, <1>2, <1>3 DEF TreeInv, NameInv, HalfDone
  <2>3. QED
    BY <1>1, <1>2, <2>1, <2>2, TreeOwn
<1>4. ASSUME NEW k \in 1 .. Len(Devices), Devices[k] = obj[t],
             Devices' = RemoveAt(Devices, k)
      PROVE  TreeInv'
  <2> DEFINE old(i) == IF i < k THEN i ELSE i + 1
             new(i) == IF i < k THEN i ELSE i - 1
  <2>1. /\ Len(Devices) \in Nat /\ Len(Devices') = Len(Devices) - 1
        /\ \A i \in 1 .. Len(Devices') : Devices'[i] = Devices[old(i)]
    <3>1. Devices \in Seq(Objects) /\ Len(Devices) \in Nat
      BY DEF TypeInv, TypeOK
    <3>2. /\ Len(RemoveAt(Devices, k)) = Len(Devices) - 1
          /\ \A i \in 1 .. Len(Devices) - 1 :
               RemoveAt(Devices, k)[i] =
                 IF i < k THEN Devices[i] ELSE Devices[i + 1]
      BY <3>1, RemoveAtProperties
    <3>3. QED
      BY <1>4, <3>1, <3>2
  <2>2. \A i \in 1 .. Len(Devices') :
           /\ old(i) \in 1 .. Len(Devices) /\ old(i) # k
           /\ Devices'[i] = Devices[old(i)]
    BY <2>1
  <2>3. \A i, j \in 1 .. Len(Devices') : old(i) = old(j) => i = j
    BY <2>1
  <2>4. \A i \in 1 .. Len(Devices) : i # k =>
           new(i) \in 1 .. Len(Devices') /\ Devices'[new(i)] = Devices[i]
    <3>1. ASSUME NEW i \in 1 .. Len(Devices), i # k
          PROVE  new(i) \in 1 .. Len(Devices') /\ old(new(i)) = i
      BY <2>1, <3>1
    <3>2. QED
      BY <2>2, <3>1
  <2> HIDE DEF old, new
  <2>5. ASSUME NEW u \in UDNs \ disturbed
        PROVE  Single(u)'
    BY <2>2, <2>3 DEF TreeInv, NameInv, Single
  <2>6. ASSUME NEW o \in Objects, UDN[o] # v
        PROVE  Lists(o)' <=> Lists(o)
    <3>1. \A i \in 1 .. Len(Devices) : Devices[i] = o => i # k
      BY <1>4, <1>0, <2>6
    <3>2. Lists(o) => Lists(o)'
      BY <2>4, <3>1 DEF Lists
    <3>3. Lists(o)' => Lists(o)
      BY <2>2 DEF Lists
    <3>4. QED
      BY <3>2, <3>3
  <2>7. ASSUME NEW u \in UDNs, u # v
        PROVE  ListsName(u)' <=> ListsName(u)
    <3>1. \A i \in 1 .. Len(Devices) : UDN[Devices[i]] = u => i # k
      BY <1>4, <1>0, <2>7
    <3>2. ListsName(u) => ListsName(u)'
      BY <2>4, <3>1 DEF ListsName
    <3>3. ListsName(u)' => ListsName(u)
      BY <2>2 DEF ListsName
    <3>4. QED
      BY <3>2, <3>3
  <2>8. ASSUME v \in UDNs \ disturbed'
        PROVE  NameInv(v)'
    <3>1. NameInv(v) /\ HalfDone(t, v)
      BY <1>1, <1>2, <2>8 DEF TreeInv, NameInv
    <3>2. \A i \in 1 .. Len(Devices) : UDN[Devices[i]] = v => i = k
      BY <1>4, <1>0, <3>1 DEF NameInv, Single
    <3>3. ~ListsName(v)'
      BY <2>2, <3>2 DEF ListsName
    <3>4. HalfDone(t, v)'
      BY <1>1, <3>1, <3>3 DEF HalfDone, Shows
    <3>5. Single(v)'
      BY <1>1, <2>5, <2>8
    <3>6. QED
      BY <1>1, <1>2, <3>1, <3>4, <3>5, TreeAlone
  <2>9. \A u \in UDNs \ disturbed : u # v =>
           /\ Single(u)'
           /\ ListsName(u)' <=> ListsName(u)
           /\ Shows(u)' <=> Shows(u)
           /\ \A o \in Objects : UDN[o] = u => (Lists(o)' <=> Lists(o))
    BY <1>1, <2>5, <2>6, <2>7 DEF Shows
  <2>10. QED
    BY <1>1, <1>2, <2>8, <2>9, TreeOwn
<1>5. QED
  BY <1>3, <1>4 DEF Erase

\* The window is told: the tree now shows what the list holds.
LEMMA TreeDelegate ==
  ASSUME TypeInv, QueueOK, TreeInv, RunDelegate
  PROVE  TreeInv'
<1>1. PICK t \in Threads : t = Head(invoked) /\ pc[t] = "invoke"
  BY HeadTailProperties, EmptySeq DEF RunDelegate, QueueOK, TypeInv, TypeOK
<1>0. PICK v \in UDNs : v = UDN[obj[t]]
  BY <1>1, DevicesAssumption DEF TypeInv, ObjOK
<1>2. /\ op[t] = "add" => InsertRootDevice(obj[t])
      /\ op[t] # "add" => RemoveRootDevice(obj[t])
      /\ UNCHANGED <<list, op, obj, target, disturbed>>
      /\ pc'[t] = "return"
      /\ \A r \in Threads : r # t => pc'[r] = pc[r]
  BY <1>1 DEF RunDelegate, Return, Goto, hist, TypeInv, TypeOK
<1>3. /\ obj[t] \in Objects
      /\ op[t] \in {"add", "remove"} /\ Name(t) = v
  BY <1>1, <1>0
     DEF TypeInv, TypeOK, ObjOK, TreeInv, ChangeOK, InChange
<1>4. /\ Changing(t, v) /\ ~Changing(t, v)' /\ ~InChange(t)'
  BY <1>1, <1>2, <1>3 DEF Changing, InChange
<1>5. Shows(v)' <=> op[t] = "add"
  BY <1>2, <1>3, <1>0 DEF Shows, InsertRootDevice, RemoveRootDevice
<1>6. \A u \in UDNs : u # v => (Shows(u)' <=> Shows(u))
  BY <1>2, <1>3, <1>0 DEF Shows, InsertRootDevice, RemoveRootDevice
<1>7. \A u \in UDNs :
         /\ Single(u)' <=> Single(u)
         /\ ListsName(u)' <=> ListsName(u)
         /\ \A o \in Objects : Lists(o)' <=> Lists(o)
  BY <1>2 DEF Single, ListsName, Lists, list
<1>8. ASSUME v \in UDNs \ disturbed'
      PROVE  NameInv(v)'
  <2>1. NameInv(v) /\ HalfDone(t, v) /\ Single(v)'
    BY <1>1, <1>2, <1>4, <1>7, <1>8 DEF TreeInv, NameInv
  <2>2. ListsName(v)' <=> Shows(v)'
    BY <1>1, <1>3, <1>5, <1>7, <2>1 DEF HalfDone
  <2>3. QED
    BY <1>1, <1>2, <1>3, <1>4, <2>1, <2>2, TreeAlone
<1>9. \A u \in UDNs \ disturbed : u # v =>
         /\ Single(u)'
         /\ ListsName(u)' <=> ListsName(u)
         /\ Shows(u)' <=> Shows(u)
         /\ \A o \in Objects : UDN[o] = u => (Lists(o)' <=> Lists(o))
  BY <1>6, <1>7 DEF TreeInv, NameInv
<1>10. QED
  BY <1>1, <1>2, <1>3, <1>4, <1>8, <1>9, TreeOwn

\* The window has no handle: its tree stays behind, from now on.
LEMMA TreeThrows ==
  ASSUME TypeInv, TreeInv, NEW t \in Threads, InvokeThrows(t)
  PROVE  TreeInv'
<1>1. /\ pc[t] = "report" /\ pc'[t] = "return"
      /\ UNCHANGED <<list, op, obj, target, nodes>>
      /\ disturbed' = disturbed \cup {Name(t)} /\ Name(t) \in UDNs
      /\ \A r \in Threads : r # t => pc'[r] = pc[r]
  BY NameType DEF InvokeThrows, Return, Goto, window, TypeInv, TypeOK
<1>2. PICK v \in UDNs : v = Name(t)
  BY <1>1
<1>3. ~InChange(t)' /\ v \notin UDNs \ disturbed'
  BY <1>1, <1>2 DEF InChange
<1>4. \A u \in UDNs \ disturbed : u # v =>
         /\ Single(u)'
         /\ ListsName(u)' <=> ListsName(u)
         /\ Shows(u)' <=> Shows(u)
         /\ \A o \in Objects : UDN[o] = u => (Lists(o)' <=> Lists(o))
  BY <1>1 DEF TreeInv, NameInv, Single, ListsName, Shows, Lists, list
<1>5. QED
  BY <1>1, <1>2, <1>3, <1>4, TreeOwn

\* The window is destroyed under the calls that wait for it.
LEMMA TreeDestroy ==
  ASSUME TypeInv, TreeInv, DestroyHandle
  PROVE  TreeInv'
<1>1. /\ UNCHANGED <<list, op, obj, target, nodes>> /\ pc[UI] = "destroy"
      /\ disturbed' = disturbed \cup {Name(r) : r \in Waiting}
      /\ \A r \in Threads : pc'[r] = IF r = UI THEN "closed"
                                     ELSE IF r \in Waiting THEN "return"
                                     ELSE pc[r]
  BY DEF DestroyHandle
<1>2. \A r \in Threads : InChange(r)' <=> InChange(r) /\ r \notin Waiting
  BY <1>1 DEF InChange, Waiting
<1>3. \A r \in Threads : InChange(r)' => pc'[r] = pc[r] /\ InChange(r)
  BY <1>1, <1>2 DEF InChange
<1>4. \A r \in Threads : Name(r)' = Name(r)
  BY <1>1 DEF Name
<1>5. ChangeOK'
  BY <1>1, <1>3, <1>4 DEF TreeInv, ChangeOK
<1>6. ASSUME NEW u \in UDNs \ disturbed'
      PROVE  NameInv(u)'
  <2>1. /\ NameInv(u) /\ \A r \in Waiting : Name(r) # u
    BY <1>1, <1>6 DEF TreeInv
  <2>2. \A r \in Threads : Changing(r, u)' <=> Changing(r, u)
    BY <1>2, <1>4, <2>1 DEF Changing, InChange
  <2>3. \A r \in Threads : Changing(r, u) =>
           obj'[r] = obj[r] /\ op'[r] = op[r] /\ pc'[r] = pc[r]
    BY <1>1, <1>3, <2>2 DEF Changing, InChange
  <2>4. /\ Single(u)'
        /\ ListsName(u)' <=> ListsName(u)
        /\ Shows(u)' <=> Shows(u)
        /\ \A o \in Objects : UDN[o] = u => (Lists(o)' <=> Lists(o))
    BY <1>1, <2>1 DEF NameInv, Single, ListsName, Shows, Lists, list
  <2>5. QED
    BY <2>1, <2>2, <2>3, <2>4, NameSame DEF TreeInv
<1>7. QED
  BY <1>5, <1>6 DEF TreeInv

LEMMA TreeStep ==
  ASSUME TypeInv, QueueOK, TwinInv, RefusalInv, TreeInv, [Next]_vars
  PROVE  TreeInv'
<1> USE DEF enum, locals, window, hist, Goto, Return
<1>1. ASSUME NEW t \in Threads,
             \/ BeginAdd(t) \/ \E u \in UDNs : BeginRemove(t, u)
             \/ LoadFails(t) \/ \E o \in Objects : Loaded(t, o)
             \/ Invoke(t) \/ Done(t)
      PROVE  TreeInv'
  <2>1. /\ UNCHANGED <<list, nodes, disturbed>>
        /\ \A r \in Threads : r # t =>
             /\ pc'[r] = pc[r] /\ obj'[r] = obj[r] /\ op'[r] = op[r]
             /\ target'[r] = target[r]
        /\ \/ ~InChange(t) /\ ~InChange(t)'
           \/ /\ pc[t] = "report" /\ pc'[t] = "invoke"
              /\ obj'[t] = obj[t] /\ op'[t] = op[t] /\ target'[t] = target[t]
    <3>1. CASE BeginAdd(t)
      BY <3>1 DEF BeginAdd, InChange, TypeInv, TypeOK
    <3>2. CASE \E u \in UDNs : BeginRemove(t, u)
      BY <3>2 DEF BeginRemove, Enumerate, InChange, TypeInv, TypeOK
    <3>3. CASE LoadFails(t)
      BY <3>3 DEF LoadFails, InChange, TypeInv, TypeOK
    <3>4. CASE \E o \in Objects : Loaded(t, o)
      BY <3>4 DEF Loaded, Enumerate, InChange, TypeInv, TypeOK
    <3>5. CASE Invoke(t)
      BY <3>5 DEF Invoke, TypeInv, TypeOK
    <3>6. CASE Done(t)
      BY <3>6 DEF Done, InChange, TypeInv, TypeOK
    <3>7. QED
      BY <1>1, <3>1, <3>2, <3>3, <3>4, <3>5, <3>6
  <2>2. \A r \in Threads :
           \/ ~InChange(r) /\ ~InChange(r)'
           \/ /\ obj'[r] = obj[r] /\ op'[r] = op[r] /\ target'[r] = target[r]
              /\ pc'[r] = pc[r] \/ (pc[r] = "report" /\ pc'[r] = "invoke")
    BY <2>1
  <2>3. QED
    BY <2>1, <2>2, TreeSame
<1>2. ASSUME UNCHANGED <<list, nodes, obj, op, target, disturbed>>,
             \A r \in Threads :
               pc'[r] = pc[r] \/ (~InChange(r) /\ ~InChange(r)')
      PROVE  TreeInv'
  BY <1>2, TreeSame
<1>3. CASE ShowForm
  BY <1>2, <1>3 DEF ShowForm
<1>4. CASE CloseForm
  BY <1>2, <1>4 DEF CloseForm, InChange, TypeInv, TypeOK
<1>5. CASE StopListener
  BY <1>2, <1>5 DEF StopListener, InChange, TypeInv, TypeOK
<1>6. CASE UNCHANGED vars
  BY <1>2, <1>6 DEF vars
<1>7. QED
  BY <1>1, <1>3, <1>4, <1>5, <1>6, TreeAddNext, TreeRemoveNext, TreeList,
     TreeErase, TreeThrows, TreeDelegate, TreeDestroy
     DEF Next, Call, LoadStep, Step, Close

\* Whenever no call about a device is under way, the tree shows it just if the
\* list holds it, unless two such calls overlapped or Invoke threw.
THEOREM TreeCorrect == Spec => []TreeAgrees
<1>1. Init => TreeInv /\ RefusalInv
  BY DEF Init, TreeInv, ChangeOK, InChange, NameInv, Single, Alone, Changing,
     ListsName, Shows, RefusalInv, OpOK, RemoveWalkOK, RefusalIsRight
<1>2. TypeInv /\ QueueOK /\ TwinInv /\ RefusalInv /\ TreeInv /\ [Next]_vars
        => RefusalInv' /\ TreeInv'
  BY RefusalStep, TreeStep
<1>3. TreeInv => TreeAgrees
  BY DEF TreeInv, NameInv, TreeAgrees
<1>4. QED
  BY <1>1, <1>2, <1>3, Typing, Twinning, PTL DEF Spec
=============================================================================
