--------------------------- MODULE EventPublisher ---------------------------
(***************************************************************************)
(* What an event publisher promises its subscribers, without the list, the *)
(* enumerators and the threads' steps of EventHandler:                     *)
(*   - a subscription is accepted once and, once retired, never returns;   *)
(*   - a change is told at most once to a subscription, and never to one   *)
(*     that was retired before the change began;                           *)
(*   - a change whose report succeeds was told to every subscription due   *)
(*     to hear of it that is still active.                                 *)
(* A report may fail, and then promises nothing about the others.          *)
(***************************************************************************)
CONSTANTS SIDs, Threads

VARIABLES
  active,   \* the subscriptions in force
  retired,  \* those cancelled or expired
  phase,    \* phase[t]: the report that thread t makes of a change
  due,      \* due[t]: the subscriptions it is for
  told,     \* told[t]: the subscriptions it was delivered to
  gone      \* gone[t]: the subscriptions retired when it began

vars == <<active, retired, phase, due, told, gone>>

Init ==
  /\ active = {}
  /\ retired = {}
  /\ phase = [t \in Threads |-> "idle"]
  /\ due = [t \in Threads |-> {}]
  /\ told = [t \in Threads |-> {}]
  /\ gone = [t \in Threads |-> {}]

reports == <<phase, due, told, gone>>

Accept(s) ==
  /\ s \notin active \cup retired
  /\ active' = active \cup {s}
  /\ UNCHANGED <<retired, reports>>

Retire(s) ==
  /\ s \in active
  /\ active' = active \ {s}
  /\ retired' = retired \cup {s}
  /\ UNCHANGED reports

BeginReport(t, D) ==
  /\ phase[t] = "idle"
  /\ D \subseteq active
  /\ phase' = [phase EXCEPT ![t] = "telling"]
  /\ due' = [due EXCEPT ![t] = D]
  /\ gone' = [gone EXCEPT ![t] = retired]
  /\ UNCHANGED <<active, retired, told>>

Tell(t, s) ==
  /\ phase[t] = "telling"
  /\ s \notin told[t] \cup gone[t]
  /\ told' = [told EXCEPT ![t] = @ \cup {s}]
  /\ UNCHANGED <<active, retired, phase, due, gone>>

Succeed(t) ==
  /\ phase[t] = "telling"
  /\ due[t] \cap active \subseteq told[t]
  /\ phase' = [phase EXCEPT ![t] = "ok"]
  /\ UNCHANGED <<active, retired, due, told, gone>>

Fail(t) ==
  /\ phase[t] = "telling"
  /\ phase' = [phase EXCEPT ![t] = "fault"]
  /\ UNCHANGED <<active, retired, due, told, gone>>

Close(t) ==
  /\ phase[t] \in {"ok", "fault"}
  /\ phase' = [phase EXCEPT ![t] = "idle"]
  /\ due' = [due EXCEPT ![t] = {}]
  /\ told' = [told EXCEPT ![t] = {}]
  /\ gone' = [gone EXCEPT ![t] = {}]
  /\ UNCHANGED <<active, retired>>

Next ==
  \/ \E s \in SIDs : Accept(s) \/ Retire(s)
  \/ \E t \in Threads :
       \/ \E D \in SUBSET active : BeginReport(t, D)
       \/ \E s \in SIDs : Tell(t, s)
       \/ Succeed(t) \/ Fail(t) \/ Close(t)

Spec == Init /\ [][Next]_vars
=============================================================================
