----------------------------- MODULE Advertiser -----------------------------
(***************************************************************************)
(* What a device host promises its network, without the threads, timers    *)
(* and listeners of DeviceHost:                                            *)
(*   - it announces itself and answers searches from its start on, until   *)
(*     its process is gone;                                                *)
(*   - it says byebye before it stops to serve its descriptions;           *)
(*   - once it has stopped to serve them it never serves them again.       *)
(* A datagram on the wire may be taken off it, received or lost.           *)
(***************************************************************************)
VARIABLES
  phase,    \* "off", "up", "leaving" from the first byebye on, or "gone"
  serving,  \* "not yet", "yes" or "no more"
  wire      \* the datagrams in flight: "alive", "response", "bye"

vars == <<phase, serving, wire>>

Init == phase = "off" /\ serving = "not yet" /\ wire = {}

Send(datagram) == wire' = wire \cup {datagram}

Start ==
  /\ phase = "off"
  /\ phase' = "up"
  /\ UNCHANGED <<serving, wire>>

Serve ==
  /\ phase \in {"up", "leaving"}
  /\ serving = "not yet"
  /\ serving' = "yes"
  /\ UNCHANGED <<phase, wire>>

Announce ==
  /\ phase \in {"up", "leaving"}
  /\ Send("alive")
  /\ UNCHANGED <<phase, serving>>

Answer ==
  /\ phase \in {"up", "leaving"}
  /\ Send("response")
  /\ UNCHANGED <<phase, serving>>

SayBye ==
  /\ phase \in {"up", "leaving"}
  /\ phase' = "leaving"
  /\ Send("bye")
  /\ UNCHANGED serving

StopServing ==
  /\ phase = "leaving"
  /\ serving # "no more"
  /\ serving' = "no more"
  /\ UNCHANGED <<phase, wire>>

\* The process ends, orderly or not.
Vanish ==
  /\ phase # "gone"
  /\ phase' = "gone"
  /\ serving' = "no more"
  /\ UNCHANGED wire

Transmit(datagram) ==
  /\ datagram \in wire
  /\ wire' = wire \ {datagram}
  /\ UNCHANGED <<phase, serving>>

Host == Start \/ Serve \/ Announce \/ Answer \/ SayBye \/ StopServing \/ Vanish

Next == Host \/ \E datagram \in wire : Transmit(datagram)

Spec == Init /\ [][Next]_vars
=============================================================================
