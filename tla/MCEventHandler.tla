--------------------------- MODULE MCEventHandler ---------------------------
(* Instances of EventHandler for TLC.                                      *)
EXTENDS EventHandler, TLC

CONSTANTS light, switch1, switch2

MCDevices == {light}

\* A light with two services, as in SampleDevices, one of them evented.
MCTwoServices == light :> <<switch1, switch2>>
MCOneService  == light :> <<switch1>>

SIDSymmetry == Permutations(SIDs)
=============================================================================
