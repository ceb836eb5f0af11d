--------------------------- MODULE MCDeviceManager ---------------------------
(* Instances of DeviceManager for TLC.                                     *)
EXTENDS DeviceManager, TLC

CONSTANTS lamp1, lamp2, radio1, lamp, radio

\* Two descriptions of a lamp, one of a radio.
MCUDN == lamp1 :> lamp @@ lamp2 :> lamp @@ radio1 :> radio
=============================================================================
