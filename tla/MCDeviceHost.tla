---------------------------- MODULE MCDeviceHost ----------------------------
(* Instances of DeviceHost for TLC.                                        *)
EXTENDS DeviceHost

CONSTANTS first, second
=============================================================================
