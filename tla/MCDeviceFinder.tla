--------------------------- MODULE MCDeviceFinder ---------------------------
(* Instances of DeviceFinder for TLC.                                      *)
EXTENDS DeviceFinder

CONSTANTS window, other
=============================================================================
