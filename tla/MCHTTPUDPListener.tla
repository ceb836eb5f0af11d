-------------------------- MODULE MCHTTPUDPListener --------------------------
(* Instances of HTTPUDPListener for TLC.                                   *)
EXTENDS HTTPUDPListener

CONSTANTS first, second, third
=============================================================================
