----------------------------- MODULE MCEventing -----------------------------
(* Instances of Eventing for TLC.                                          *)
EXTENDS Eventing, TLC

CONSTANTS host, host2, w1, w2

\* The window and a worker use one host, and another worker the other one.
MCFound == UI :> host @@ w1 :> host @@ w2 :> host2
=============================================================================
