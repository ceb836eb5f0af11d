---------------------------- MODULE MCThreadPool ----------------------------
(* Instances of ThreadPool for TLC.                                        *)
EXTENDS ThreadPool

MCAttr(min, max) ==
  [minThreads |-> min, maxThreads |-> max, jobsPerThread |-> 0]

\* A pool that begins without threads, and may be given two.
MCFirstAttr == MCAttr(0, 2)
MCAttrs     == {MCAttr(2, 2), MCAttr(0, 1)}
=============================================================================
