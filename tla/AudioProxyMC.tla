---------------------------- MODULE AudioProxyMC ----------------------------
(***************************************************************************)
(* AudioProxy on a small instance: MaxStart starts of the server, files    *)
(* below, at and above the limit.                                          *)
(***************************************************************************)
EXTENDS AudioProxy

CONSTANTS MaxStart

FileSizes == 0..Limit + 1

Bounded ==
  \/ \E f \in Fetches : FetchStep(f)
  \/ \E l \in Links : LinkStep(l)
  \/ start < MaxStart /\ Restart

BoundedSpec == AudioInit /\ [][Bounded]_audioVars

FairBoundedSpec == BoundedSpec /\ \A f \in Fetches : WF_audioVars(DeadlinePasses(f))
=============================================================================
