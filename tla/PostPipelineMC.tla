--------------------------- MODULE PostPipelineMC ---------------------------
(***************************************************************************)
(* PostPipeline on a small instance.                                       *)
(***************************************************************************)
EXTENDS PostPipeline

CONSTANTS r1, r2

MCRequests == {r1, r2}
MCMessages == MCRequests \X {"own", "reply"}
=============================================================================
