-------------------------------- MODULE Chat --------------------------------
(***************************************************************************)
(* What the message path's components share: the rows of the channels      *)
(* table, and the messages, each named by the PostMessage call that        *)
(* inserts it (internal/model/model.go: Channel and Message).              *)
(***************************************************************************)
CONSTANTS
  Channels,   \* chat channels
  Messages,   \* PostMessage calls, and the rows they insert
  NoChannel   \* the channel of what has none yet

ASSUME NoChannelAssumption == NoChannel \notin Channels
=============================================================================
