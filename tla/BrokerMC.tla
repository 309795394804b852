------------------------------ MODULE BrokerMC ------------------------------
(***************************************************************************)
(* Broker on a small instance: the history log is bounded by MaxLog.       *)
(***************************************************************************)
EXTENDS Broker, TLC

CONSTANTS MaxLog  \* broadcasts in a behaviour

Bounded ==
  \/ \E s \in Streams, ch \in Channels : Subscribe(s, ch)
  \/ /\ Len(log) < MaxLog
     /\ \E ch \in Channels, m \in Messages : Broadcast(ch, m)
  \/ \E s \in Streams : WriteEvent(s)
  \/ \E s \in Streams : LeaveLoop(s)
  \/ \E s \in Streams : Unsubscribe(s)
  \/ BrokerCrash

BoundedSpec == BrokerInit /\ [][Bounded]_brokerVars

Symmetry == Permutations(Channels) \union Permutations(Streams)
=============================================================================
