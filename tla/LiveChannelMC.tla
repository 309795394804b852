--------------------------- MODULE LiveChannelMC ----------------------------
(***************************************************************************)
(* LiveChannel on small instances.                                         *)
(***************************************************************************)
EXTENDS LiveChannel

CONSTANTS r1, r2, r3

TwoRequests == {r1, r2}
TwoMessages == TwoRequests \X {"own", "reply"}
ThreeRequests == {r1, r2, r3}
ThreeMessages == ThreeRequests \X {"own", "reply"}
Symmetry2 == Permutations(TwoRequests) \union Permutations(Channels)
Symmetry3 == Permutations(ThreeRequests)

-----------------------------------------------------------------------------
\* Behaviours in which only inserts happen and pages load and ask for older
\* rows: enough of LiveSpec for questions about paging, and small enough for
\* more rows.
Inserting ==
  /\ \/ \E r \in Requests, ch \in Channels : Accept(r, ch, FALSE)
     \/ \E i \in Messages : DbStep(i)
  /\ UNCHANGED pageVars

PagingNext ==
  \/ Inserting
  \/ \E v \in Streams :
       \/ \E ch \in Channels : LoadPage(v, ch)
       \/ AskOlder(v)
       \/ ServeOlder(v)
       \/ ReceiveOlder(v)
       \/ LoseOlder(v)

PagingSpec == LiveInit /\ [][PagingNext]_liveVars

\* Behaviours of a page that polls from the start (a browser or a proxy
\* without event streams).
Polling(v) ==
  \/ \E ch \in Channels : LoadPage(v, ch)
  \/ mode[v] = "page" /\ StartPolling(v)
  \/ \E k \in Slots : SendPoll(v, k) \/ ServePoll(v, k) \/ ReceivePoll(v, k) \/ LosePoll(v, k)

PollingNext == Inserting \/ \E v \in Streams : Polling(v)

PollingSpec == LiveInit /\ [][PollingNext]_liveVars

\* setInterval goes on for as long as the page lives, and the network is not
\* down for ever: a poll sent again and again is at some time answered.
FairPollingSpec ==
  /\ PollingSpec
  /\ \A v \in Streams, k \in Slots :
       /\ WF_liveVars(SendPoll(v, k))
       /\ SF_liveVars(ServePoll(v, k))
       /\ SF_liveVars(ReceivePoll(v, k))
=============================================================================
