----------------------------- MODULE MCLiveFeed -----------------------------
(* One viewer of an inbox whose queue is shorter than a burst of captures.  *)
EXTENDS LiveFeed, TLC

CONSTANTS r1, r2, r3, v1, v2

MCOneCapture == {r1}
MCTwoCaptures == {r1, r2}
MCThreeCaptures == {r1, r2, r3}
MCOneViewer == {v1}
MCTwoViewers == {v1, v2}

\* For liveness the graph of two streams is too large. A second stream is opened
\* only by a viewer that has its list and fetches it once: what is left out is a
\* break, or a replay, which nothing obliges to happen.
SmallScope ==
    \A v \in Viewers : opened[v] < 2 \/ (refetches[v] = 0 /\ loaded[v])

LiveSpec == Init /\ [][Next /\ SmallScope']_vars /\ Fairness

=============================================================================
