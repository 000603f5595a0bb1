-------------------------- MODULE MCTunnelSession --------------------------
(* One or two CLIs on one inbox, with few connection records.               *)
EXTENDS TunnelSession, TLC

CONSTANTS k1, k2, n1, n2, n3

MCOneCli == {k1}
MCTwoClis == {k1, k2}
MCTwoConns == {n1, n2}
MCThreeConns == {n1, n2, n3}

=============================================================================
