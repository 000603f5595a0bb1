----------------------------- MODULE MCCapture -----------------------------
(* Events whose attempts overlap, with a few faults.                        *)
EXTENDS Capture, TLC

CONSTANTS e1, e2

MCOneEvent == {e1}
MCTwoEvents == {e1, e2}

=============================================================================
