------------------------------- MODULE Clock -------------------------------
(* Time, as the parts of the process that compare timestamps see it. Each of *)
(* them takes its own reading of time.Now, some before they take a lock.     *)
EXTENDS Naturals

CONSTANT MaxTime  \* bound on the clock

VARIABLE now

ASSUME ClockAssumption == MaxTime \in Nat

ClockTypeOK == now \in 0..MaxTime

ClockInit == now = 0

\* Time passes, if nothing that has a deadline stands against it.
Tick == now < MaxTime /\ now' = now + 1

Smaller(x, y) == IF x <= y THEN x ELSE y

=============================================================================
