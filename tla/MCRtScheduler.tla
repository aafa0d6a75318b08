--------------------------- MODULE MCRtScheduler ---------------------------
(* Values of the constants of RtScheduler for TLC. *)
EXTENDS RtScheduler
CONSTANTS low, mid, high

AllTasks == {low, mid, high}
TwoPeriodic == {low, high}

\* Both ends of the documented range, and the value on the near side of the
\* wrap of the FIFO level.
Extremes == [t \in AllTasks |-> CASE t = low -> 0 [] t = mid -> 98 [] t = high -> 99]
=============================================================================
