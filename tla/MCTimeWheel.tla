----------------------------- MODULE MCTimeWheel -----------------------------
(* Instances of TimeWheel for TLC: three slots, ticks of two seconds.       *)
EXTENDS TimeWheelProofs

\* Refused; shorter than a tick; two ticks; a lap; a lap and a tick (rounded down).
MCTimeouts == {-1, 1, 4, 6, 9}

\* The callbacks': whole laps among them, so that timers join the list being walked.
MCRearms == {0, 4, 6, 9}

\* Two ticks and a lap.
MCLapRearms == {4, 6}

\* The inductive invariant of TimeWheelProofs, over small numbers.
MCIndInv ==
  /\ CallbackOK /\ NoneAstray
  /\ \E ord \in [Timers -> 0 .. 3] : IndWith(ord)
=============================================================================
