---------------------------- MODULE MCMjpegDriver ----------------------------
(* MjpegDriver for TLC: a still image, short films, a film whose last frame  *)
(* is swallowed by the read buffer, and one whose last frame is cut off.     *)
EXTENDS MjpegDriver

File(n, a, c) == [frames |-> n, ahead |-> a, cut |-> c]

AllFiles == {File(1, 0, FALSE), File(2, 0, FALSE), File(2, 1, FALSE),
             File(3, 1, FALSE), File(2, 0, TRUE)}
RepeatCounts == {-1, 0, 1}
TwoFrames == {File(2, 0, FALSE), File(2, 1, FALSE)}
=============================================================================
