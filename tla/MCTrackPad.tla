----------------------------- MODULE MCTrackPad -----------------------------
(* An instance of TrackPad: finger movements and totals, in half pixels.   *)
EXTENDS TrackPad

\* Fractions of a pixel, and swipes of 128 pixels, more than a byte holds.
SomeSteps == {-256, -1, 1, 3, 256}
SomeTotals == -3..3 \cup 255..258 \cup -258..-255
=============================================================================
