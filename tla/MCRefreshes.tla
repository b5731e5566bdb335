----------------------------- MODULE MCRefreshes -----------------------------
(* A small instance of Refreshes for TLC: a time.Duration has 8 units in a  *)
(* second and 16 bits.                                                      *)
EXTENDS Refreshes, TLC

\* Ignored; shorter and longer than a run; minutes; hours; the longest that
\* fits, and two that wrap, to a negative and to a positive duration.
MCIntervals == {-1, 4, 12, 61, 3661, 4095, 4096, 8200}
=============================================================================
