--------------------------- MODULE AlliancePlane ---------------------------
(* What the modules of the alliance share: the value of a field that is    *)
(* missing, and distances on the game's plane.                             *)
EXTENDS Integers

CONSTANT None   \* no report, no deadline, no tenant, no position

AbsOf(n) == IF n < 0 THEN -n ELSE n
Manhattan(p, q) == AbsOf(p[1] - q[1]) + AbsOf(p[2] - q[2])
=============================================================================
