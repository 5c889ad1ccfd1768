------------------------------ MODULE MCLaunch ------------------------------
(* A small instance of Launch.  The processes are alike.                   *)
EXTENDS Launch, TLC

CONSTANTS p1, p2, p3

MCSymmetry == Permutations({p1, p2, p3})
=============================================================================
