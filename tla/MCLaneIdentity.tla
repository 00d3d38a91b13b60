--------------------------- MODULE MCLaneIdentity ---------------------------
(***************************************************************************)
(* Model instances of LaneIdentity: one-dimensional launches of up to 3   *)
(* blocks of up to 3 threads, as XLA's LaunchDimensions describes them,   *)
(* and launches whose grid or blocks also extend in y.                     *)
(***************************************************************************)
EXTENDS LaneIdentity

MCLaunches1D ==
    {[grid |-> <<g, 1>>, block |-> <<b, 1>>] : g \in 1 .. 3, b \in 1 .. 3}

MCLaunches2D ==
    {[grid |-> <<gx, gy>>, block |-> <<bx, by>>] :
        gx \in 1 .. 2, gy \in 1 .. 2, bx \in 1 .. 2, by \in 1 .. 2}
=============================================================================
