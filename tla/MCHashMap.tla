----------------------------- MODULE MCHashMap -----------------------------
(* Small instances of HashMap and JoinLoop.  The least table has four        *)
(* buckets, and shrinks when a quarter is used; three of the keys collide,   *)
(* at its end.                                                              *)
EXTENDS JoinLoop, TLC
CONSTANTS k1, k2, k3, k4, k5
MCHash == (k1 :> 3 @@ k2 :> 3 @@ k3 :> 7 @@ k4 :> 0 @@ k5 :> 4)
=============================================================================
