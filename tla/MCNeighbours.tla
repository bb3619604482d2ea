---------------------------- MODULE MCNeighbours ----------------------------
(* A small instance of Neighbours: a message and a file from one Son to     *)
(* another, begun in the same second.                                       *)
EXTENDS Neighbours, TLC
CONSTANTS a, b, s1, s2
MCFrom  == s1 :> a @@ s2 :> a
MCTo    == s1 :> b @@ s2 :> b
MCData  == s1 :> 0 @@ s2 :> 1
MCNameOf == s1 :> "n" @@ s2 :> "n"
=============================================================================
