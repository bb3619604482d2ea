------------------------------- MODULE MCArda -------------------------------
(***************************************************************************)
(* Small instances of Arda for TLC: four sessions, three of which want the  *)
(* same name, two of these at the same address.                             *)
(***************************************************************************)
EXTENDS Arda

CONSTANTS a, b, s1, s2, s3, s4

MCSession4 == {s1, s2, s3, s4}
MCSession3 == {s1, s2, s3}
MCNameTaken == {s1, s3, s4}
MCReplaced  == {s1, s2}
MCUser     == {a, b}
MCUserOf == [s \in Session |-> IF s = s3 THEN b ELSE a]
MCAddrOf == [s \in Session |-> IF s = s4 THEN "elsewhere" ELSE "here"]

(* The decimal digits of descriptors 4 to 8 hash to different buckets (the  *)
(* hash has fixed seeds): no entry slides into another's bucket.            *)
MCNoSlide == [f \in ClientFds |-> {}]

(* Those of 5, 8 and 9 are a chain (3:9 2:8, 2:9, 3:5 mod 16); 4, 5 and 6   *)
(* stand for 8, 9 and 5 here.                                               *)
MCSlide == [f \in ClientFds |-> IF f \in {4, 5} THEN {f + 1} \cap ClientFds ELSE {}]

=============================================================================
