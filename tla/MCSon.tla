------------------------------- MODULE MCSon -------------------------------
(***************************************************************************)
(* Small instances of Son for TLC.                                          *)
(***************************************************************************)
EXTENDS Son, TLC

CONSTANTS w1, w2, w3

MCSymmetry == Permutations(Worker)

(* Three threads whose entries lie in a row. *)
MCRow == {{w1, w2, w3}}

=============================================================================
