----------------------------- MODULE MCErasure ------------------------------
(***************************************************************************)
(* Finite instances of Erasure for TLC.                                    *)
(***************************************************************************)
EXTENDS Erasure

CONSTANTS w1, w2

OneSave  == {w1}
TwoSaves == {w1, w2}
=============================================================================
