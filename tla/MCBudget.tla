------------------------------ MODULE MCBudget ------------------------------
(***************************************************************************)
(* Finite instances of ProviderBudget for TLC.                             *)
(***************************************************************************)
EXTENDS ProviderBudget, TLC

CONSTANTS o1, o2, k1, k2

TwoOps == {o1, o2}
TwoCallers == {k1, k2}
OneEach == (o1 :> 1) @@ (o2 :> 1)
SecondIsLater == {o2}
=============================================================================
