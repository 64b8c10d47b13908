------------------------------ MODULE MCEbcInt ------------------------------
(* Image handles and addresses of thunks are only compared.                *)
EXTENDS EbcInt, TLC

MCSymmetry == Permutations(Images) \cup Permutations(Thunks)
=============================================================================
