------------------------------- MODULE MCStore ------------------------------
(* Instances of Store for TLC.                                             *)
EXTENDS Store, TLC

CONSTANTS k1, k2

OneChain == k1 :> 1 @@ k2 :> 1
=============================================================================
