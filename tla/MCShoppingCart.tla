--------------------------- MODULE MCShoppingCart ---------------------------
(* ShoppingCart for two courses, one of them with a verified certificate. *)
EXTENDS ShoppingCart, TLC

CONSTANTS c1, c2

MCRegistrationPrice == c1 :> 1 @@ c2 :> 1
MCCertificatePrice  == c1 :> 2 @@ c2 :> 2
Symmetry == Permutations(Handlers)
=============================================================================
