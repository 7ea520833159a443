--------------------------- MODULE MCOcppCentral ---------------------------
(* A bounded instance of OcppCentral: two calls handled at a time, one crash. *)
EXTENDS OcppCentral, TLC

CONSTANTS h1, h2

MCHandlers == {h1, h2}

Symmetry == Permutations(MCHandlers)
=============================================================================
