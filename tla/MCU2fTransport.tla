--------------------------- MODULE MCU2fTransport ---------------------------
EXTENDS U2fTransport

CONSTANTS a, b

(* Programs differ in nothing but their names. *)
Symmetry == Permutations(Clients)
=============================================================================
