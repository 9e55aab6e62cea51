--------------------------- MODULE MCIdempotency ---------------------------
(***************************************************************************)
(* Three requests of one client with one key, and one with the same key    *)
(* for another endpoint.                                                   *)
(***************************************************************************)
EXTENDS Idempotency, TLC

CONSTANTS c1, c2, c3, c4, k1, transfer, withdraw

MCKeyOf == [c \in Calls |-> k1]
MCEndpointOf == [c \in Calls |-> IF c = c4 THEN withdraw ELSE transfer]

(* The requests for one endpoint are interchangeable.                      *)
CallSymmetry == Permutations(Calls \ {c4})
=============================================================================
