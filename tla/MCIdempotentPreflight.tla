------------------------ MODULE MCIdempotentPreflight -----------------------
(* A first attempt, a retry of it, and another body under the same key; a    *)
(* fourth attempt has a key of its own.                                      *)
EXTENDS IdempotentPreflight

CONSTANTS first, retry, other, elsewhere, k1, k2, h1, h2

MCKey == [a \in Attempts |-> IF a = elsewhere THEN k2 ELSE k1]
MCHash == [a \in Attempts |-> IF a = other THEN h2 ELSE h1]

=============================================================================
