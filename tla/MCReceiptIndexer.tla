-------------------------- MODULE MCReceiptIndexer --------------------------
(* Two receipts; the first can be consumed by either of two transactions.    *)
EXTENDS ReceiptIndexer

CONSTANTS r1, r2, a1, a2, b1

MCReceiptOf == [l \in Logs |-> IF l = b1 THEN r2 ELSE r1]

=============================================================================
