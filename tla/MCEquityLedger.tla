---------------------------- MODULE MCEquityLedger ----------------------------
(* Bounded instances of EquityLedger. *)
EXTENDS EquityLedger

MCSymmetry == Permutations(Holders)

=============================================================================
