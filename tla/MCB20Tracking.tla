--------------------------- MODULE MCB20Tracking ---------------------------
(* Bounded instances of B20Tracking. *)
EXTENDS B20Tracking

\* Complete evidence, and what may be missing from it, one thing at a time.
MCFlawSets == {{}, {"noRound"}, {"undialed"}}
MCUnreachable == {{}, {"unreachable"}}

=============================================================================
