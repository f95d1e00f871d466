-------------------------- MODULE SourceComparison --------------------------
(***************************************************************************)
(* Field-by-field agreement of two observations.                           *)
(* packages/domain/src/sources.ts                                          *)
(***************************************************************************)
EXTENDS Naturals

CONSTANT Absent     \* a value the source did not report

Agreement == {"MATCH", "MISMATCH", "INCOMPLETE"}

\* combine: disagreement dominates incompleteness, which dominates agreement.
Combine(agreements) ==
    IF "MISMATCH" \in agreements THEN "MISMATCH"
    ELSE IF "INCOMPLETE" \in agreements THEN "INCOMPLETE"
    ELSE "MATCH"

\* compareOptional: both absent is agreement that the value is not set.
CompareOptional(api, chain) ==
    IF api = Absent /\ chain = Absent THEN "MATCH"
    ELSE IF api = Absent \/ chain = Absent THEN "INCOMPLETE"
    ELSE IF api = chain THEN "MATCH" ELSE "MISMATCH"

\* compareSources over the fields both sources must expose, exact tolerance.
CompareSources(api, chain, required) ==
    Combine({CompareOptional(api[f], chain[f]) : f \in required})

=============================================================================
