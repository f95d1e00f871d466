---------------------------- MODULE Canonicality ----------------------------
(***************************************************************************)
(* What the registry declares against what the chain contains.             *)
(*   packages/reconciler/src/canonicality.ts, registry-diff.ts             *)
(*   packages/domain/src/evidence.ts                                       *)
(*                                                                         *)
(* An address is a value of any set; letter case is the representation's.  *)
(***************************************************************************)
EXTENDS SourceComparison, FiniteSets

Outcomes == {"PASS", "FAIL", "UNKNOWN"}

CheckNames ==
    {"TOKEN_MATCHES_REGISTRY", "WRAPPER_MATCHES_REGISTRY", "TOKEN_HAS_BYTECODE",
     "WRAPPER_HAS_BYTECODE", "WRAPPER_ASSET_RELATION", "WRAPPER_VERSION_CURRENT"}

PassIf(condition) == IF condition THEN "PASS" ELSE "FAIL"

\* A declared address against the one the snapshot was read at.
DeclaredCheck(declared, observed) ==
    IF declared = Absent THEN "UNKNOWN" ELSE PassIf(declared = observed)

\* eth_getCode; a failed read also reports FALSE, so the failure is looked up first.
CodeCheck(snapshot, target) ==
    IF target \in snapshot.failed THEN "UNKNOWN" ELSE PassIf(snapshot.code[target])

\* wrapper.asset(); a failed read leaves it absent.
RelationCheck(token, snapshot) ==
    IF snapshot.wrapperAsset = Absent THEN "UNKNOWN"
    ELSE PassIf(snapshot.wrapperAsset = token)

\* verifyCanonicality: six outcomes, never one boolean.  Only wrapperAddressV2
\* counts as the current wrapper.
VerifyCanonicality(deployment, snapshot) ==
    [c \in CheckNames |->
        CASE c = "TOKEN_MATCHES_REGISTRY"   -> PassIf(deployment.token = snapshot.token)
          [] c = "TOKEN_HAS_BYTECODE"       -> CodeCheck(snapshot, "token")
          [] c = "WRAPPER_HAS_BYTECODE"     -> CodeCheck(snapshot, "wrapper")
          [] c = "WRAPPER_ASSET_RELATION"   -> RelationCheck(deployment.token, snapshot)
          [] OTHER -> DeclaredCheck(deployment.wrapper, snapshot.wrapper)]

\* summarizeCanonicality: an empty matrix proves nothing, FAIL dominates UNKNOWN.
SummarizeCanonicality(checks) ==
    LET outcomes == {checks[c] : c \in DOMAIN checks} IN
    IF DOMAIN checks = {} THEN "UNKNOWN"
    ELSE IF "FAIL" \in outcomes THEN "FAIL"
    ELSE IF "UNKNOWN" \in outcomes THEN "UNKNOWN" ELSE "PASS"

\* The block reason of each check.
CheckReason(c) ==
    CASE c \in {"TOKEN_MATCHES_REGISTRY", "TOKEN_HAS_BYTECODE"}     -> "NON_CANONICAL_TOKEN"
      [] c \in {"WRAPPER_MATCHES_REGISTRY", "WRAPPER_HAS_BYTECODE"} -> "NON_CANONICAL_WRAPPER"
      [] c = "WRAPPER_ASSET_RELATION"                               -> "WRAPPER_ASSET_MISMATCH"
      [] c = "WRAPPER_VERSION_CURRENT"                              -> "OUTDATED_WRAPPER"

CanonicalityReasons(checks) ==
    {CheckReason(c) : c \in {d \in DOMAIN checks : checks[d] # "PASS"}}

-----------------------------------------------------------------------------

\* diffRegistry: a registry maps each asset it lists to what it declares of it.
\* Every difference is a change of its own; only those in ReviewedChanges open a
\* review.
FieldChanges(id, prior, entry) ==
    {<<change, id>> : change \in
        {c \in {"TOKEN_CHANGED", "WRAPPER_CHANGED", "SYMBOL_CHANGED"} :
            \/ c = "TOKEN_CHANGED" /\ prior.token # entry.token
            \/ c = "WRAPPER_CHANGED" /\ prior.wrapper # entry.wrapper
            \/ c = "SYMBOL_CHANGED" /\ prior.symbol # entry.symbol}}

DiffRegistry(before, after) ==
    LET kept == DOMAIN before \cap DOMAIN after
        changed(id) == FieldChanges(id, before[id], after[id])
    IN  {<<"DEPLOYMENT_ADDED", id>> : id \in DOMAIN after \ DOMAIN before}
        \cup {<<"DEPLOYMENT_REMOVED", id>> : id \in DOMAIN before \ DOMAIN after}
        \cup UNION {changed(id) : id \in kept}
        \cup {<<"NO_CHANGE", id>> : id \in {k \in kept : changed(k) = {}}}

ReviewedChanges == {"TOKEN_CHANGED", "WRAPPER_CHANGED", "DEPLOYMENT_REMOVED"}

OpensReview(changes) == {c \in changes : c[1] \in ReviewedChanges}

=============================================================================
