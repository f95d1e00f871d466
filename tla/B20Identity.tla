----------------------------- MODULE B20Identity -----------------------------
(***************************************************************************)
(* Whether an address is a verified issue: the official list, the factory  *)
(* and the live reads have to agree.                                       *)
(*   packages/domain/src/b20/registry.ts                                   *)
(*   packages/reconciler/src/b20-registry.ts                               *)
(*                                                                         *)
(* Evidence is a record with None for a read that did not answer.  A       *)
(* registry is a function from keys to entries.                            *)
(***************************************************************************)
EXTENDS Integers, FiniteSets

CONSTANT None

AssetStatuses == {"VERIFIED", "CHANGED", "CONFLICT", "RETIRED", "UNKNOWN"}

Verdict(status, reasons) == [status |-> status, reasons |-> reasons]

Unanswered(e) ==
    \/ e.initialized = None
    \/ \E read \in {"decimals", "multiplier", "symbol", "name"} : e[read] = None

\* The prefix is recorded and never sufficient.
Unlisted(e, known) ==
    Verdict(IF known # None /\ known.status = "VERIFIED" THEN "RETIRED" ELSE "UNKNOWN",
            {"B20_NOT_ON_OFFICIAL_LIST"}
            \cup (IF e.prefixMatches THEN {"B20_PREFIX_ONLY_IDENTITY"} ELSE {}))

\* Decimals have no setter, the names do: the one is another contract, the other a review.
AgainstKnown(e, known) ==
    IF known = None THEN Verdict("VERIFIED", {})
    ELSE IF known.decimals # e.decimals THEN Verdict("CONFLICT", {"B20_DECIMAL_MISMATCH"})
    ELSE IF known.symbol # e.symbol \/ known.name # e.name
    THEN Verdict("CHANGED", {"B20_IDENTITY_DRIFT"})
    ELSE Verdict("VERIFIED", {})

\* Conflicts before absences.
VerifyB20Identity(e, known) ==
    IF e.fixture THEN Verdict("UNKNOWN", {"B20_FIXTURE_NOT_PRODUCTION"})
    ELSE IF e.mixedCase THEN Verdict("CONFLICT", {"B20_IDENTITY_DRIFT"})
    ELSE IF e.onOfficialList /\ e.initialized = FALSE
    THEN Verdict("CONFLICT", {"B20_NOT_FACTORY_INITIALIZED"})
    ELSE IF ~e.onOfficialList THEN Unlisted(e, known)
    ELSE IF Unanswered(e) THEN Verdict("UNKNOWN", {"B20_RPC_UNAVAILABLE"})
    ELSE AgainstKnown(e, known)

UsableForProtectedAction(e, known) ==
    VerifyB20Identity(e, known).status = "VERIFIED" /\ ~e.fixture

-----------------------------------------------------------------------------

\* Problems are collected; any of them refuses the whole manifest.
ManifestIssues(manifest) ==
    (IF manifest.schemaVersion = 1 THEN {} ELSE {"schemaVersion"})
    \cup (IF manifest.chainId = 8453 THEN {} ELSE {"chainId"})
    \cup (IF manifest.assets = {} THEN {"no assets"} ELSE {})
    \cup {a.address : a \in {b \in manifest.assets :
            \/ b.mixedCase \/ b.chainId # 8453 \/ b.decimals \notin 6..18
            \/ b.multiplier <= 0 \/ b.issuerSource = None}}

\* What a manifest says of an asset nobody has read: on the list, and nothing else.
NotRead(asset) ==
    [onOfficialList |-> TRUE, initialized |-> None, prefixMatches |-> TRUE, fixture |-> FALSE,
     mixedCase |-> FALSE, name |-> None, symbol |-> None, decimals |-> None,
     multiplier |-> None]

OrElse(read, recorded) == IF read = None THEN recorded ELSE read

Entry(asset, e, known) ==
    LET verdict == VerifyB20Identity(e, known)
    IN  [name |-> OrElse(e.name, asset.name), symbol |-> OrElse(e.symbol, asset.symbol),
         decimals |-> asset.decimals, status |-> verdict.status,
         usable |-> UsableForProtectedAction(e, known)]

\* assets, live and known are functions; live and known may lack a key.
At(f, key) == IF key \in DOMAIN f THEN f[key] ELSE None

ProjectB20Registry(assets, live, known) ==
    [key \in DOMAIN assets |->
        Entry(assets[key],
              IF key \in DOMAIN live THEN live[key] ELSE NotRead(assets[key]),
              At(known, key))]

Change(key, kind, review) == [key |-> key, kind |-> kind, requiresReview |-> review]

EntryChanges(key, old, new) ==
    {Change(key, kind, TRUE) : kind \in
        {k \in {"symbol", "name", "decimals"} : old[k] # new[k]}}
    \cup (IF old.status = new.status THEN {}
          ELSE {Change(key, "status", new.status # "VERIFIED")})

\* A refresh is changes and not an overwrite.
DiffB20Registry(before, after) ==
    {Change(key, "added", TRUE) : key \in DOMAIN after \ DOMAIN before}
    \cup {Change(key, "removed", TRUE) : key \in DOMAIN before \ DOMAIN after}
    \cup UNION {EntryChanges(key, before[key], after[key]) :
                    key \in DOMAIN before \cap DOMAIN after}

\* By identity only; a symbol resolves nothing.
ResolveB20Asset(entries, key) == At(entries, key)

=============================================================================
