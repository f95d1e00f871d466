---------------------------- MODULE B20Quantities ----------------------------
(***************************************************************************)
(* Raw amounts, share equivalents and their value: the multiplier is       *)
(* applied once, and every floor is accounted for.                         *)
(*   packages/domain/src/b20/quantities.ts, arithmetic.ts, derivation.ts   *)
(*                                                                         *)
(* A refusal is Refused; a price is a record with its basis.               *)
(***************************************************************************)
EXTENDS Integers

CONSTANTS Wad, MaxRaw, MaxProduct   \* 10^18, 2^128 - 1 and 2^256 - 1 in the code

ASSUME Scales == Wad \in Nat \ {0} /\ MaxRaw \in Nat /\ MaxProduct \in Nat

Refused == [refused |-> TRUE]
Ok(result) == ~result.refused

IsRawAmount(v) == v \in 0..MaxRaw
IsMultiplier(v) == v \in 1..MaxRaw
IsTokenDecimals(v) == v \in 6..18
IsPriceDecimals(v) == v \in 0..36

\* floor(raw * m / 1e18), and what the floor discards.
Shares(raw, m) == (raw * m) \div Wad
Remainder(raw, m) == (raw * m) % Wad

RawToShares(raw, m) ==
    IF raw < 0 \/ raw * m > MaxProduct THEN Refused
    ELSE [refused |-> FALSE, shares |-> Shares(raw, m), remainder |-> Remainder(raw, m)]

\* floor(shares * 1e18 / m).  Not an inverse.
Raw(shares, m) == (shares * Wad) \div m

SharesToRaw(shares, m) ==
    IF shares < 0 \/ Raw(shares, m) > MaxRaw THEN Refused
    ELSE [refused |-> FALSE, raw |-> Raw(shares, m), remainder |-> (shares * Wad) % m]

-----------------------------------------------------------------------------

TotalReturn == "TOTAL_RETURN_TOKEN_PRICE"
Underlying  == "UNDERLYING_EQUITY_PRICE"

\* An untraceable price is no price, and neither is one on another basis.
Usable(price, basis) == price.basis = basis /\ price.traced /\ price.value > 0

Valuation(quantity, decimals, price) ==
    [refused |-> FALSE, value |-> quantity * price.value, scale |-> decimals + price.decimals,
     quantity |-> quantity, price |-> price.value, actionable |-> price.freshness = "FRESH"]

\* Route A: the multiplier is in the price.  Route B: it is in the quantity.
ValueRawWithTotalReturnPrice(raw, decimals, price) ==
    IF Usable(price, TotalReturn) THEN Valuation(raw, decimals, price) ELSE Refused

ValueSharesWithUnderlyingPrice(shares, decimals, price) ==
    IF Usable(price, Underlying) THEN Valuation(shares, decimals, price) ELSE Refused

RejectDoubleMultiplier(quantityKind, basis) ==
    \/ quantityKind = "SHARE_EQUIVALENT" /\ basis = TotalReturn
    \/ quantityKind = "RAW" /\ basis = Underlying

Abs(n) == IF n < 0 THEN -n ELSE n

\* Mutant: the floor of the price is forgotten.
QuantityTolerance(b) == b.quantity + 1

\* What the floor of the quantity and the floor of the price can cost.
Tolerance(b) == b.quantity + b.price + 1

Lift(value, scale, common) == value * 10 ^ (common - scale)

CompareValuationRoutes(a, b) ==
    LET common == IF a.scale > b.scale THEN a.scale ELSE b.scale
    IN  Abs(Lift(a.value, a.scale, common) - Lift(b.value, b.scale, common))
            <= Lift(Tolerance(b), b.scale, common)

\* The underlying price every route B on Base runs on: floor(total * 1e18 / m).
DerivedUnderlying(price, m) ==
    [price EXCEPT !.basis = Underlying, !.value = (price.value * Wad) \div m]

\* Both routes side by side; underlying is a set of at most one price.  A price that is not
\* actionable makes the whole not actionable.
DeriveValuation(raw, m, decimals, total, underlying) ==
    LET a == ValueRawWithTotalReturnPrice(raw, decimals, total)
        conversion == RawToShares(raw, m)
        b == {ValueSharesWithUnderlyingPrice(conversion.shares, decimals, price) :
                price \in {p \in underlying : Ok(conversion)}}
    IN  [a |-> a, b |-> b,
         agree |-> {CompareValuationRoutes(a, route) : route \in {x \in b : Ok(a) /\ Ok(x)}},
         actionable |-> /\ Ok(a) /\ a.actionable
                        /\ \A route \in b : Ok(route) /\ route.actionable]

=============================================================================
