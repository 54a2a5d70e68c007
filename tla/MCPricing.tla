----------------------------- MODULE MCPricing ------------------------------
(***************************************************************************)
(* An instance of Pricing for TLC: three checkouts, one enabled currency   *)
(* and one that is not.                                                    *)
(***************************************************************************)
EXTENDS PricingProperties, TLC

CONSTANTS i1, i2, i3, usd, chf

Amounts == 0..MaxNow

Fiat == [authorized |-> TRUE, pay |-> "fiat", grin |-> 0, fiat |-> "decimal",
         currency |-> usd, mode |-> NULL, ttl |-> NULL]

\* A fiat amount whose expiry is beyond the lock, one no rate can hold, one in a
\* currency that is not enabled, and an amount in GRIN.
Bodies == {[Fiat EXCEPT !.ttl = QUOTE_TTL + 1],
           [Fiat EXCEPT !.fiat = "overflows"],
           [Fiat EXCEPT !.currency = chf],
           [Fiat EXCEPT !.pay = "grin", !.grin = 1]}

=============================================================================
