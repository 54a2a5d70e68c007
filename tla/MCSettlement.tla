----------------------------- MODULE MCSettlement -----------------------------
(***************************************************************************)
(* Instances of Settlement for TLC: two invoices, two payments, one or two *)
(* concurrent requests.                                                    *)
(***************************************************************************)
EXTENDS SettlementProperties, TLC

CONSTANTS i1, i2, sA, sB, ref

Low == 1
High == 2

Exact == [s \in Slate |-> Low]
OneShort == (sA :> Low) @@ (sB :> High)

Derived(a, ttl) == [mode |-> "derived", expected |-> a, ref |-> NULL, ttl |-> ttl]
Memo(a, ttl) == [mode |-> "memo", expected |-> a, ref |-> ref, ttl |-> ttl]
ByDefault(a, ttl) == [mode |-> NULL, expected |-> a, ref |-> NULL, ttl |-> ttl]

\* Two modes, and an amount in each that some payment does not pay.
MixedOffers == {Derived(High, NULL), ByDefault(Low, 1)}
RacedOffers == {ByDefault(Low, NULL), Memo(High, NULL)}
DerivedOffers == {Derived(Low, NULL)}

InvoiceSymmetry == Permutations({i1, i2})
SlateSymmetry == Permutations({sA, sB})

=============================================================================
