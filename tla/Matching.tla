------------------------------ MODULE Matching ------------------------------
(***************************************************************************)
(* The three SELECTs of gp-core::matching, as sets of admissible answers.  *)
(* `ORDER BY created_at LIMIT 1` with one-second timestamps leaves a tie   *)
(* to the database, so a query answers with any of the oldest candidates;  *)
(* an empty set is "no row".                                               *)
(***************************************************************************)
EXTENDS InvoiceTable

\* Open invoices whose effective mode is m; `default` is bound by the caller.
OpenInMode(tab, m, default) ==
    {i \in Invoice : tab[i].status = "open" /\ Coalesce(tab[i].mode, default) = m}

Oldest(tab, S) == {i \in S : \A j \in S : tab[i].created <= tab[j].created}

\* resolve_derived and resolve_memo read neither the amount nor the expiry.
DerivedHits(tab, default, key) ==
    Oldest(tab, {i \in OpenInMode(tab, "derived", default) : RecipientOf(tab, i) = key})

MemoHits(tab, default, memo) ==
    Oldest(tab, {i \in OpenInMode(tab, "memo", default) : tab[i].ref = memo})

AmountHits(tab, default, amount, now) ==
    Oldest(tab, {i \in OpenInMode(tab, "amount", default) :
                    tab[i].expected = amount /\ ~PastExpiry(tab, i, now)})

\* The amount-binding guard: an invoice with an expected amount is satisfied
\* by exactly that amount, one without by any.
Satisfies(tab, i, amount) == tab[i].expected \in {NULL, amount}

=============================================================================
