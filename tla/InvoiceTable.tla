---------------------------- MODULE InvoiceTable ----------------------------
(***************************************************************************)
(* The invoice table and the single-statement updates gp-core::invoice     *)
(* makes on it.  A table is a function from invoice ids to rows; an id     *)
(* that has not been inserted holds AbsentRow.  Every operator is one SQL  *)
(* statement, which the one-connection SQLite pool runs atomically; the    *)
(* handlers that chain several of them are in the modules that use this    *)
(* one.                                                                    *)
(***************************************************************************)
EXTENDS Naturals

CONSTANTS
    Invoice,     \* invoice ids
    Slate,       \* slate ids, which are also payment row ids
    Amount,      \* nanogrin amounts
    Ref,         \* order references (the payer's memo is compared to them)
    Master,      \* the server's own Nostr key
    NULL         \* SQL NULL / Option::None

(***************************************************************************)
(* The key of an invoice's derived child is named by the invoice itself    *)
(* (gp-core::derive gives every id its own child), so Master is no id.     *)
(***************************************************************************)
ASSUME TableAssumption ==
    /\ Amount \subseteq Nat
    /\ NULL \notin Invoice \cup Slate \cup Amount \cup Ref \cup Nat
    /\ NULL \notin {"memo", "derived", "amount"}
    /\ Master \notin Invoice \cup {NULL}

Mode == {"memo", "derived", "amount"}
Status == {"open", "paid", "confirmed", "expired"}

Row == [status  : Status \cup {"absent"},
        mode    : Mode \cup {NULL},     \* match_mode, NULL = global default
        expected: Amount \cup {NULL},   \* expected_amount
        ref     : Ref \cup {NULL},
        child   : BOOLEAN,              \* recipient_pubkey is the derived child
        created : Nat,
        expiry  : Nat \cup {NULL},
        paidBy  : Slate \cup {NULL}]    \* paid_payment_id

AbsentRow == [status |-> "absent", mode |-> NULL, expected |-> NULL,
              ref |-> NULL, child |-> FALSE, created |-> 0,
              expiry |-> NULL, paidBy |-> NULL]

\* What POST /invoice asks for, after a fiat amount has been priced.
NewInvoice == [mode    : Mode \cup {NULL}, expected : Amount \cup {NULL},
               ref     : Ref \cup {NULL},  ttl      : Nat \cup {NULL}]

Coalesce(a, b) == IF a = NULL THEN b ELSE a

\* invoice::create: the key is derived from the effective mode, but the
\* stored mode is the override alone.
Created(p, default, now) ==
    [status   |-> "open",
     mode     |-> p.mode,
     expected |-> p.expected,
     ref      |-> p.ref,
     child    |-> Coalesce(p.mode, default) = "derived",
     created  |-> now,
     expiry   |-> IF p.ttl = NULL THEN NULL ELSE now + p.ttl,
     paidBy   |-> NULL]

RecipientOf(tab, i) == IF tab[i].child THEN i ELSE Master

\* `expiry IS NOT NULL AND expiry <= now`
PastExpiry(tab, i, now) == tab[i].expiry # NULL /\ tab[i].expiry <= now

\* expire_if_due_id, and the UPDATE at the head of get_by_token.
ExpireIfDue(tab, i, now) ==
    IF tab[i].status = "open" /\ PastExpiry(tab, i, now)
    THEN [tab EXCEPT ![i].status = "expired"] ELSE tab

\* Mutant: the two ids are bound in the wrong order.
MarkPaidSwapped(tab, i, s) ==
    IF tab[i].status = "open"
    THEN [tab EXCEPT ![i].status = "paid", ![i].paidBy = i] ELSE tab
\* Mutant: the UPDATE has no condition on the status.
MarkPaidAlways(tab, i, s) == [tab EXCEPT ![i].status = "paid", ![i].paidBy = s]

\* invoice::mark_paid: only an open invoice takes a payer.
MarkPaid(tab, i, s) ==
    IF tab[i].status = "open"
    THEN [tab EXCEPT ![i].status = "paid", ![i].paidBy = s] ELSE tab

\* invoice::mark_confirmed: only a paid invoice confirms; its boolean result
\* is MayConfirm in the state the UPDATE runs in.
MayConfirm(tab, i) == tab[i].status = "paid"

MarkConfirmed(tab, i) ==
    IF MayConfirm(tab, i) THEN [tab EXCEPT ![i].status = "confirmed"] ELSE tab

=============================================================================
