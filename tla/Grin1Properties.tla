-------------------------- MODULE Grin1Properties --------------------------
(***************************************************************************)
(* What a merchant and a payer rely on when an invoice is paid through its *)
(* own invoice slate.                                                      *)
(***************************************************************************)
EXTENDS Grin1Rail

\* The tables, the wallet's contexts, the requests and the sweep stay well
\* formed.
TypeOK ==
    /\ invoice \in [Invoice -> Row]
    /\ slateOf \in [Invoice -> Issuable \cup {NULL}]
    /\ ledger \in [Slate -> Invoice \cup {"absent"}]
    /\ context \in [Issuable -> Context]
    /\ request \in [Worker -> Request]
    /\ sweep \in Sweep
    /\ now \in 0..MaxTime
    /\ posted \in [Issuable -> Nat] /\ told \in [Issuable -> Nat]
    /\ faults \in 0..MaxFaults

\* "racing the Tor return cannot double-settle or double-post" (checkout.rs,
\* manual_slatepack): one I2 through both doors is posted once.
PostedOnce == \A s \in Issuable : posted[s] <= 1

\* An invoice is marked paid by its slate only when the transaction went out
\* to a node, and only by the slate issued for it.
PaidByPosted ==
    \A i \in Invoice : invoice[i].paidBy \in Issuable =>
        posted[invoice[i].paidBy] > 0 /\ slateOf[i] = invoice[i].paidBy

\* The store hears of a slate once, and only if it is the one that settled the
\* invoice: an I2 that comes after another payment is not announced.
ToldOfTheWinner ==
    \A s \in Issuable : told[s] > 0 =>
        told[s] = 1 /\ \E i \in Invoice : invoice[i].paidBy = s

Finalizable(i) == slateOf[i] # NULL /\ context[slateOf[i]] = "stored"

\* "only expire the invoice once its context is gone" (spawn_expiry_cancel): a
\* step of the sweep expires no invoice whose slate may still be finalized.
SweptIsCancelled ==
    [][\A i \in Invoice :
         (invoice[i].status = "open" /\ invoice'[i].status = "expired" /\ sweep' # sweep)
         => ~Finalizable(i)]_vars

\* With two doors, a sweep, lazy expiry and payments of other rails, an invoice
\* still goes through the life a merchant is promised: one payer, no way back
\* from paid, confirmed last.  Amounts are not told apart on this rail (a slate
\* is issued for what its invoice asks): an invoice asks for some amount or none.
Lifecycle == INSTANCE InvoiceLifecycle WITH
    Amount    <- {"asked"},
    AmountOf  <- [s \in Slate |-> "asked"],
    status    <- [i \in Invoice |-> invoice[i].status],
    expected  <- [i \in Invoice |-> IF invoice[i].expected = NULL THEN NULL ELSE "asked"],
    paidBy    <- [i \in Invoice |-> invoice[i].paidBy],
    announced <- [i \in Invoice |-> 0]

ImplementsLifecycle == Lifecycle!Spec

\* Money that reached the chain is on record: a posted slate gets its payment
\* row, paid invoice or not, unless the server or the node failed meanwhile.
PostedIsRecorded ==
    \A s \in Issuable :
        (posted[s] > 0 /\ faults = 0) ~> (ledger[s] # "absent" \/ faults > 0)

\* An overdue invoice nobody looks at does not stay payable through its slate:
\* the sweep expires it or cancels its context, however a pass went before.
Overdue(i) == PastExpiry(invoice, i, now) /\ invoice[i].status = "open" /\ Finalizable(i)
OverdueCloses == \A i \in Invoice : Overdue(i) ~> ~Overdue(i)

-----------------------------------------------------------------------------
(* A statement of the code's comments that the code does not keep. *)

\* "so a late payer I2 for an expired invoice fails cleanly" (foreign.rs): once
\* an invoice is expired and nothing is in flight, its slate is never posted.
LateI2Fails ==
    \A i \in Invoice, s \in Issuable :
        []((/\ invoice[i].status = "expired" /\ slateOf[i] = s
            /\ posted[s] = 0
            /\ \A w \in Worker : At(w, "idle"))
           => [](posted[s] = 0))

=============================================================================
