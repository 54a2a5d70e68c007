------------------------ MODULE SettlementProperties ------------------------
(***************************************************************************)
(* What must be true of the money path.  The first group holds whatever    *)
(* fails; each property of the second names the faults it cannot bear; the *)
(* third is liveness.  What comments and docs of the repository say and    *)
(* the code does not keep are properties of these too, run with the faults *)
(* or the bounds that break them.                                          *)
(***************************************************************************)
EXTENDS Settlement

\* Every variable holds a value of its kind; in particular a payment row never
\* records more depth than the poll asks for (confirm_pending).
TypeOK ==
    /\ invoices \in [Invoice -> Row]
    /\ payments \in [Slate -> Payment]
    /\ receivedHook \in [Slate -> Nat]
    /\ confirmedHook \in [Invoice -> Nat]
    /\ wallet \subseteq Slate /\ s2 \subseteq Slate
    /\ depth \in [Slate -> 0..Required]
    /\ now \in Nat
    /\ watched \subseteq Key
    /\ handler \in [Handler -> HandlerState]
    /\ todo \subseteq Slate
    /\ poll \in PollState
    /\ rejected \subseteq Slate
    /\ faults \in Nat

Settled(i) == invoices[i].status \in {"paid", "confirmed"}

\* The amount-binding guard of match_payment: an invoice is settled by a
\* payment of exactly what it asks for, though the guard is read several
\* statements before the UPDATE that marks it paid.
PaidExactly ==
    \A i \in Invoice : Settled(i) =>
        /\ invoices[i].paidBy \in Slate
        /\ Satisfies(invoices, i, AmountOf[invoices[i].paidBy])

\* A payment row is linked only to an invoice it pays exactly, whichever
\* payment won that invoice (the UPDATE that ends match_payment).
LinkedExactly ==
    \A s \in Slate : payments[s].inv # NULL =>
        /\ invoices[payments[s].inv].status # "absent"
        /\ Satisfies(invoices, payments[s].inv, AmountOf[s])

\* finalize_invoice: `confirmed` means that some payment linked to the invoice
\* has been recorded at the required depth, though the invoice the poll
\* finalizes comes from a work list read before the node was asked.
ConfirmedHasDepth ==
    \A i \in Invoice : invoices[i].status = "confirmed" =>
        \E s \in Slate : payments[s].inv = i /\ payments[s].conf = Required

\* Only the transition to `confirmed` fires the event: one announcement at
\* most, and none for an invoice that is not final, over any number of poll
\* passes, linked payments and restarts.
ConfirmedOnce ==
    \A i \in Invoice : /\ confirmedHook[i] <= 1
                       /\ confirmedHook[i] = 1 => invoices[i].status = "confirmed"

\* The wallet's duplicate guard keeps one slate in one handler: no two
\* requests match, link or announce the same payment at the same time.
SingleWriter ==
    \A v, w \in Handler :
        v # w /\ handler[v].slate # NULL => handler[v].slate # handler[w].slate

\* The handlers, the poll and the clock together implement what is promised
\* about each invoice: opened once, paid once by one exact payment, confirmed
\* once, announced at most once, never re-opened.
Lifecycle ==
    INSTANCE InvoiceLifecycle WITH
        status    <- [i \in Invoice |-> invoices[i].status],
        expected  <- [i \in Invoice |-> invoices[i].expected],
        paidBy    <- [i \in Invoice |-> invoices[i].paidBy],
        announced <- confirmedHook

ImplementsLifecycle == Lifecycle!Spec

-----------------------------------------------------------------------------

\* WalletReceiver::receive: a slate the amount guard refused is never
\* answered, so the payer cannot complete an underpayment.  Not across a crash:
\* the boot reconcile answers a row whose DELETE never ran.
RejectedNeverReplied == rejected \cap s2 = {}

\* A slate the wallet has taken is on record, about to be, or was refused.  Not
\* across a crash, a failed INSERT, or an error of the wallet after its commit.
ReceivedIsRecorded ==
    \A s \in wallet : \/ Present(s)
                      \/ s \in rejected
                      \/ \E w \in Handler : At(w, "insert") /\ handler[w].slate = s

\* The store hears of a payment once, and before the payer can complete it
\* (persist_and_match enqueues, then the S2 is handed back).  That it was told
\* needs the enqueue to succeed and no crash before it.
NotifiedBeforeReply ==
    \A s \in Slate : /\ receivedHook[s] <= 1
                     /\ s \in s2 => receivedHook[s] = 1

\* A settled invoice's payer is on record, so the poll can find its kernel
\* (persist_and_match deletes only rows of refused payments), through any crash
\* as long as no statement fails.
PaidHasRow ==
    \A i \in Invoice : Settled(i) => Present(invoices[i].paidBy)

-----------------------------------------------------------------------------

PaidOnChain(i) == /\ invoices[i].status = "paid"
                  /\ depth[invoices[i].paidBy] > 0

\* confirm_pending: an invoice whose payment is on chain becomes final.
PaidEventuallyConfirmed ==
    \A i \in Invoice : PaidOnChain(i) ~> invoices[i].status = "confirmed"

\* Every payment taken is answered with its S2 or refused: no rail, and no
\* order of its statements, leaves the payer without an answer.
ReceivedIsAnswered ==
    \A s \in Slate : s \in wallet ~> s \in s2 \cup rejected

\* README, webhook contract: a final invoice is announced to the store.
ConfirmedIsAnnounced ==
    \A i \in Invoice : invoices[i].status = "confirmed" ~> confirmedHook[i] > 0

=============================================================================
