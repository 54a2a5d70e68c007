-------------------------- MODULE StoreProperties --------------------------
(***************************************************************************)
(* What a merchant and a shop rely on between GoblinPay's outbox and a     *)
(* WooCommerce order or a Medusa session.                                  *)
(***************************************************************************)
EXTENDS Shops

\* The tables, the dispatcher's pass, the order, the requests and the jobs
\* stay well formed; `attempts` never passes MAX_ATTEMPTS (webhook.rs).
TypeOK ==
    /\ outbox \in [Event -> Delivery]
    /\ pass \in Pass
    /\ posts \in [Event -> Nat]
    /\ invoice \in [Invoice -> {"absent", "open", "paid", "confirmed", "expired"}]
    /\ owed \subseteq Event /\ seen \subseteq Event /\ died \subseteq Event
    /\ order \in Order
    /\ hooks \subseteq Hook
    /\ job \in [Jobs -> Job]
    /\ faults \in 0..MaxFaults
    /\ session \in Session /\ poll \in Poll

\* A shop is not flooded: one event is POSTed MAX_ATTEMPTS times at most, plus
\* once for every restart or failed UPDATE that kept an attempt from being
\* counted (drain ends its pass on an error, webhookd.rs).
PostsBounded == \A e \in Event : posts[e] <= MaxAttempts + faults

\* An order is completed only on a kernel that is buried on chain: never for a
\* receipt that the payer may not have broadcast, whichever of webhook, poll
\* and expiry job completes it.  A Medusa session is captured sooner, on the
\* receipt, but never for an invoice that nobody paid.
CompletedOnlyIfConfirmed ==
    /\ order.completions > 0 => \E i \in Invoice : invoice[i] = "confirmed"
    /\ session.status = "captured" => \E i \in Invoice : invoice[i] \in {"paid", "confirmed"}

\* The one way a completion is lost: the expiry job had reloaded the order before
\* the completion and cancels it afterwards (goblinpay_wc_maybe_expire_order, an
\* update_status on its own copy).
CancelledOver == order.status = "cancelled" /\ order.completions > 0

\* WooCommerce notes the event id before it touches the order, and acknowledges
\* a retry of a noted event unread.  So once the confirmation of the order's own
\* invoice counts as delivered, the order is paid, or a request is still working
\* on it, or one died over it, or the expiry job has cancelled over the completion.
AckedIsApplied ==
    \A e \in Event :
        (/\ shop = "woocommerce" /\ outbox[e].delivered
         /\ Type(e) = "confirmed" /\ InvoiceOf(e) = order.invoice)
        => \/ IsPaid
           \/ \E h \in hooks : h.event = e /\ h.pc \in {"load", "act"}
           \/ e \in died
           \/ CancelledOver

\* A poll that finds the invoice settled captures the session: polling is the
\* fallback for a webhook that was missed (service.ts:13-14).
PollIsFallback ==
    poll.pc = "applied" /\ poll.status \in {"paid", "confirmed"} => session.status = "captured"

\* Every event in the outbox is delivered or given up in the end, whatever the
\* shop answers and however often the server restarts (the outbox is persisted).
EnqueuedSettles ==
    \A e \in Event : outbox[e].queued ~> (outbox[e].delivered \/ GivenUp(e))

=============================================================================
