---------------------------- MODULE StoreOrder -----------------------------
(***************************************************************************)
(* One order of a WooCommerce shop, from checkout to completion or         *)
(* cancellation, and what GoblinPay tells the shop about it: the plugin's  *)
(* checkout, webhook receiver, status poll and expiry job, fed by the      *)
(* outbox of Webhook.  The invoices behind the order are those of          *)
(* Settlement, reduced to the statuses a shop can see.                     *)
(*                                                                         *)
(* Every PHP request loads its own copy of the order and works on that     *)
(* copy, so loading the order and acting on it are two actions.            *)
(***************************************************************************)
EXTENDS Webhook

CONSTANTS
    Invoice,      \* invoices that checkouts of this order may create
    NULL,
    Jobs,         \* the scheduled jobs WP-Cron gets to run
    FaultKinds,   \* which faults the environment may inject
    MaxFaults     \* bound: how many of them

ASSUME StoreAssumption ==
    /\ NULL \notin Invoice
    /\ Event = {"received", "confirmed"} \X Invoice
    /\ Jobs \subseteq {"poll", "expire"}
    /\ FaultKinds \subseteq {"checkout", "net", "php", "db", "crash"}
    /\ MaxFaults \in Nat

VARIABLES
    invoice,   \* invoice statuses at the server
    owed,      \* events whose status UPDATE is done and whose INSERT is not
    order,     \* the shop's order
    seen,      \* transients goblinpay_evt_*
    hooks,     \* webhook requests inside the shop
    job,       \* the poll and the expiry job
    died,      \* history: events a PHP request died over
    faults     \* history: faults injected

shopVars == <<order, seen, hooks, job, died>>
serverVars == <<invoice, owed>>
vars == <<webhookVars, serverVars, shopVars, faults>>

Type(e) == e[1]
InvoiceOf(e) == e[2]

Order == [status : {"pending", "on-hold", "processing", "cancelled"},
          invoice : Invoice \cup {NULL},   \* _goblinpay_invoice_id
          completions : Nat]               \* history: payment_complete calls

Hook == [event : Event, n : Nat,           \* the n-th POST of the event
         pc : {"check", "mark", "load", "act"},
         paid : BOOLEAN]                   \* is_paid() of the loaded copy

Job == [pc : {"unscheduled", "scheduled", "ask", "settle", "reload", "cancel", "done"},
        status : {"absent", "open", "paid", "confirmed", "expired"},   \* the answer
        payable : BOOLEAN]                 \* the reloaded copy may be cancelled

Unscheduled == [pc |-> "unscheduled", status |-> "absent", payable |-> FALSE]

\* WC_Order::is_paid: a completed order counts as paid.
IsPaid == order.status = "processing"

Fault(kind) == /\ kind \in FaultKinds /\ faults < MaxFaults
               /\ faults' = faults + 1

JobGoto(j, pc) == job' = [job EXCEPT ![j] = [Unscheduled EXCEPT !.pc = pc]]

-----------------------------------------------------------------------------
(* Checkout: process_payment *)

\* POST /invoice is answered: the order is put on hold, both jobs scheduled.
Checkout(i) ==
    /\ order.status = "pending" /\ invoice[i] = "absent"
    /\ invoice' = [invoice EXCEPT ![i] = "open"]
    /\ order' = [order EXCEPT !.status = "on-hold", !.invoice = i]
    /\ job' = [j \in Jobs |-> [Unscheduled EXCEPT !.pc = "scheduled"]]
    /\ UNCHANGED <<webhookVars, owed, seen, hooks, died, faults>>

\* The answer is lost after the server created the invoice; the customer may
\* check out again, which creates another.
CheckoutAnswerLost(i) ==
    /\ Fault("checkout")
    /\ order.status = "pending" /\ invoice[i] = "absent"
    /\ invoice' = [invoice EXCEPT ![i] = "open"]
    /\ UNCHANGED <<webhookVars, owed, shopVars>>

-----------------------------------------------------------------------------
(* The server *)

\* mark_paid or mark_confirmed, and the event that the same handler inserts
\* into the outbox next.
Advance(i, from, to, event) ==
    /\ invoice[i] = from
    /\ invoice' = [invoice EXCEPT ![i] = to]
    /\ owed' = owed \cup {<<event, i>>}
    /\ UNCHANGED <<webhookVars, shopVars, faults>>

PayInvoice(i) == Advance(i, "open", "paid", "received")
ConfirmInvoice(i) == Advance(i, "paid", "confirmed", "confirmed")

ExpireInvoice(i) ==
    /\ invoice[i] = "open"
    /\ invoice' = [invoice EXCEPT ![i] = "expired"]
    /\ UNCHANGED <<webhookVars, owed, shopVars, faults>>

Announce(e) ==
    /\ e \in owed
    /\ owed' = owed \ {e}
    /\ Enqueue(e)
    /\ UNCHANGED <<pass, posts, invoice, shopVars, faults>>

\* The dispatcher's steps; a POST becomes a request inside the shop.
DispatchDrain == /\ \E W \in SUBSET Event : Drain(W)
                 /\ UNCHANGED <<serverVars, shopVars, faults>>

Dispatch(e) ==
    /\ Post(e)
    /\ hooks' = hooks \cup {[event |-> e, n |-> posts'[e], pc |-> "check", paid |-> FALSE]}
    /\ UNCHANGED <<serverVars, order, seen, job, died, faults>>

DispatchMark(e) ==
    /\ MarkDelivered(e) \/ MarkFailed(e)
    /\ UNCHANGED <<serverVars, shopVars, faults>>

\* The shop refuses the connection, or its proxy answers for it; as often as
\* the dispatcher tries, so this is not counted as a fault.
Unreachable(e) ==
    /\ "net" \in FaultKinds /\ UNCHANGED faults
    /\ Sending(e)
    /\ Answered(FALSE)
    /\ hooks' = {h \in hooks : h.event # e \/ h.n # posts[e]}
    /\ \A h \in hooks \ hooks' : h.pc = "check"
    /\ UNCHANGED <<outbox, posts, serverVars, order, seen, job, died>>

\* REQUEST_TIMEOUT, or the answer is lost: the request runs on in the shop.
AnswerLost(e) ==
    /\ Fault("net")
    /\ Sending(e)
    /\ Answered(FALSE)
    /\ UNCHANGED <<outbox, posts, serverVars, shopVars>>

MarkFails ==
    /\ Fault("db")
    /\ pass.pc \in {"accepted", "refused"}
    /\ PassEnds
    /\ UNCHANGED <<serverVars, shopVars>>

\* The server is restarted: what had not been inserted is never announced.
Crash ==
    /\ Fault("crash")
    /\ owed' = {}
    /\ pass' = Sleeping
    /\ UNCHANGED <<outbox, posts, invoice, shopVars>>

Clock == Elapse /\ UNCHANGED <<serverVars, shopVars, faults>>

-----------------------------------------------------------------------------
(* The webhook receiver: goblinpay_wc_handle_webhook *)

Current(h) == Sending(h.event) /\ posts[h.event] = h.n

\* The request ends with a 2xx; nobody may be waiting for it any more.
Acknowledge(h) ==
    /\ hooks' = hooks \ {h}
    /\ IF Current(h) THEN Answered(TRUE) ELSE UNCHANGED pass

Proceed(h, pc) == hooks' = (hooks \ {h}) \cup {[h EXCEPT !.pc = pc]} /\ UNCHANGED pass

\* get_transient: a known event id is acknowledged at once.
HookCheck(h) ==
    /\ h.pc = "check"
    /\ IF h.event \in seen THEN Acknowledge(h) ELSE Proceed(h, "mark")
    /\ UNCHANGED <<outbox, posts, serverVars, order, seen, job, died, faults>>

\* set_transient, before anything is done about the event.
HookMark(h) ==
    /\ h.pc = "mark"
    /\ seen' = seen \cup {h.event}
    /\ Proceed(h, "load")
    /\ UNCHANGED <<outbox, posts, serverVars, order, job, died, faults>>

\* Mutant: the comparison with the stored invoice id is the wrong way round.
BoundToOther(i) == order.invoice # i
\* Events of an invoice other than the one stored with the order are acked.
Bound(i) == order.invoice \in {NULL, i}

HookLoad(h) ==
    /\ h.pc = "load"
    /\ IF Bound(InvoiceOf(h.event))
       THEN /\ hooks' = (hooks \ {h}) \cup {[h EXCEPT !.pc = "act", !.paid = IsPaid]}
            /\ UNCHANGED pass
       ELSE Acknowledge(h)
    /\ UNCHANGED <<outbox, posts, serverVars, order, seen, job, died, faults>>

\* WC_Order::payment_complete on a copy that is not paid: whatever the order
\* has become since, it is set to processing.
PaymentComplete == [order EXCEPT !.status = "processing", !.completions = @ + 1]

\* Mutant: the off-chain receipt completes the order.
SettlesEarly(type) == type \in {"received", "confirmed"}
Settles(type) == type = "confirmed"

HookAct(h) ==
    /\ h.pc = "act"
    /\ order' = IF Settles(Type(h.event)) /\ ~h.paid THEN PaymentComplete ELSE order
    /\ Acknowledge(h)
    /\ UNCHANGED <<outbox, posts, serverVars, seen, job, died, faults>>

\* The PHP process is killed (memory, time limit, deploy): a 5xx.
HookDies(h) ==
    /\ Fault("php")
    /\ hooks' = hooks \ {h}
    /\ died' = died \cup {h.event}
    /\ IF Current(h) THEN Answered(FALSE) ELSE UNCHANGED pass
    /\ UNCHANGED <<outbox, posts, serverVars, order, seen, job>>

-----------------------------------------------------------------------------
(* The scheduled jobs: goblinpay_wc_poll_invoice, once, and                *)
(* goblinpay_wc_maybe_expire_order, which polls before it cancels.  The    *)
(* payment window decides when they run; any time is possible.             *)

AfterPoll(j) == IF j = "expire" THEN "reload" ELSE "done"

\* The job loads the order; one that is paid needs no poll.
JobLoad(j) ==
    /\ job[j].pc = "scheduled"
    /\ JobGoto(j, IF IsPaid THEN AfterPoll(j) ELSE "ask")
    /\ UNCHANGED <<webhookVars, serverVars, order, seen, hooks, died, faults>>

\* GET /invoice/{id}
JobAsk(j) ==
    /\ job[j].pc = "ask"
    /\ job' = [job EXCEPT ![j].pc = "settle", ![j].status = invoice[order.invoice]]
    /\ UNCHANGED <<webhookVars, serverVars, order, seen, hooks, died, faults>>

JobAskFails(j) ==
    /\ Fault("net")
    /\ job[j].pc = "ask"
    /\ JobGoto(j, AfterPoll(j))
    /\ UNCHANGED <<webhookVars, serverVars, order, seen, hooks, died>>

PollSettles(status) == status = "confirmed"

JobSettle(j) ==
    /\ job[j].pc = "settle"
    /\ order' = IF PollSettles(job[j].status) THEN PaymentComplete ELSE order
    /\ JobGoto(j, AfterPoll(j))
    /\ UNCHANGED <<webhookVars, serverVars, seen, hooks, died, faults>>

JobReload(j) ==
    /\ job[j].pc = "reload"
    /\ job' = [job EXCEPT ![j].pc = "cancel", ![j].payable = order.status = "on-hold"]
    /\ UNCHANGED <<webhookVars, serverVars, order, seen, hooks, died, faults>>

JobCancel(j) ==
    /\ job[j].pc = "cancel"
    /\ order' = IF job[j].payable THEN [order EXCEPT !.status = "cancelled"] ELSE order
    /\ JobGoto(j, "done")
    /\ UNCHANGED <<webhookVars, serverVars, seen, hooks, died, faults>>

-----------------------------------------------------------------------------

Init ==
    /\ InitWebhook
    /\ invoice = [i \in Invoice |-> "absent"]
    /\ owed = {} /\ seen = {} /\ hooks = {} /\ died = {} /\ faults = 0
    /\ order = [status |-> "pending", invoice |-> NULL, completions |-> 0]
    /\ job = [j \in Jobs |-> Unscheduled]

HookStep(h) == HookCheck(h) \/ HookMark(h) \/ HookLoad(h) \/ HookAct(h)

Dispatcher == DispatchDrain \/ \E e \in Event : Dispatch(e) \/ DispatchMark(e)

JobStep(j) == \/ JobLoad(j) \/ JobAsk(j) \/ JobSettle(j)
              \/ JobReload(j) \/ JobCancel(j)

\* What goes on whichever shop is served.
Server ==
    \/ \E i \in Invoice : PayInvoice(i) \/ ConfirmInvoice(i) \/ ExpireInvoice(i)
    \/ \E e \in Event : Announce(e) \/ Unreachable(e) \/ AnswerLost(e)
    \/ Dispatcher \/ Clock
    \/ MarkFails \/ Crash
    \/ \E h \in hooks : HookDies(h)

WooCommerce ==
    \/ \E i \in Invoice : Checkout(i) \/ CheckoutAnswerLost(i)
    \/ \E h \in hooks : HookStep(h)
    \/ \E j \in Jobs : JobStep(j) \/ JobAskFails(j)

=============================================================================
