------------------------------- MODULE Shops --------------------------------
(***************************************************************************)
(* The two shops a server can serve: the WooCommerce order of StoreOrder,  *)
(* or one payment session of Medusa's provider, over the same server and   *)
(* outbox (GP_WEBHOOK_URL names one of them).                              *)
(*                                                                         *)
(* The provider keeps nothing itself: it answers what a session's status   *)
(* is to become, to a webhook or to a poll, and Medusa's payment module    *)
(* applies the answer.  Capture, cancel, delete and update of a payment    *)
(* answer without doing anything, and a refund is refused.                 *)
(***************************************************************************)
EXTENDS StoreOrder

CONSTANTS Shop   \* the shops the server may have been set up for

ASSUME ShopsAssumption == Shop \subseteq {"woocommerce", "medusa"}

VARIABLES
    shop,      \* the one it was set up for
    session,   \* Medusa's payment session
    poll       \* a status poll: the answer of GET /invoice/{id}

sessionVars == <<session, poll>>
allVars == <<vars, shop, sessionVars>>

Session == [status : {"pending", "captured", "canceled"}, invoice : Invoice \cup {NULL}]

Poll == [pc : {"idle", "answered", "applied"},
         status : {"absent", "open", "paid", "confirmed", "expired"}]

ShopsInit ==
    /\ Init
    /\ shop \in Shop
    /\ session = [status |-> "pending", invoice |-> NULL]
    /\ poll = [pc |-> "idle", status |-> "absent"]

-----------------------------------------------------------------------------
(* The provider.                                                           *)

\* initiatePayment: the session's id is the order_ref of its invoice.
Initiate(i) ==
    /\ session.invoice = NULL /\ invoice[i] = "absent"
    /\ invoice' = [invoice EXCEPT ![i] = "open"]
    /\ session' = [session EXCEPT !.invoice = i]
    /\ UNCHANGED <<webhookVars, owed, shopVars, faults, poll>>

\* The answer is lost; events of that invoice name the session all the same.
InitiateAnswerLost(i) ==
    /\ Fault("checkout")
    /\ session.invoice = NULL /\ invoice[i] = "absent"
    /\ invoice' = [invoice EXCEPT ![i] = "open"]
    /\ UNCHANGED <<webhookVars, owed, shopVars, sessionVars>>

\* getWebhookActionAndData: either event is a success, and no event is
\* remembered.
SessionAction(h) ==
    /\ h.pc = "check"
    /\ Proceed(h, "act")
    /\ UNCHANGED <<outbox, posts, serverVars, order, seen, job, died, faults, sessionVars>>

\* Medusa applies the action and answers.
SessionCapture(h) ==
    /\ h.pc = "act"
    /\ session' = [session EXCEPT !.status = "captured"]
    /\ Acknowledge(h)
    /\ UNCHANGED <<outbox, posts, serverVars, order, seen, job, died, faults, poll>>

\* authorizePayment and getPaymentStatus: fetchInvoice ...
PollAsk ==
    /\ session.invoice # NULL /\ session.status = "pending" /\ poll.pc # "answered"
    /\ poll' = [pc |-> "answered", status |-> invoice[session.invoice]]
    /\ UNCHANGED <<vars, session>>

\* ... and mapStatus.
SessionStatus(status) ==
    CASE status = "paid"    -> "captured"
      [] status = "expired" -> "canceled"
      [] OTHER              -> "pending"

\* A webhook may have captured the session meanwhile; Medusa leaves it so.
PollApply ==
    /\ poll.pc = "answered"
    /\ poll' = [poll EXCEPT !.pc = "applied"]
    /\ session' = IF session.status = "pending"
                  THEN [session EXCEPT !.status = SessionStatus(poll.status)]
                  ELSE session
    /\ UNCHANGED vars

SessionStep(h) == SessionAction(h) \/ SessionCapture(h)

Medusa ==
    \/ \E i \in Invoice : Initiate(i) \/ InitiateAnswerLost(i)
    \/ \E h \in hooks : SessionStep(h)
    \/ PollAsk \/ PollApply

-----------------------------------------------------------------------------

Next ==
    \/ Server /\ UNCHANGED <<shop, sessionVars>>
    \/ shop = "woocommerce" /\ WooCommerce /\ UNCHANGED <<shop, sessionVars>>
    \/ shop = "medusa" /\ Medusa /\ UNCHANGED shop

Spec == ShopsInit /\ [][Next]_allVars

\* The dispatcher's timer fires, time passes, the shop works on the requests
\* it has accepted.  Jobs need a visitor to trigger WP-Cron, and polls somebody
\* who looks at a session: nothing obliges either.
HandleHook(h) ==
    \/ shop = "woocommerce" /\ HookStep(h) /\ UNCHANGED <<shop, sessionVars>>
    \/ shop = "medusa" /\ SessionStep(h) /\ UNCHANGED shop

Fairness ==
    /\ WF_allVars(Dispatcher /\ UNCHANGED <<shop, sessionVars>>)
    /\ WF_allVars(Clock /\ UNCHANGED <<shop, sessionVars>>)
    /\ WF_allVars(\E h \in hooks : HandleHook(h))

LiveSpec == Spec /\ Fairness

=============================================================================
