----------------------------- MODULE Grin1Rail -----------------------------
(***************************************************************************)
(* The grin1 rail: the server issues an invoice slate (I1) with every      *)
(* invoice, the payer answers with an I2 through the Foreign API or the    *)
(* paste form, and the server finalizes it, posts the transaction itself   *)
(* and settles the invoice by slate id.  A sweep cancels what expires.     *)
(*                                                                         *)
(* One action per wallet call or SQL statement of a request.  Invoices may *)
(* be paid on another rail meanwhile; Settlement has those handlers in     *)
(* detail, and here their statements are one action.                       *)
(***************************************************************************)
EXTENDS InvoiceTable, FiniteSets

CONSTANTS
    Issuable,     \* slate ids the wallet may draw for an I1
    Offers,       \* what POST /invoice may ask for
    DefaultMode,  \* GP_MATCH_MODE
    Worker,       \* Actix workers
    FaultKinds,   \* which faults the environment may inject
    MaxFaults,    \* bound: how many of them
    MaxTime       \* bound: last instant of the clock

ASSUME Grin1Assumption ==
    /\ Issuable \subseteq Slate /\ "absent" \notin Invoice
    /\ Offers \subseteq NewInvoice
    /\ DefaultMode \in Mode
    /\ FaultKinds \subseteq {"node", "db", "crash"}
    /\ MaxFaults \in Nat /\ MaxTime \in Nat

VARIABLES
    invoice,    \* table invoice
    slateOf,    \* its column slate_id; set means rail = 'grin1'
    ledger,     \* table payment: invoice_id of each row
    context,    \* the wallet's stored context of each issued slate
    request,    \* what each worker is doing
    sweep,      \* the expiry sweep
    now,        \* the clock
    posted,     \* history: times each slate's transaction reached a node
    told,       \* history: payment.received events enqueued by this rail
    faults      \* history: faults injected

tables == <<invoice, slateOf, ledger>>
history == <<posted, told>>
vars == <<tables, context, request, sweep, now, history, faults>>

Plain == Slate \ Issuable   \* payments of the other rails

Context == {"none", "stored", "finalized", "cancelled"}

Request == [pc      : {"idle", "issue", "attach", "finalize", "post",
                       "lookup", "insert", "pay", "notify"},
            invoice : Invoice \cup {NULL},
            slate   : Issuable \cup {NULL},
            onion   : BOOLEAN]          \* the I2 came over the Foreign API

Idle == [pc |-> "idle", invoice |-> NULL, slate |-> NULL, onion |-> FALSE]

Sweep == [pc     : {"asleep", "cancel", "expire", "stopped"},
          work   : SUBSET Invoice,      \* due rows not yet cancelled
          target : Invoice \cup {NULL}]

Asleep == [pc |-> "asleep", work |-> {}, target |-> NULL]

Fault(kind) == /\ kind \in FaultKinds /\ faults < MaxFaults
               /\ faults' = faults + 1

At(w, pc) == request[w].pc = pc
Goto(w, pc) == request' = [request EXCEPT ![w].pc = pc]
Finish(w) == request' = [request EXCEPT ![w] = Idle]

\* finalize_slate posts with the wallet still locked; the paste form does not.
WalletHeld == \E w \in Worker : At(w, "post") /\ request[w].onion

-----------------------------------------------------------------------------
(* POST /invoice: create, then arm_grin1_rail *)

Create(w, i, p) ==
    /\ At(w, "idle") /\ invoice[i].status = "absent"
    /\ invoice' = ExpireIfDue([invoice EXCEPT ![i] = Created(p, DefaultMode, now)], i, now)
    /\ request' = IF p.expected = NULL THEN request
                  ELSE [request EXCEPT ![w] = [Idle EXCEPT !.pc = "issue", !.invoice = i]]
    /\ UNCHANGED <<slateOf, ledger, context, sweep, now, history, faults>>

\* issue_invoice_tx stores the context under a fresh slate id.
Issue(w, s) ==
    /\ At(w, "issue") /\ ~WalletHeld
    /\ context[s] = "none"
    /\ context' = [context EXCEPT ![s] = "stored"]
    /\ request' = [request EXCEPT ![w].pc = "attach", ![w].slate = s]
    /\ UNCHANGED <<tables, sweep, now, history, faults>>

\* attach_grin1, and the row is read again.
Attach(w) ==
    /\ At(w, "attach")
    /\ slateOf' = [slateOf EXCEPT ![request[w].invoice] = request[w].slate]
    /\ invoice' = ExpireIfDue(invoice, request[w].invoice, now)
    /\ Finish(w)
    /\ UNCHANGED <<ledger, context, sweep, now, history, faults>>

\* The chain tip cannot be read, or the UPDATE fails: the invoice goes out on
\* its other rails.
ArmFails(w) ==
    /\ \/ At(w, "issue") /\ Fault("node")
       \/ At(w, "attach") /\ Fault("db")
    /\ Finish(w)
    /\ UNCHANGED <<tables, context, sweep, now, history>>

-----------------------------------------------------------------------------
(* The I2 comes back, by either door *)

\* The payer has seen an I1 once it is attached to the invoice.
Returned(i) == slateOf[i] # NULL

Begin(w, i, onion) ==
    request' = [request EXCEPT ![w] = [pc |-> "finalize", invoice |-> i,
                                       slate |-> slateOf[i], onion |-> onion]]

\* finalize_tx of the Foreign API.
OnionI2(w, i) ==
    /\ At(w, "idle") /\ Returned(i)
    /\ Begin(w, i, TRUE)
    /\ UNCHANGED <<tables, context, sweep, now, history, faults>>

\* manual_slatepack: get_by_token, then route_paste.
PasteI2(w, i) ==
    /\ At(w, "idle") /\ Returned(i)
    /\ invoice' = ExpireIfDue(invoice, i, now)
    /\ IF invoice'[i].status = "open" THEN Begin(w, i, FALSE) ELSE UNCHANGED request
    /\ UNCHANGED <<slateOf, ledger, context, sweep, now, history, faults>>

\* Mutant: finalizing leaves the context in the wallet.
ContextKept(s) == UNCHANGED context
\* owner::finalize_tx / foreign::finalize_tx deletes the context it used.
ContextUsed(s) == context' = [context EXCEPT ![s] = "finalized"]

\* Without a stored context the wallet reports an error and the request ends.
Finalize(w) ==
    /\ At(w, "finalize") /\ ~WalletHeld
    /\ IF context[request[w].slate] = "stored"
       THEN ContextUsed(request[w].slate) /\ Goto(w, "post")
       ELSE UNCHANGED context /\ Finish(w)
    /\ UNCHANGED <<tables, sweep, now, history, faults>>

Post(w) ==
    /\ At(w, "post")
    /\ posted' = [posted EXCEPT ![request[w].slate] = @ + 1]
    /\ Goto(w, "lookup")
    /\ UNCHANGED <<tables, context, sweep, now, told, faults>>

\* Mutant: a failed post is logged, and settlement goes on.
SettleUnposted(w) == Goto(w, "lookup")
AfterPostError(w) == Finish(w)

\* The node refuses, or its answer is lost, or the kernel is not found in the
\* log afterwards: the request ends with an error, posted or not.
PostFails(w) ==
    /\ At(w, "post") /\ Fault("node")
    /\ \E reached \in {0, 1} :
          posted' = [posted EXCEPT ![request[w].slate] = @ + reached]
    /\ AfterPostError(w)
    /\ UNCHANGED <<tables, context, sweep, now, told>>

-----------------------------------------------------------------------------
(* settle_finalized *)

\* Mutant: an invoice that is no longer open is not settled.
LookupOpen(i) == slateOf[i] # NULL /\ invoice[i].status = "open"
\* get_by_slate_id finds the row whatever its status.
Found(i) == slateOf[i] # NULL

Lookup(w) ==
    /\ At(w, "lookup")
    /\ LET hits == {i \in Invoice : Found(i) /\ slateOf[i] = request[w].slate} IN
       IF hits = {} THEN Finish(w)
       ELSE \E i \in hits :
              request' = [request EXCEPT ![w].pc = "insert", ![w].invoice = i]
    /\ UNCHANGED <<tables, context, sweep, now, history, faults>>

\* A second row under the same id is refused, and the error swallowed.
Insert(w) ==
    /\ At(w, "insert")
    /\ ledger' = [ledger EXCEPT ![request[w].slate] =
                    IF @ = "absent" THEN request[w].invoice ELSE @]
    /\ Goto(w, "pay")
    /\ UNCHANGED <<invoice, slateOf, context, sweep, now, history, faults>>

\* Only the settlement that flips the invoice tells the store.
AfterMarkPaid(w, won) == IF won THEN Goto(w, "notify") ELSE Finish(w)

Pay(w) ==
    /\ At(w, "pay")
    /\ invoice' = MarkPaid(invoice, request[w].invoice, request[w].slate)
    /\ AfterMarkPaid(w, invoice[request[w].invoice].status = "open")
    /\ UNCHANGED <<slateOf, ledger, context, sweep, now, history, faults>>

Notify(w) ==
    /\ At(w, "notify")
    /\ told' = [told EXCEPT ![request[w].slate] = @ + 1]
    /\ Finish(w)
    /\ UNCHANGED <<tables, context, sweep, now, posted, faults>>

\* Any statement may fail: only the INSERT's failure does not end the request.
StatementFails(w) ==
    /\ Fault("db")
    /\ \/ request[w].pc \in {"lookup", "pay", "notify"} /\ Finish(w)
       \/ At(w, "insert") /\ Goto(w, "pay")
    /\ UNCHANGED <<tables, context, sweep, now, history>>

-----------------------------------------------------------------------------
(* The expiry sweep: spawn_expiry_cancel *)

NextDue(rest) == IF rest = {} THEN Asleep
                 ELSE [pc |-> "cancel", work |-> rest, target |-> NULL]

\* due_grin1_slates: what a reader has already marked expired is not listed.
SweepRead ==
    /\ sweep.pc = "asleep"
    /\ sweep' = NextDue({i \in Invoice : /\ slateOf[i] # NULL
                                         /\ invoice[i].status = "open"
                                         /\ PastExpiry(invoice, i, now)})
    /\ UNCHANGED <<tables, context, request, now, history, faults>>

\* wallet.cancel: a stored context is gone afterwards; what the wallet answers
\* for one that was used or cancelled before is left open.
SweepCancel(i) ==
    /\ sweep.pc = "cancel" /\ i \in sweep.work /\ ~WalletHeld
    /\ context' = [context EXCEPT ![slateOf[i]] = IF @ = "stored" THEN "cancelled" ELSE @]
    /\ \/ sweep' = [pc |-> "expire", work |-> sweep.work \ {i}, target |-> i]
       \/ context[slateOf[i]] # "stored" /\ sweep' = NextDue(sweep.work \ {i})
    /\ UNCHANGED <<tables, request, now, history, faults>>

\* Mutant: the invoice is expired although its context is still there.
ExpireAnyway(i) == sweep' = [pc |-> "expire", work |-> sweep.work \ {i}, target |-> i]
\* Mutant: the first error ends the task.
SweepStops(i) == sweep' = [Asleep EXCEPT !.pc = "stopped"]
\* The row stays open and the next pass finds it again.
CancelRefused(i) == sweep' = NextDue(sweep.work \ {i})

SweepCancelFails(i) ==
    /\ sweep.pc = "cancel" /\ i \in sweep.work /\ Fault("node")
    /\ CancelRefused(i)
    /\ UNCHANGED <<tables, context, request, now, history>>

\* Mutant: the UPDATE has no condition on the status.
ExpireAlways(tab, i) == [tab EXCEPT ![i].status = "expired"]
\* invoice::mark_expired
MarkExpired(tab, i) ==
    IF tab[i].status = "open" THEN [tab EXCEPT ![i].status = "expired"] ELSE tab

SweepExpire ==
    /\ sweep.pc = "expire"
    /\ invoice' = MarkExpired(invoice, sweep.target)
    /\ sweep' = NextDue(sweep.work)
    /\ UNCHANGED <<slateOf, ledger, context, request, now, history, faults>>

SweepExpireFails ==
    /\ sweep.pc = "expire" /\ Fault("db")
    /\ sweep' = NextDue(sweep.work)
    /\ UNCHANGED <<tables, context, request, now, history>>

-----------------------------------------------------------------------------
(* The rest of the server, and the world *)

\* A pay page, a status read, an admin page: get, get_by_token, list.
View(i) ==
    /\ invoice[i].status = "open" /\ PastExpiry(invoice, i, now)
    /\ invoice' = ExpireIfDue(invoice, i, now)
    /\ UNCHANGED <<slateOf, ledger, context, request, sweep, now, history, faults>>

\* A payment of another rail wins the invoice, or comes second: its row is
\* linked either way.
PlainPayment(i, s) ==
    /\ s \in Plain /\ ledger[s] = "absent"
    /\ invoice[i].status # "absent"
    /\ invoice' = MarkPaid(invoice, i, s)
    /\ ledger' = [ledger EXCEPT ![s] = i]
    /\ UNCHANGED <<slateOf, context, request, sweep, now, history, faults>>

\* The confirmation poll finds a row's kernel deep enough.
PollConfirms(s) ==
    /\ ledger[s] \in Invoice
    /\ s \in Issuable => posted[s] > 0
    /\ MayConfirm(invoice, ledger[s])
    /\ invoice' = MarkConfirmed(invoice, ledger[s])
    /\ UNCHANGED <<slateOf, ledger, context, request, sweep, now, history, faults>>

Crash ==
    /\ Fault("crash")
    /\ request' = [w \in Worker |-> Idle]
    /\ sweep' = Asleep
    /\ UNCHANGED <<tables, context, now, history>>

Tick == /\ now < MaxTime
        /\ now' = now + 1
        /\ UNCHANGED <<tables, context, request, sweep, history, faults>>

-----------------------------------------------------------------------------

Init ==
    /\ invoice = [i \in Invoice |-> AbsentRow]
    /\ slateOf = [i \in Invoice |-> NULL]
    /\ ledger = [s \in Slate |-> "absent"]
    /\ context = [s \in Issuable |-> "none"]
    /\ request = [w \in Worker |-> Idle]
    /\ sweep = Asleep
    /\ now = 0
    /\ posted = [s \in Issuable |-> 0]
    /\ told = [s \in Issuable |-> 0]
    /\ faults = 0

\* A request runs to its end.
RequestStep(w) ==
    \/ \E s \in Issuable : Issue(w, s)
    \/ Attach(w) \/ Finalize(w) \/ Post(w)
    \/ Lookup(w) \/ Insert(w) \/ Pay(w) \/ Notify(w)

Next ==
    \/ \E w \in Worker :
          \/ \E i \in Invoice, p \in Offers : Create(w, i, p)
          \/ \E i \in Invoice : OnionI2(w, i) \/ PasteI2(w, i)
          \/ RequestStep(w)
          \/ ArmFails(w) \/ PostFails(w) \/ StatementFails(w)
    \/ SweepRead \/ SweepExpire \/ SweepExpireFails
    \/ \E i \in Invoice : SweepCancel(i) \/ SweepCancelFails(i) \/ View(i)
    \/ \E i \in Invoice, s \in Slate : PlainPayment(i, s)
    \/ \E s \in Slate : PollConfirms(s)
    \/ Crash \/ Tick

Spec == Init /\ [][Next]_vars

\* The runtime drives every request and the sweep's task on.
Fairness ==
    /\ \A w \in Worker : WF_vars(RequestStep(w))
    /\ WF_vars(SweepRead)
    /\ WF_vars(\E i \in Invoice : SweepCancel(i))
    /\ WF_vars(SweepExpire)

LiveSpec == Spec /\ Fairness

=============================================================================
