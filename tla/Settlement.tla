----------------------------- MODULE Settlement -----------------------------
(***************************************************************************)
(* The money path of gp-server: a payer's S1 slate is received by the      *)
(* wallet, recorded, matched to an invoice, announced to the store and     *)
(* answered with an S2; the payer posts the transaction; the confirmation  *)
(* poll carries the invoice to `confirmed`.                                *)
(*                                                                         *)
(* Three rails run the same handler: the Nostr loop (one thread, one event *)
(* at a time), and the HTTP workers for the pay page's paste form and the  *)
(* Foreign API.  A handler is a sequence of SQL statements with an await   *)
(* between any two, so every statement is an action of its own and         *)
(* handlers, poll, clock and chain interleave between them.                *)
(***************************************************************************)
EXTENDS Matching

CONSTANTS
    AmountOf,          \* the amount each slate pays
    Offers,            \* the invoices the merchant may ask for
    NostrLoop,         \* the gp-nostr thread
    HttpWorkers,       \* concurrent paste / Foreign API requests
    DefaultMode,       \* GP_MATCH_MODE
    Required,          \* GP_CONFIRMATIONS
    FaultKinds,        \* which faults the environment may inject
    MaxFaults,         \* bound: how many of them
    MaxTime,           \* bound: clock ticks
    MaxBlocksPerPass   \* blocks that may arrive during one poll pass

ASSUME SettlementAssumption ==
    /\ AmountOf \in [Slate -> Amount]
    /\ Offers \subseteq NewInvoice
    /\ NostrLoop \notin HttpWorkers
    /\ NULL \notin {"nostr", "paste", "foreign"}
    /\ DefaultMode \in Mode
    /\ Required \in Nat \ {0}
    /\ MaxFaults \in Nat /\ MaxTime \in Nat /\ MaxBlocksPerPass \in Nat
    /\ FaultKinds \subseteq {"crash", "db", "wallet", "relay", "node", "reorg"}

VARIABLES
    invoices,        \* table invoice
    payments,        \* table payment, by slate id
    receivedHook,    \* payment.received events enqueued, by slate
    confirmedHook,   \* payment.confirmed events enqueued, by invoice
    wallet,          \* slates the wallet's tx log holds
    s2,              \* slates whose S2 has reached the payer
    depth,           \* confirmations of each kernel, 0 = not on chain
    now,             \* seconds, coarsely
    watched,         \* the key directory's snapshot
    handler,         \* in-flight requests
    todo,            \* unreplied payments listed by the boot reconcile
    poll,            \* the confirmation poll
    rejected,        \* history: slates the amount guard has refused
    faults           \* history: faults injected

db == <<invoices, payments, receivedHook, confirmedHook>>
world == <<s2, depth, now>>
history == <<rejected, faults>>
vars == <<db, wallet, world, watched, handler, todo, poll, history>>

-----------------------------------------------------------------------------
(* Values *)

Handler == {NostrLoop} \cup HttpWorkers
Key == Invoice \cup {Master}

AbsentPayment ==
    [status |-> "absent", payer |-> FALSE, key |-> NULL, inv |-> NULL, conf |-> 0]

Payment == [status : {"absent", "received", "replied", "confirmed"},
            payer  : BOOLEAN,             \* payer pubkey known (Nostr only)
            key    : Key \cup {NULL},     \* recipient
            inv    : Invoice \cup {NULL}, \* invoice_id
            conf   : 0..Required]         \* confirmations

Idle == [pc |-> "idle", rail |-> NULL, slate |-> NULL,
         key |-> NULL, memo |-> NULL, inv |-> NULL]

HandlerState ==
    [pc    : {"idle", "insert", "derived", "memo", "amount", "delete", "paid",
              "link", "notify", "reply", "mark", "boot", "resend", "remark"},
     rail  : {"nostr", "paste", "foreign", NULL},
     slate : Slate \cup {NULL},
     key   : Key \cup {NULL},
     memo  : Ref \cup {NULL},
     inv   : Invoice \cup {NULL}]

WorkItem == [slate : Slate, inv : Invoice \cup {NULL}]

IdlePoll == [pc |-> "idle", work |-> {}, slate |-> NULL, inv |-> NULL,
             conf |-> 0, blocks |-> 0]

PollState == [pc     : {"idle", "next", "update", "finalize", "notify"},
              work   : SUBSET WorkItem,
              slate  : Slate \cup {NULL},
              inv    : Invoice \cup {NULL},
              conf   : 0..Required,
              blocks : Nat]

Present(s) == payments[s].status # "absent"
At(w, pc) == handler[w].pc = pc
Goto(w, pc) == handler' = [handler EXCEPT ![w].pc = pc]
Fault(kind) == /\ kind \in FaultKinds /\ faults < MaxFaults
               /\ faults' = faults + 1

-----------------------------------------------------------------------------
(* Merchant, clock and page views *)

\* POST /invoice: insert the row, then read it back through `get`.
CreateInvoice(i, p) ==
    /\ invoices[i].status = "absent"
    /\ invoices' = ExpireIfDue([invoices EXCEPT ![i] = Created(p, DefaultMode, now)], i, now)
    /\ UNCHANGED <<payments, receivedHook, confirmedHook, wallet, world, watched,
                   handler, todo, poll, history>>

\* Any read of one invoice (GET /invoice/{id}, the pay page and its status).
ViewInvoice(i) ==
    /\ invoices' = ExpireIfDue(invoices, i, now)
    /\ UNCHANGED <<payments, receivedHook, confirmedHook, wallet, world, watched,
                   handler, todo, poll, history>>

Tick == /\ now < MaxTime
        /\ now' = now + 1
        /\ UNCHANGED <<db, wallet, s2, depth, watched, handler, todo, poll, history>>

\* Child keys of the open derived-mode invoices.
WatchSet(tab) == {RecipientOf(tab, i) : i \in OpenInMode(tab, "derived", DefaultMode)}

RefreshDirectory ==
    /\ watched' = WatchSet(invoices)
    /\ UNCHANGED <<db, wallet, world, handler, todo, poll, history>>

\* A failed scan is replaced by an empty list.
RefreshDirectoryFails ==
    /\ Fault("db")
    /\ watched' = {}
    /\ UNCHANGED <<db, wallet, world, handler, todo, poll, rejected>>

-----------------------------------------------------------------------------
(* Receiving: the wallet's tx log is the duplicate guard, so a slate it    *)
(* already holds ends the request with nothing changed.                    *)

\* Mutant: no duplicate guard.
FreshAlways(s) == TRUE
Fresh(s) == s \notin wallet

Receive(w, rail, s, key, memo) ==
    /\ At(w, "idle")
    /\ Fresh(s)
    /\ wallet' = wallet \cup {s}
    /\ handler' = [handler EXCEPT ![w] =
                     [pc |-> "insert", rail |-> rail, slate |-> s,
                      key |-> key, memo |-> memo, inv |-> NULL]]
    /\ UNCHANGED <<payments, receivedHook, confirmedHook, world, watched, todo,
                   poll, history>>

\* A gift wrap addressed to an identity the directory resolves.
ReceiveNostr(s, key, memo) ==
    /\ key = Master \/ key \in watched
    /\ Receive(NostrLoop, "nostr", s, key, memo)
    /\ UNCHANGED invoices

\* An S1 pasted on the pay page of i: the lookup by token expires i if due,
\* and whatever its status the slate is received under i's key and ref.
ReceivePaste(w, s, i) ==
    /\ invoices[i].status # "absent"
    /\ invoices' = ExpireIfDue(invoices, i, now)
    /\ Receive(w, "paste", s, RecipientOf(invoices, i), invoices[i].ref)

\* receive_tx of the Foreign API knows no recipient and no memo.
ReceiveForeign(w, s) ==
    /\ Receive(w, "foreign", s, NULL, NULL)
    /\ UNCHANGED invoices

\* grin commits the receive, then reading back the kernel excess, building
\* the proof or the armor fails: the caller gets an error.
WalletFailsAfterCommit(w, s) ==
    /\ Fault("wallet")
    /\ At(w, "idle")
    /\ Fresh(s)
    /\ wallet' = wallet \cup {s}
    /\ UNCHANGED <<db, world, watched, handler, todo, poll, rejected>>

-----------------------------------------------------------------------------
(* persist_and_match *)

NewRow(hd) == [status |-> "received", payer |-> hd.rail = "nostr", key |-> hd.key,
               inv |-> NULL, conf |-> 0]

\* Mutant: only payments of a known payer get a row.
InsertedIfPayer(hd) == IF hd.rail = "nostr" THEN NewRow(hd) ELSE AbsentPayment
Inserted(hd) == IF Present(hd.slate) THEN payments[hd.slate] ELSE NewRow(hd)

InsertPayment(w) ==
    /\ At(w, "insert")
    /\ payments' = [payments EXCEPT ![handler[w].slate] = Inserted(handler[w])]
    /\ Goto(w, "derived")
    /\ UNCHANGED <<invoices, receivedHook, confirmedHook, wallet, world, watched,
                   todo, poll, history>>

\* The Foreign API binds 'amount' as the default mode whatever GP_MATCH_MODE is.
DefaultFor(rail) == IF rail = "foreign" THEN "amount" ELSE DefaultMode

\* Mutant: the refusal is recorded, and the payer answered all the same.
RefuseButAnswer(w) == /\ Goto(w, "notify")
                      /\ rejected' = rejected \cup {handler[w].slate}
Refuse(w) == /\ Goto(w, "delete")
             /\ rejected' = rejected \cup {handler[w].slate}

\* Mutant: no amount-binding guard.
ResolvedUnchecked(w, i) ==
    /\ handler' = [handler EXCEPT ![w].pc = "paid", ![w].inv = i]
    /\ UNCHANGED rejected
\* i was resolved: its expected amount, fixed at creation, decides what follows.
Resolved(w, i) ==
    LET s == handler[w].slate IN
    \/ /\ Satisfies(invoices, i, AmountOf[s])
       /\ handler' = [handler EXCEPT ![w].pc = "paid", ![w].inv = i]
       /\ UNCHANGED rejected
    \/ /\ ~Satisfies(invoices, i, AmountOf[s])
       /\ Refuse(w)

Resolve(w, hits, otherwise) ==
    /\ \/ \E i \in hits : Resolved(w, i)
       \/ hits = {} /\ Goto(w, otherwise) /\ UNCHANGED rejected
    /\ UNCHANGED <<db, wallet, world, watched, todo, poll, faults>>

ResolveDerived(w) ==
    /\ At(w, "derived")
    /\ Resolve(w, DerivedHits(invoices, DefaultFor(handler[w].rail), handler[w].key),
               IF handler[w].memo = NULL THEN "amount" ELSE "memo")

ResolveMemo(w) ==
    /\ At(w, "memo")
    /\ Resolve(w, MemoHits(invoices, DefaultFor(handler[w].rail), handler[w].memo),
               "amount")

ResolveAmount(w) ==
    /\ At(w, "amount")
    /\ Resolve(w, AmountHits(invoices, DefaultFor(handler[w].rail),
                             AmountOf[handler[w].slate], now),
               "link")

\* A refusal ends the request without an S2.  The Foreign API alone does not
\* look at the outcome; it resolves by amount, so it is never refused.
AfterRefusal(hd) == IF hd.rail = "foreign" THEN [hd EXCEPT !.pc = "reply"] ELSE Idle

\* The rejected payment's row is removed.
DeleteRejected(w) ==
    /\ At(w, "delete")
    /\ payments' = [payments EXCEPT ![handler[w].slate] = AbsentPayment]
    /\ handler' = [handler EXCEPT ![w] = AfterRefusal(@)]
    /\ UNCHANGED <<invoices, receivedHook, confirmedHook, wallet, world, watched,
                   todo, poll, history>>

\* The UPDATE's row count is not looked at: a lost race is followed by the
\* same link as a won one.
PayInvoice(w) ==
    /\ At(w, "paid")
    /\ invoices' = MarkPaid(invoices, handler[w].inv, handler[w].slate)
    /\ Goto(w, "link")
    /\ UNCHANGED <<payments, receivedHook, confirmedHook, wallet, world, watched,
                   todo, poll, history>>

LinkPayment(w) ==
    LET s == handler[w].slate IN
    /\ At(w, "link")
    /\ payments' = IF Present(s)
                   THEN [payments EXCEPT ![s].inv = handler[w].inv] ELSE payments
    /\ Goto(w, "notify")
    /\ UNCHANGED <<invoices, receivedHook, confirmedHook, wallet, world, watched,
                   todo, poll, history>>

\* The order reference is read through `get`, which expires what is due.
NotifyReceived(w) ==
    LET i == handler[w].inv IN
    /\ At(w, "notify")
    /\ invoices' = IF i = NULL THEN invoices ELSE ExpireIfDue(invoices, i, now)
    /\ receivedHook' = [receivedHook EXCEPT ![handler[w].slate] = @ + 1]
    /\ Goto(w, "reply")
    /\ UNCHANGED <<payments, confirmedHook, wallet, world, watched, todo, poll, history>>

\* The S2 leaves: in the HTTP response, or as a gift wrap a relay accepted.
Deliver(w) ==
    /\ s2' = s2 \cup {handler[w].slate}
    /\ IF handler[w].rail = "nostr"
       THEN Goto(w, "mark") ELSE handler' = [handler EXCEPT ![w] = Idle]
    /\ UNCHANGED <<db, wallet, depth, now, watched, todo, poll, history>>

\* Mutant: the identity that signs the reply is looked up again.
ReplyIfWatched(w) ==
    At(w, "reply") /\ handler[w].key \in watched \cup {Master} /\ Deliver(w)
Reply(w) == At(w, "reply") /\ Deliver(w)

\* No relay acknowledged in time (the wrap may still have arrived), or the
\* HTTP response was lost.  Nothing retries before the next boot.
ReplyFails(w) ==
    /\ Fault("relay")
    /\ At(w, "reply")
    /\ \/ UNCHANGED s2
       \/ handler[w].rail = "nostr" /\ s2' = s2 \cup {handler[w].slate}
    /\ handler' = [handler EXCEPT ![w] = Idle]
    /\ UNCHANGED <<db, wallet, depth, now, watched, todo, poll, rejected>>

\* WalletReceiver::mark_replied: the UPDATE has no condition on the status.
SetReplied(s) ==
    payments' = IF Present(s)
                THEN [payments EXCEPT ![s].status = "replied"] ELSE payments

MarkReplied(w) ==
    /\ At(w, "mark")
    /\ SetReplied(handler[w].slate)
    /\ handler' = [handler EXCEPT ![w] = Idle]
    /\ UNCHANGED <<invoices, receivedHook, confirmedHook, wallet, world, watched,
                   todo, poll, history>>

\* Errors of single statements are swallowed where the code swallows them:
\* after a failed INSERT matching goes on; a failed matching statement makes
\* the whole match "nothing"; the others are logged.
AfterFailure(hd) ==
    CASE hd.pc = "insert" -> [hd EXCEPT !.pc = "derived"]
      [] hd.pc \in {"derived", "memo", "amount", "paid", "link"} ->
            [hd EXCEPT !.pc = "notify", !.inv = NULL]
      [] hd.pc = "delete" -> AfterRefusal(hd)
      [] hd.pc = "notify" -> [hd EXCEPT !.pc = "reply"]
      [] hd.pc = "remark" -> [Idle EXCEPT !.pc = "resend"]
      [] OTHER -> Idle

StatementFails(w) ==
    /\ Fault("db")
    /\ handler[w].pc \in {"insert", "derived", "memo", "amount", "delete", "paid",
                          "link", "notify", "mark", "remark"}
    /\ handler' = [handler EXCEPT ![w] = AfterFailure(@)]
    /\ UNCHANGED <<db, wallet, world, watched, todo, poll, rejected>>

-----------------------------------------------------------------------------
(* Boot: replies that never verifiably left are dispatched again before    *)
(* the loop takes anything new.                                            *)

BootReconcile ==
    /\ At(NostrLoop, "boot")
    /\ todo' = {s \in Slate : payments[s].status = "received" /\ payments[s].payer}
    /\ Goto(NostrLoop, "resend")
    /\ UNCHANGED <<db, wallet, world, watched, poll, history>>

\* The reply is signed by the identity that was paid; when the directory no
\* longer resolves it, the payment is skipped.
Resend(s) ==
    /\ At(NostrLoop, "resend") /\ s \in todo
    /\ todo' = todo \ {s}
    /\ IF payments[s].key \in watched \cup {Master}
       THEN /\ s2' = s2 \cup {s}
            /\ handler' = [handler EXCEPT ![NostrLoop] =
                             [Idle EXCEPT !.pc = "remark", !.slate = s]]
       ELSE UNCHANGED <<s2, handler>>
    /\ UNCHANGED <<db, wallet, depth, now, watched, poll, history>>

\* No relay took it; not counted as a fault, since only a crash leads here.
ResendFails(s) ==
    /\ "relay" \in FaultKinds
    /\ At(NostrLoop, "resend") /\ s \in todo
    /\ payments[s].key \in watched \cup {Master}
    /\ todo' = todo \ {s}
    /\ s2' \in {s2, s2 \cup {s}}
    /\ UNCHANGED <<db, wallet, depth, now, watched, handler, poll, history>>

Remark ==
    /\ At(NostrLoop, "remark")
    /\ SetReplied(handler[NostrLoop].slate)
    /\ handler' = [handler EXCEPT ![NostrLoop] = [Idle EXCEPT !.pc = "resend"]]
    /\ UNCHANGED <<invoices, receivedHook, confirmedHook, wallet, world, watched,
                   todo, poll, history>>

ResendDone ==
    /\ At(NostrLoop, "resend") /\ todo = {}
    /\ handler' = [handler EXCEPT ![NostrLoop] = Idle]
    /\ UNCHANGED <<db, wallet, world, watched, todo, poll, history>>

-----------------------------------------------------------------------------
(* The chain *)

Shallow == {s \in Slate : depth[s] \in 1..(Required - 1)}

\* A block takes in the kernels S, posted by payers who hold their S2, and
\* buries the earlier ones.  Depths beyond Required are not told apart.
Block(S) ==
    /\ S \subseteq {s \in s2 : depth[s] = 0}
    /\ S # {} \/ Shallow # {}
    /\ depth' = [s \in Slate |-> IF s \in S \cup Shallow THEN depth[s] + 1 ELSE depth[s]]
    /\ \/ poll.pc = "idle" /\ UNCHANGED poll
       \/ /\ poll.pc # "idle" /\ poll.blocks < MaxBlocksPerPass
          /\ poll' = [poll EXCEPT !.blocks = @ + 1]
    /\ UNCHANGED <<db, wallet, s2, now, watched, handler, todo, history>>

Reorg(s) ==
    /\ Fault("reorg")
    /\ depth[s] > 0
    /\ depth' = [depth EXCEPT ![s] = 0]
    /\ UNCHANGED <<db, wallet, s2, now, watched, handler, todo, poll, rejected>>

-----------------------------------------------------------------------------
(* The confirmation poll: confirm_pending over a work list read once per   *)
(* pass, finalize_invoice for the items that crossed the threshold.        *)

\* Mutant: a payment seen on chain once is not polled again.
UnpolledOnly(s) == payments[s].status \in {"received", "replied"}
Unfinal(s) == Present(s) /\ payments[s].conf < Required

Pending == {[slate |-> s, inv |-> payments[s].inv] : s \in {r \in Slate : Unfinal(r)}}

PollStart ==
    /\ poll.pc = "idle"
    /\ Pending # {}
    /\ poll' = [IdlePoll EXCEPT !.pc = "next", !.work = Pending]
    /\ UNCHANGED <<db, wallet, world, watched, handler, todo, history>>

\* The node is asked about one kernel; one that is not on chain is left alone.
PollRead(item) ==
    /\ poll.pc = "next" /\ item \in poll.work
    /\ poll' = IF depth[item.slate] = 0
               THEN [poll EXCEPT !.work = @ \ {item}]
               ELSE [poll EXCEPT !.work = @ \ {item}, !.pc = "update",
                                 !.slate = item.slate, !.inv = item.inv,
                                 !.conf = depth[item.slate]]
    /\ UNCHANGED <<db, wallet, world, watched, handler, todo, history>>

PollNodeFails(item) ==
    /\ Fault("node")
    /\ poll.pc = "next" /\ item \in poll.work
    /\ poll' = [poll EXCEPT !.work = @ \ {item}]
    /\ UNCHANGED <<db, wallet, world, watched, handler, todo, rejected>>

NextItem == [IdlePoll EXCEPT !.pc = "next", !.work = poll.work, !.blocks = poll.blocks]

OnChain(row, conf) == [row EXCEPT !.status = "confirmed", !.conf = conf]

\* Mutant: the invoice is finalized as soon as its payment is on chain.
CrossedOnSight(conf) == conf > 0
Crossed(conf) == conf >= Required

PollUpdate ==
    LET s == poll.slate IN
    /\ poll.pc = "update"
    /\ payments' = IF Present(s)
                   THEN [payments EXCEPT ![s] = OnChain(@, poll.conf)] ELSE payments
    /\ poll' = IF Crossed(poll.conf) /\ poll.inv # NULL
               THEN [poll EXCEPT !.pc = "finalize"] ELSE NextItem
    /\ UNCHANGED <<invoices, receivedHook, confirmedHook, wallet, world, watched,
                   handler, todo, history>>

PollFinalize ==
    /\ poll.pc = "finalize"
    /\ invoices' = MarkConfirmed(invoices, poll.inv)
    /\ poll' = IF MayConfirm(invoices, poll.inv)
               THEN [poll EXCEPT !.pc = "notify"] ELSE NextItem
    /\ UNCHANGED <<payments, receivedHook, confirmedHook, wallet, world, watched,
                   handler, todo, history>>

\* Mutant: the event is built from the invoice's recorded payer.
LoadedByPayer(s) == Present(s) /\ invoices[poll.inv].paidBy = s
Loaded(s) == Present(s)

PollNotify ==
    /\ poll.pc = "notify"
    /\ confirmedHook' = IF Loaded(poll.slate)
                        THEN [confirmedHook EXCEPT ![poll.inv] = @ + 1]
                        ELSE confirmedHook
    /\ poll' = NextItem
    /\ UNCHANGED <<invoices, payments, receivedHook, wallet, world, watched,
                   handler, todo, history>>

\* A failed statement ends the item, not the pass.
PollStatementFails ==
    /\ Fault("db")
    /\ poll.pc \in {"update", "finalize", "notify"}
    /\ poll' = NextItem
    /\ UNCHANGED <<db, wallet, world, watched, handler, todo, rejected>>

PollDone ==
    /\ poll.pc = "next" /\ poll.work = {}
    /\ poll' = IdlePoll
    /\ UNCHANGED <<db, wallet, world, watched, handler, todo, history>>

-----------------------------------------------------------------------------
(* The server process dies and is started again: tables, wallet and chain  *)
(* survive, requests and the poll do not.  The directory is seeded before  *)
(* the loop starts.                                                        *)

AllIdle == [w \in Handler |-> IF w = NostrLoop THEN [Idle EXCEPT !.pc = "boot"] ELSE Idle]

Crash ==
    /\ Fault("crash")
    /\ handler' = AllIdle
    /\ todo' = {}
    /\ poll' = IdlePoll
    /\ watched' = WatchSet(invoices)
    /\ UNCHANGED <<db, wallet, world, rejected>>

-----------------------------------------------------------------------------

Init ==
    /\ invoices = [i \in Invoice |-> AbsentRow]
    /\ payments = [s \in Slate |-> AbsentPayment]
    /\ receivedHook = [s \in Slate |-> 0]
    /\ confirmedHook = [i \in Invoice |-> 0]
    /\ wallet = {} /\ s2 = {} /\ watched = {} /\ todo = {} /\ rejected = {}
    /\ depth = [s \in Slate |-> 0]
    /\ now = 0 /\ faults = 0
    /\ handler = AllIdle
    /\ poll = IdlePoll

\* What a busy handler does next of its own accord.
HandlerStep(w) ==
    \/ InsertPayment(w)
    \/ ResolveDerived(w) \/ ResolveMemo(w) \/ ResolveAmount(w)
    \/ DeleteRejected(w) \/ PayInvoice(w) \/ LinkPayment(w)
    \/ NotifyReceived(w) \/ Reply(w) \/ MarkReplied(w)

BootStep ==
    BootReconcile \/ (\E s \in Slate : Resend(s)) \/ Remark \/ ResendDone

PollStep ==
    \/ PollStart \/ PollUpdate \/ PollFinalize \/ PollNotify \/ PollDone
    \/ \E item \in poll.work : PollRead(item)

Request ==
    \/ \E i \in Invoice : ViewInvoice(i) \/ \E p \in Offers : CreateInvoice(i, p)
    \/ \E s \in Slate :
         \/ \E key \in Key, memo \in Ref \cup {NULL} : ReceiveNostr(s, key, memo)
         \/ \E w \in HttpWorkers :
              ReceiveForeign(w, s) \/ \E i \in Invoice : ReceivePaste(w, s, i)

Environment ==
    \/ Tick \/ RefreshDirectory
    \/ \E S \in SUBSET Slate : Block(S)

Failure ==
    \/ RefreshDirectoryFails \/ PollStatementFails \/ Crash
    \/ \E w \in Handler : \/ ReplyFails(w) \/ StatementFails(w)
                          \/ \E s \in Slate : WalletFailsAfterCommit(w, s)
    \/ \E s \in Slate : ResendFails(s) \/ Reorg(s)
    \/ \E item \in poll.work : PollNodeFails(item)

Next == \/ Request \/ Environment \/ Failure
        \/ BootStep \/ PollStep
        \/ \E w \in Handler : HandlerStep(w)

Spec == Init /\ [][Next]_vars

\* Every worker and the poll timer keep running, relays and the node answer
\* in the end, and blocks keep burying what is on chain.  Nobody is obliged
\* to buy, to pay, to post a transaction or to open a page.
Fairness ==
    /\ \A w \in Handler : WF_vars(HandlerStep(w))
    /\ WF_vars(BootStep)
    /\ WF_vars(PollStep)
    /\ WF_vars(Block({}))

LiveSpec == Spec /\ Fairness

=============================================================================
