# GoblinPay in TLA+

GoblinPay is a receive-only Grin payment server. A store asks it for an invoice;
a payer sends a half-built transaction (a *slate*, S1) over Nostr, by pasting it on
the pay page, or over Grin's Foreign API; the server receives it into its wallet,
matches it to an invoice, answers with the S2 that lets the payer post the
transaction, watches the chain, and tells the store. The modules here model that money path, from the
price of a fiat amount to the shop's order, and the life of the till it runs on, from
`gp-server setup` through starts, crashes and reconfigurations. The `MC*` modules check them
on small instances with TLC, and the `*Proofs` modules prove the results that matter for all
instances with TLAPS.

Paths below are relative to the repository (`src/` in PROJECT.json).

## 1. Inventory

| Part | Source | State it keeps | Operations | What makes it hard |
|---|---|---|---|---|
| invoice table | `crates/gp-core/src/invoice.rs` | rows `open / paid / confirmed / expired`, payer, expiry, mode | create, get, get_by_token, mark_paid, mark_confirmed, lazy expiry | single conditional UPDATEs chained by handlers with awaits in between |
| matching, record | `gp-core/src/matching.rs`, `gp-server/src/record.rs` | payment rows | insert, resolve by derived key / memo / amount, amount guard, mark paid, link, delete, notify | seven statements, no transaction, errors swallowed one by one |
| Nostr ingest | `gp-nostr/src/{ingest,service}.rs`, `gp-server/src/ingest.rs` | dedupe markers, rate windows, subscription | handle_wrap, deliver_reply, reconcile, refresh | relays lose and delay; publish may time out after it succeeded; crash between receive and reply |
| pay page | `gp-server/src/checkout.rs` | none | page, status, S1 paste, I2 paste | expires what it reads; runs concurrently with ingest |
| Foreign API | `gp-server/src/foreign.rs` | none | receive_tx, finalize_tx, expiry-cancel sweep | posts before it looks the invoice up; ignores the amount guard |
| confirmation poll | `gp-server/src/payments.rs`, `gp-wallet/src/confirm.rs` | one work list per pass | read list, ask node, write depth, finalize, enqueue | list is stale when used; three writes that belong together |
| key directory | `gp-server/src/directory.rs` | snapshot of watched keys | refresh, resolve | lags the table; empty after an error |
| wallet | `gp-wallet/src/lib.rs` | grin's tx log | receive, issue, finalize, cancel | not in the same transaction as the tables |
| webhook outbox | `gp-core/src/webhook.rs`, `gp-server/src/webhookd.rs` | deliveries | enqueue, due, mark_delivered, mark_failed | at-least-once, backoff, give up after 12 |
| grin1 rail | `foreign.rs`, `checkout.rs`, `gp-wallet` | invoice slate and its wallet context | issue, finalize, settle, cancel | two doors for one I2, a sweep, lazy expiry |
| endpubs | `gp-core/src/endpub.rs` | users, epochs, assignments | create, rotate, rotate_due | two statements per rotation, overlap window |
| rate oracle, invoice API | `gp-core/src/rates.rs`, `gp-server/src/invoices.rs` | rate cache | quote, rate_for, fetch, price_if_fiat, create_invoice | stale fallback, concurrent refresh, a source that hangs, two waits between a rate and its row |
| WooCommerce connector | `connectors/woocommerce` | order status, seen events | checkout, webhook, poll, expire | events repeated and out of order, order copies, PHP requests that die |
| Medusa connector | `connectors/medusa` | none; Medusa keeps the session | initiate, webhook, status poll | a poll that comes late; an event binds to a session, not to an invoice |
| setup wizard | `gp-server/src/setup.rs`, `gp-core/src/setup.rs` | env file, password in one of three shapes, drop-ins | run, open_or_create, apply_restart_persistence, write_env_file | a dozen file operations, no lock, ends anywhere, run again over what it left |
| boot, config, identity | `gp-server/src/main.rs`, `gp-core/src/config.rs`, `gp-nostr/src/identity.rs` | `identity.json` | read the password, open the wallet, load or create the key | starts over whatever a wizard left; a key that changes loses the payers who know it |
| admin pages | `gp-server/src/admin.rs` | none | create user, rotate | concurrent with the tick |
| crypto, protocol, Tor | the rest | keys | one-shot | no concurrency of its own |

How they interact: all tables live in one SQLite file behind a pool of **one**
connection (`gp-core/src/db.rs`) and nothing uses a transaction, so each SQL statement
is atomic and any two statements of a handler may be separated by statements of the
others. The actors are the Nostr thread (one event at a time, the boot reconcile before
anything new), the Actix workers (paste form, pay page, invoice API, Foreign API), the
confirmation poll (every 30 s), the webhook dispatcher (10 s), the directory
maintenance (30 s) and the grin1 sweep (60 s).

What makes each part correct: an invoice is settled once, by one payment of exactly its
amount; one payment settles one invoice; `confirmed` is reached through depth and
announced once; a refused payment is never answered and an accepted one always is; the
store hears of a payment before the payer can complete it; the poll does not lose a
payment; a fiat invoice is always priced and its end is at most a lock after its price; a seed is never replaced, an unattended
till keeps what it needs to restart, and its Nostr key stays the one payers were told. The
hazards that threaten these are listed, each at its line, in
`PROJECT.json`.

## 2. Modules

| Module | What it is |
|---|---|
| `InvoiceTable` | the invoice table as a function from ids to rows; one operator per SQL statement of `invoice.rs` |
| `Matching` | the three resolution SELECTs as sets of admissible answers (ties of `ORDER BY created_at LIMIT 1` are a choice) and the amount guard |
| `Settlement` | the detailed specification: handlers, poll, directory, chain, clock, faults |
| `SettlementProperties` | type invariant, safety, liveness, and statements of the docs |
| `InvoiceLifecycle` | the abstract specification: what a merchant is promised about an invoice |
| `MCSettlement` | instances for TLC |
| `Webhook` | the webhook outbox and its dispatcher: one operator per statement of `webhook.rs`, one action per step of `drain` |
| `StoreOrder` | `Webhook` composed with one WooCommerce order: checkout, webhook receiver, status poll, expiry job |
| `Shops` | the two shops a server can serve: the order of `StoreOrder`, or a Medusa payment session, over the same server and outbox |
| `StoreProperties`, `MCStore` | its properties, its instances |
| `Pricing` | `POST /invoice` over `InvoiceTable`: the checks, the rate cache, the fetch, the fallback, the INSERT, restarts, the clock |
| `PricingProperties`, `MCPricing` | its properties, its instance |
| `Setup` | one run of the wizard: the checks, the questions, `open_at`, each file operation, its end at any step |
| `Till` | `Setup` composed with the service: systemd's credential, the start, the identity, reboots, a restore from a seed |
| `TillProperties`, `MCTill` | its properties, its instance |
| `Grin1Rail` | the grin1 rail over `InvoiceTable`: arming an invoice with an I1, the two doors of an I2, finalize and post, settlement by slate id, the expiry sweep |
| `Grin1Properties`, `MCGrin1` | its properties, its instances |
| `KeyDirectory` | users, epochs and assignments, their rotation by the tick and by admins, and the snapshot of watched keys |
| `Inbox` | `KeyDirectory` composed with the Nostr service: catch-up, subscription, refresh and back-fill, and `Ingest::handle_wrap` |
| `InboxProperties`, `MCInbox` | its properties, its instance |
| `InboxProofs` | `InboxTypeCorrect`, `MarksAreSettled`, `ShownEndpubsAreWatched`, `RotatedKeysLand` |
| `InvoiceTableProofs` | what each statement does to a table, for the proofs of both rails |
| `SettlementProofs` | `TypeCorrect`, what a step may do to each table, `AmountsAreBound`, and `WritersAreSingle` |
| `SettlementLifecycleProofs` | the poll's work list, `ConfirmedIsFinal`, the refinement `PathKeepsThePromise`, and what becomes of each payment: `RefusedStayUnanswered`, `ReceivedOnce`, `StoreHearsFirst`, `PayersStayOnRecord`, `TakenIsRecorded` |
| `Grin1Proofs` | `Grin1TypeCorrect`, what a step may do to a request and to a slate, `Grin1Safe`, `PaidIsPosted`, `SweepCancelsFirst`, and the refinement `RailKeepsThePromise` |
| `StoreProofs` | `OutboxSafe`, `StoreTyped`, `PostsAreBounded`, `CompletedIsConfirmed`, `AcknowledgedIsApplied` |
| `PricingProofs` | `PricingTyped`, `LockIsBounded`, `CacheIsUsed`, `FallbackIsUsed` |
| `TillProofs` | `TillTyped`, `ShapeIsOne`, `PasswordIsKept`, `SealedTillStarts`, `IdentityIsKept`, `SeedStays` |

### From code to model

A request is a record in `handler[w]`, `w` being the Nostr thread or an HTTP worker.
Its `pc` names the statement it is about to run; every statement is one action:

    Receive* -> InsertPayment -> ResolveDerived -> ResolveMemo -> ResolveAmount
             -> PayInvoice -> LinkPayment -> NotifyReceived -> Reply -> MarkReplied
             -> (amount guard refuses) DeleteRejected

`Resolve*` joins a SELECT with the amount guard that reads `expected_amount`: that
column never changes after the INSERT, so nothing can happen between the two that
either would see. `PayInvoice` drops the boolean of `mark_paid`, as the code does, and
`LinkPayment` follows whether the race was won or lost. `StatementFails` lets any
one statement fail and continues where the code continues (`AfterFailure`).

The poll is one record: `PollStart` reads the work list, `PollRead` asks the node,
`PollUpdate`, `PollFinalize` and `PollNotify` are its three writes. `Crash` forgets
requests, poll and reconcile list, keeps tables, wallet and chain, and starts at the boot
reconcile with the directory freshly seeded.

Abstractions: amounts are two numbers, keys are invoice ids or `Master`, a memo is an
order reference or NULL, depths beyond `Required` are not told apart, the clock moves in
whole steps, a webhook is the number of times it was enqueued (one is configured). `Settlement` covers servers with the grin1 rail off (`Grin1Rail` is the rail); payments to
endpubs behave as payments to `Master`.

In `Grin1Rail` a request is a record in `request[w]` and one action is one wallet call or
one SQL statement:

    Create -> Issue -> Attach                                      (POST /invoice)
    OnionI2 | PasteI2 -> Finalize -> Post -> Lookup -> Insert -> Pay -> Notify
    SweepRead -> (SweepCancel -> SweepExpire)*                     (every 60 s)

`context[s]` is the wallet's stored context of an issued slate, kept by grin's wallet
library and modelled from how `gp-wallet` uses it: issuing stores it, finalizing deletes
it, cancelling removes it, and a slate without one cannot be finalized. `finalize_slate`
posts with the wallet's mutex still held, which `WalletHeld` makes the other wallet calls
wait for; the paste form finalizes and posts in two calls. `get_by_token` and
`get_by_slate_id` are an UPDATE and a SELECT on one connection, and one action: what
comes between them cannot undo the UPDATE. Its properties do not tell amounts apart: a slate is
issued for what its invoice asks, so the refinement of `InvoiceLifecycle` maps an invoice to
one that asks for some amount or for none. Payments of the other rails, which
`Settlement` has statement by statement, are `PlainPayment` here, and the poll is
`PollConfirms`. `Crash` forgets requests and sweep and keeps tables, contexts and chain.

In `Webhook`, `Drain` is the SELECT of `due`, `Post` the request, `MarkDelivered` and
`MarkFailed` the UPDATEs; `next_attempt_at` is kept relative to the clock so that time need
not be bounded. In `StoreOrder` a POST becomes a request in `hooks`, which lives on in the
shop when the dispatcher has stopped waiting for it: `HookCheck` (get_transient), `HookMark`
(set_transient), `HookLoad` (wc_get_order and the invoice binding), `HookAct`. The jobs are
`JobLoad`, `JobAsk`, `JobSettle`, then `JobReload` and `JobCancel` for the expiry job. A
WooCommerce order object is a copy, so what a request loaded (`paid`, `payable`) is part of
its state. The invoices are those of `Settlement` reduced to the statuses a shop sees, with
`owed` for an event whose status UPDATE is done and whose INSERT is not.

In `Shops` the provider's `getWebhookActionAndData` and Medusa's application of its answer are
`SessionAction` and `SessionCapture`, the status poll is `PollAsk` and `PollApply`. That Medusa
applies an action before it answers the webhook, that a session exists before
`initiatePayment`, and that a captured session stays captured are assumptions about Medusa,
which is external. Signatures are left out.

In `Pricing` the request that would create invoice `i` is `checkout[i]`:

    Request -> (cache hit) | fetching -> SourceAnswers | FetchFails -> quoted -> Insert | InsertFails

A rate is named by the second its answer came in, so `tab[i].expected` says how old the price
of an invoice is. The checks of the handler are one operator, `Refusal`, in the order of the
code; `Fallback` and `Hit` are the two uses of `is_fresh`; `Put` dates an answer by the start
of its own request, as `cache_put` does, so that a slow answer may overwrite a newer one.

In `Setup` a run of the wizard is a record in `wizard[w]`, and one action is one decision or one
file operation:

    Begin -> Ask -> Open -> Persist (seal or not) -> Write* -> Finish     (Abort anywhere)

`SealedScript`, `PlaintextScript` and `ManualScript` are the file operations of
`apply_restart_persistence` in order; `write_secret_file`, which removes before it writes, is two
of them. `Abort` is every error return, refused password, end of input and kill, and may leave
the file at hand empty. In `Till` a start is `StartService` (the unit's credential and the env
file lead it to a password), `OpenWallet`, `LoadIdentity` or `CreateIdentity` and `SaveIdentity`;
`EndOfRun` is the run's last write, after which a bare `gp-server` boots in the same process.

What `Till` assumes: drop-ins take effect at the daemon-reload the last screen asks for;
`systemd-creds` writes its output at once; a process may die anywhere, but what it has
written is on disk. What it leaves out: installations by hand (`GP_MNEMONIC`, `GP_NSEC`), the
API tokens, which every run writes anew, and the few instructions between the check that
a plaintext password exists and its use, which are one step with the opening.

In `KeyDirectory` a caller of `create_user` or `rotate` is a record in `rotator[r]`, `r`
being the tick or an admin request; each SQL statement is one action (`GetUser`, `Advance`,
`Assign`). One round of the maintenance task is `TickWakes`, the rotations, `ScanCharges` and
`ScanEndpubs`; nothing is awaited between the second SELECT and the write of the snapshot. A
key is `Master`, an invoice id or a pair of user and epoch, which is what it is derived from.

In `Inbox` the service is one record, at the await it has reached:

    boot -> catchup (fetch, handle each) -> subscribed (REQ) -> loop
    loop -> resubscribed (REQ) -> backfill (fetch, handle each) -> loop

`HandleWrap` is one action per wrap: the loop handles one event at a time and nothing else
touches what `handle_wrap` writes, so only the directory's snapshot could change under it, and
that is read once. Its disjuncts are its outcomes in the order of the code. A rate window is the number of
hits inside it, and before each count any of them may have left it. Relays and the relay pool
are external: a relay keeps what was published and sends a subscriber what its filter matches;
the pool notifies an event once per process and only to a listener that exists by then. What is
left out: a notification channel that overflows (only logged), relays that do not keep or deliver a wrap, the
look-back of three days, and the reply, which is in `Settlement`. Of an invoice `Inbox` keeps
only whether its key is to be watched.

## 3. Runs

The runs of `MCSettlement` have one HTTP worker beside the Nostr thread (none where only
the boot path matters). Deadlock is checked in all of them: the requests, page views and
directory refreshes never stop.

| Run | Instance | Shows |
|---|---|---|
| `MCFaults` | 1 invoice (by default mode, or by memo for more than any payment pays), 2 equal payments, depth 2, one fault of any kind; slates symmetric | `TypeOK`, `PaidExactly`, `ConfirmedHasDepth`, `SingleWriter` and the refinement `ImplementsLifecycle` survive any single fault |
| `MCAnswers` | 2 invoices (derived; by default, expiring), payments of different amounts, depth 1, one clock step, one lost reply; invoices symmetric | `RejectedNeverReplied`, `ReceivedIsRecorded`, `NotifiedBeforeReply`, `PaidHasRow` when payments and invoices compete both ways |
| `MCLive` | as `MCFaults` without faults, under fairness | `PaidEventuallyConfirmed`, `ReceivedIsAnswered`, `ConfirmedIsAnnounced` |
| `MCInbox` | 1 user, 1 derived invoice, 2 wraps of one message, for the endpub the user starts with and for the one-time key of the invoice, one admin request beside the tick, an overlap of 1, one rotation, both rate limits 1, one fault of any kind (statement, relay, wallet, crash), under fairness | nothing marked is unsettled (`MarkedIsSettled`), a shown endpub is watched (`ShownIsWatched`), a payment to the endpub just rotated away or to an open invoice is not turned away unless a scan failed (`JustRotatedLands`), what the subscription covers is read (`CoveredIsRead`), and the subscription follows the tables (`SubscriptionFollows`) |
| `MCStore` | a WooCommerce order or a Medusa session, 1 invoice, 2 attempts per delivery, batch of 1, one fault of any kind (lost checkout answer, lost webhook answer, dead PHP request, failed UPDATE, restart), connections refused at will, the expiry job, status polls | bounded retries (`PostsBounded`), no completion without a buried kernel and no capture without a payment (`CompletedOnlyIfConfirmed`), a confirmation the shop acknowledged has completed the order, is in hand, or was lost in one of two named ways (`AckedIsApplied`), every event is delivered or given up (`EnqueuedSettles`) |
| `MCGrin1` | 1 invoice (expiring, lasting, or for any amount), 1 issued slate and 1 payment of another rail, 2 workers, two faults of any kind, one clock step | posted once through two doors, paid only by what was posted, the sweep expires nothing that can still be finalized, the lifecycle; posted money is recorded and an overdue invoice is closed |
| `MCPricing` | 3 checkouts of one currency (an amount with an expiry past the lock, one no rate can hold, one in GRIN, one in a currency that is off), cache 2 s, fallback 3 s, lock 2 s, timeout 1 s, 6 s of clock, one restart or failed INSERT, under fairness | every fiat invoice has a price and an end no later than a lock after it, and is not shown open past that (`QuoteEnds`), a rate within the fallback window is used (`FallbackHolds`), every checkout is answered whatever the source does (`CheckoutIsAnswered`) |
| `MCTill` | 3 runs of the wizard by 2 processes, 2 mnemonics, 2 passwords, 2 Nostr keys, any restart mode, ends anywhere, starts, stops, reboots and restores; all sets symmetric | the seed is never replaced (`SeedIsKept`), the files are of one shape (`OneShape`), a promised password stays on disk (`PasswordSurvives`), a sealed till starts (`SealedStarts`), the key payers were told stands (`IdentityStands`) |
| `MCUnderpaid` | crash | **violated**: a refused underpayment is answered by the boot reconcile |
| `MCStaleWork` | depth 1 | **violated**: a payment linked during a poll pass drops out with its invoice still paid |
| `MCGrin1Late` | 1 expiring invoice, no fault | **violated**: a reader expires the invoice first, the sweep then never cancels its slate, and a late I2 posts |
| `MCMedusaPoll` | a Medusa session, webhook refused | **violated**: a poll that comes after the confirmation finds a status `mapStatus` does not know, and leaves the session pending |

The four violations are findings: each run checks one sentence of the repository (quoted
in `PROJECT.json`) against the code. The first two are also the reason for the
assumptions of `MCAnswers` and `MCLive`:

* with `"crash"` among its faults `MCAnswers` fails on `ReceivedIsRecorded` (a crash
  between `receive_tx` and the INSERT, although `0002_reply.sql` calls it recoverable),
  on `RejectedNeverReplied` and on `NotifiedBeforeReply`; with `"db"`, on `PaidHasRow`,
  `ReceivedIsRecorded` and `NotifiedBeforeReply`; with `"wallet"` (an error after the commit), on
  `ReceivedIsRecorded`. The theorems of section 4 exclude exactly these kinds;
* with `"crash"` `MCLive` fails on `PaidEventuallyConfirmed` (between the depth UPDATE
  and `mark_confirmed`) and on `ConfirmedIsAnnounced` (between `mark_confirmed` and the
  enqueue);
* with `Required` no greater than the blocks per pass, `MCLive` fails as `MCStaleWork` does.

`LinkedExactly`, `ConfirmedOnce`, `ToldOfTheWinner` and `RateIsReused` are proved (section 4) and
have no run of their own.

`MCStore` may stop (`CHECK_DEADLOCK FALSE`): one order comes to an end. `Jobs` names the jobs
WP-Cron gets to run; the expiry job contains the poll, so `MCStore` runs that one. `MCGrin1`
may stop too: once its slate is spent and its clock has run out, nobody has to do anything. So
may `MCPricing`, when its clock has run out and its checkouts are answered.

Disagreements met while modelling that have no run of their own:

* payments: the kernel of a payment that lost the race for an invoice confirms it
  (`matching.rs:126` links the loser, against `invoice.rs:10-12`); the boot reconcile skips the
  reply of a payment that settled its derived invoice, because the directory then no longer
  holds its key (against `0002_reply.sql:2-3`); a status goes from `confirmed` back to `replied`;
* quotes: a derived or memo payment is matched after the lock has run out if nobody has
  read the invoice, although `invoices.rs:254-257` says the locked rate is never honoured past it;
  `quote_valid` of `rates.rs` has no caller on the money path;
* shops: a webhook between two requests of a WooCommerce job completes the order twice, each on the
  copy it loaded (`goblinpay-woocommerce.php:493`); the expiry job cancels the order over a
  completion that came between its last reload and its `update_status`, although it "polls once more
  before cancelling" (`goblinpay-woocommerce.php:537`): the order then stands cancelled with its invoice
  confirmed, every event of it acknowledged, and nothing completes it again (`CancelledOver`, which
  `AckedIsApplied` excuses by name); Medusa's README calls its behaviour the same as
  the WooCommerce connector's, which completes only on `confirmed` where Medusa captures on
  `paid`;
* setup: `EnvironmentFile=` wins over the unit's `Environment=`, so the plaintext and manual
  shapes point the `DynamicUser` service at paths only root can read (against
  `deploy/gp-server.service:55-57`): in `Till` such a start exits, which is why `SealedStarts` is
  about the sealed shape; a run without `--reconfigure` that is still asking for addresses when
  another creates the wallet goes on to reconfigure it (`setup.rs:243-244`); a stale plaintext file
  shadows the password prompt, so that every later `--reconfigure` fails (`setup.rs:433-434`);
  `write_secret_file` removes the only plaintext record before it writes it again, which
  `PasswordSurvives` excuses (`setup.rs:313-315`); the last screen after a switch from sealed to
  plaintext leaves out the daemon-reload; `README.md:158` says a till never prompts again, and a
  reconfigure of a sealed or manual till prompts for the password;
* keys: an epoch goes back when rotations of one user overlap; a rate-limited wrap is not attempted
  again by the running process; a per-user rotation interval does nothing while the global one
  is 0. `CoveredIsRead` and `SubscriptionFollows` name the two losses of the boot that they leave
  out: what is notified between the REQ and the listener, and a subscribe that fails.

### Bounds

`MaxFaults = 1`: the properties of `MCFaults` are about one recovery at a time, and the
proofs remove the bound for all of them. `MaxTime = 1` is enough for an expiry to pass
between any two statements. Two payments are what it takes to race; a third adds a second
loser that is treated like the first. `MaxBlocksPerPass = 1` bounds how far the chain may
run while one poll pass is under way; it is a statement about time (a pass takes seconds,
a block a minute) and `PaidEventuallyConfirmed` needs it, as `MCStaleWork` shows. `MCGrin1`
allows two faults because `OverdueCloses` is about a pass that fails and the next one, and
its two workers are what it takes for one I2 to come through both doors, or to race a
payment. In `MCInbox` an overlap of 1 and one rotation, by either actor, put the endpub of the
first wrap into the overlap window; the key of the second retires when its invoice closes. An endpub
that leaves the window, and an epoch that two overlapping rotations take back, need a second rotation
and are covered by the proofs of `JustRotatedLands` and `ShownIsWatched` alone. Rate limits of 1
bite with the second wrap, and two wraps of one rumor reach every branch of the dedupe. In `MCPricing` `MaxNow` is past the
fallback window after a first answer, three checkouts are one that fills the cache, one whose
slow answer overwrites it and one that uses it, and `DB_WAIT` is 0 (the proof has any). In
`MCTill` three runs are one that installs, one that is cut short over it and one that comes
after, and two processes are what it takes to overlap; `MCStore`'s `Shop` is chosen at the
start and stays. The theorems remove every bound for the safety properties they name.

### Fairness

`HandlerStep(w)` for every worker, `BootStep` and `PollStep` are weakly fair: tokio and
the Nostr thread keep running what is ready, the timers fire, every call to a relay or to
the node has a timeout. `Block({})` is weakly fair: the chain keeps growing on top of what
it holds. Nothing obliges a payer to send or post, a store to ask, or anybody to open a
page, so expiry is never relied upon. In `StoreOrder` the dispatcher, the clock and the
shop's requests are weakly fair; WP-Cron, which needs a visitor, is not. In `Grin1Rail`
`RequestStep(w)` and the three steps of the sweep are weakly fair: Actix drives every
request on and the sweep is a loop that sleeps and logs its errors; no payer has to return
an I2, no store has to ask, and the clock may stand still. In `Inbox` the maintenance task, the
service loop and the delivery by the relays are weakly fair: both loops run for the life of the
process, every relay call has a timeout and every error is logged and passed over. No admin has to
finish a rotation and no payer has to publish. In `Shops` the requests of either shop are weakly
fair and polls are not. In `Pricing` time passes, a fetch whose time is up fails (the client's
timeout) and a handler takes its own next step; nothing is assumed of the price source. `Till` has
no fairness: its properties are about what never happens, and nobody has to run a wizard.

## 4. Theorems

The theorems hold for every value of the constants allowed by the named assumptions of the
modules (`TableAssumption` with `SettlementAssumption`, `Grin1Assumption` or
`PricingAssumption`; `KeyDirectoryAssumption` with `InboxAssumption`; `SetupAssumption` with
`TillAssumption`): any number of invoices, payments, workers, wizards, faults of all kinds,
any depth and any clock. The first ones are about `Settlement!Spec`:

* `TypeCorrect` (`SettlementProofs`): `Spec => [](TypeOK /\ HandlerShape /\ PollShape)`.
  `TypeOK` alone is not inductive: a handler at `link` must hold a slate for the UPDATE to
  stay typed, so the shape of a handler at each `pc` and of the poll are part of it.
* `AmountsAreBound` (same module): `Spec => [](PaidExactly /\ LinkedExactly)`.
  The invariant adds `ResolvedExactly`: from the moment a handler has resolved an invoice,
  that invoice exists and is satisfied by its slate. It holds on because
  `expected` is written once; `TableSteps`, `LedgerSteps` and `HandlersSteps` say what any
  step may do to the three tables, and the proof never looks at an action again.
* `WritersAreSingle` (same module): `Spec => []SingleWriter`. A handler
  starts with a slate the wallet does not know and makes it known, so a second handler
  cannot start with it; the boot reconcile takes slates back from the payment table, but
  only those with a payer, which only the Nostr loop, then idle, ever held. Hence
  `WalletKnows` and `RowOwners`; `OneLink` and `OnePayment` come with them.
* `ConfirmedIsFinal` (`SettlementLifecycleProofs`): `Spec => [](ConfirmedHasDepth /\
  ConfirmedOnce)`. The poll finalizes an invoice it read before it asked the node, so the
  invariant needs `WorkList`: an item that names an invoice names the one its row is linked
  to, and stays right because a link is for good (`LinkStands`) and only the poll writes
  depths (`DepthStep`). An item without an invoice may go stale; it then finalizes nothing,
  which is what `MCStaleWork` is about.
* `PathKeepsThePromise` (same module): `Spec => ImplementsLifecycle`. Every disjunct of
  `TableSteps` is an action of `InvoiceLifecycle`: the amount comes from `AmountBinding`, "no
  other invoice has this payer" from `OneLink`, the announcement from `WorkList`.

Four theorems of the same module assume that `FaultKinds` leaves some kinds out, because the
code does not survive them (section 3 says what breaks); every other kind stays, in any number.
They rest on `Shape` and `Ownership` (what `TypeCorrect` and `WritersAreSingle` prove) and on:

* `RefusedStayUnanswered`, without `crash`: `Spec => []RejectedNeverReplied`. `Refusals` says that
  a refused slate is unanswered, is in no handler that could still answer it and in no link.
  `ForeignResolvesByAmount` says that the Foreign API, which answers without asking the guard,
  resolves by amount alone and so never meets it, and `NothingToResend` empties the reconcile list: a run that never
  crashed boots once, over empty tables.
* `StoreHearsFirst`, without `crash` and `db`: `Spec => []NotifiedBeforeReply`. `HooksAreOne` says
  that a slate not yet past `notify` has not been announced and no slate twice, `HooksAreSent`
  that one past it has been. The first half needs no assumption: `ReceivedOnce`, for every fault.
* `PayersStayOnRecord`, without `db`: `Spec => []PaidHasRow`, through any crash. A handler
  that has an invoice in hand has a row (`MatchedHasRow`), and the one that deletes is another.
* `TakenIsRecorded`, without `crash`, `db` and `wallet`: `Spec => []ReceivedIsRecorded`, from
  `Refusals`: a row goes away only with a refusal.

And these are about `Grin1Rail!Spec`:

* `Grin1TypeCorrect` (`Grin1Proofs`): `Spec => []TypeOK`, with the shape of a request at
  each `pc` and of the sweep.
* `Grin1Safe` (same module): `Spec => [](PostedOnce /\ PaidByPosted /\
  ToldOfTheWinner)`. The argument is that a context is used by one request: a slate whose
  context is still stored has been posted by nobody and is held past `finalize` by no
  request (`UsedOnce`), so one I2 through two doors has one winner. An issued slate
  belongs to one invoice (`Armed`), `pay` is reached only after `post`, and `notify` only by the
  request whose UPDATE flipped the row. `RowSteps`, `ArmingSteps`, `HistorySteps` and
  `ContextSteps` say what a step may do to each table, as in the proofs of `Settlement`.
  `PaidIsPosted` is its part about a merchant's `paid`.
* `SweepCancelsFirst`: `Spec => SweptIsCancelled`. The sweep reads, cancels and expires in three
  steps, so `CancelledFirst` carries from the second to the third that the context is gone. It stays
  gone because a context is stored only by `Issue`, for a slate that no invoice has yet, and a
  slate belongs to one invoice (`OneSlate`).
* `RailKeepsThePromise`: `Spec => ImplementsLifecycle`. `TableSteps` reduces every action to one of
  `Expires`, `Opens`, `Pays` and `Confirms`, each an action of `InvoiceLifecycle`. "No other invoice
  has this payer" (`PaysOnce`) is `PaidByPosted` with `OneSlate` for an issued slate, and
  `PlainOnce`, a payment not on the ledger has paid nothing, for one of another rail.

And these are about `Inbox!Spec` (module `InboxProofs`):

* `InboxTypeCorrect`: `Spec => []TypeOK`, in two halves, what the directory writes and the rest.
* `MarksAreSettled`: `Spec => []MarkedIsSettled`. A wrap declined because its rumor is marked
  is settled only if marked rumors are, hence `RumorSettled`; wraps of one rumor carry one
  slate, which `InboxAssumption` says of the content and the rumor id (a hash) guarantees.
* `ShownEndpubsAreWatched`: `Spec => []ShownIsWatched`. The epoch column may go back and
  forth; what is kept is that its value is assigned or about to be (`CurrentIsAssigned`), so
  the newest assignment is never behind it.
* `RotatedKeysLand`: `Spec => JustRotatedLands`. Every key the directory, the subscription or a
  wrap in hand refers to (`Held`) was shown, and is watched or retired (`KeyKept`); a round
  under way will not drop it (`KeyScanned`), because each scan sees every key shown before it.
  The service's steps add nothing to `Held`, and the directory's lose nothing that is not retired.

These are about `Shops!Spec` (module `StoreProofs`), with any faults in any number:

* `OutboxSafe`: `Spec => []Outbox`, with `StoreTyped`: `Spec => []TypeOK`. `Outbox` is `TypeOK` with
  `PassShape` (what a pass holds is due, one delivery at a time), `EventOrder` (an event is owed,
  then queued, then posted), `EventsTellTruth` (it never runs ahead of its invoice) and
  `OrderShape` (what an order and its jobs know of each other). `attempts` never passes
  `MAX_ATTEMPTS` because a pass posts what it read as due and nobody else counts.
* `PostsAreBounded`: `Spec => []PostsBounded`, from `PostsCounted`: what has been posted is counted, is
  being marked, or was lost to one fault; and the one being marked is short of the ceiling.
* `CompletedIsConfirmed`: `Spec => []CompletedOnlyIfConfirmed`, from `AnswersTellTruth`: what a request
  or a job has been told, and acts on later, the server still stands by.
* `AcknowledgedIsApplied`: `Spec => []AckedIsApplied`, from `Acknowledged`: a confirmation that
  WooCommerce has noted, answered for, or the outbox has ticked off has been dealt with, is in hand, or
  was in a request that died; and from `OrderShape`: an order once completed is paid or has been
  cancelled over. It is about the confirmation of the order's own invoice. Of Medusa nothing is
  claimed here: its provider is modelled as capturing before it answers, so it would follow at once.

These are about `Pricing!Spec` (module `PricingProofs`):

* `PricingTyped`: `Spec => []TypeOK`, with `CacheDated`: no entry of the cache is dated after the rate it
  holds, nor that after the clock.
* `LockIsBounded`: `Spec => []QuoteEnds`. `PricingInv` says of every request in flight how
  old its rate may be (`InTime`), and of every row that a request was answered for it
  (`RowAnswered`); the bound on the row is the sum of the bounds on the way to it.
  It bounds the end that is written and what a reader is shown. It does not say that a payment past
  the end is refused: a row nobody reads stays open to the matcher (section 3).
* `CacheIsUsed`: `Spec => RateIsReused`, and `FallbackIsUsed`: `Spec => FallbackHolds`. Both rest on
  `NewestKept`: an answer that overwrites a newer one was asked for at most one timeout before it,
  so the entry in the cache is at most one timeout older than the newest answer. `RateIsReused` says
  when the source is asked again within `CACHE_TTL` of the newest rate: only where such an overwrite
  has happened and what it left is past `CACHE_TTL`. That two checkouts get one price is not claimed.

And these are about `Till!Spec` (module `TillProofs`). One invariant, `TillInv`, carries them all;
its lemmas go through the actions one by one:

* `TillTyped`: `Spec => []TypeOK`; no process takes an empty file for the password.
* `ShapeIsOne`: `Spec => []OneShape`. `RunsOK` says what a lone run has already put on disk at each
  step of its script, so at `Finish` the rest of the layout is there.
* `PasswordIsKept`: `Spec => []PasswordSurvives`. Every run past `Open` holds the wallet's password
  (`RunsOK`), while the promise stands a run that is writing is alone and unattended
  (`PromiseOK`), and each script writes a record before it removes one, but for the window of
  `write_secret_file`.
* `IdentityIsKept`: `Spec => []IdentityStands`, with `IdentityOK`: an advertised key is in the file,
  and the file's password is the wallet's, which `OpenAt` never changes; so is the password of a
  service past `OpenWallet` (`ServiceOK`).
* `SealedTillStarts`: `Spec => []SealedStarts`: what a sealed till reads is the wallet's password
  (`OneShape`), and what the wallet opens with unlocks the identity (`IdentityOK`).
* `SeedStays`: `Spec => SeedIsKept`, from `OpenAt` alone.

Every invariant, action property and refinement that a passing run checks is proved. Model-checked
only: liveness under fairness, which is out of the prover's reach (`PaidEventuallyConfirmed`,
`ReceivedIsAnswered`, `ConfirmedIsAnnounced`, `PostedIsRecorded`, `OverdueCloses`, `CoveredIsRead`,
`SubscriptionFollows`, `CheckoutIsAnswered`, `EnqueuedSettles`), and the four violations, which
are counterexamples and not theorems.

## 5. Plan

1. *(done)* `InvoiceTable`, `Matching`, `Settlement`, `InvoiceLifecycle` and the proofs above.
2. *(done)* `Grin1Rail`, its type invariant and its safety proved.
3. *(done)* `Webhook`, `StoreOrder` and `Shops`.
4. *(done)* `KeyDirectory` and `Inbox`, their types and safety proved.
5. *(done)* `Pricing`: the quote lock, the cache, the fallback window and concurrent refreshes.
6. *(done)* `Setup` and `Till`, every safety property of them proved.
7. *(done)* The proofs of the remaining safety properties of `Settlement` and `Grin1Rail`, the refinement of
   `Grin1Rail`, and the proofs of `Shops`.
8. Left to prove: lemmas that liveness rests on (what a fair step cannot be kept from), such as that a
   request past `receive_tx` never goes back.

Not modelled: the parsing of the configuration (its values are constants), rendering and static
pages, slate and gift-wrap cryptography (keys and slates are values), the Tor daemon, and
`gp-goblin-sender`, a manual test client.
