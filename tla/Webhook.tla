------------------------------ MODULE Webhook ------------------------------
(***************************************************************************)
(* The webhook outbox of gp-core::webhook and the dispatcher of            *)
(* gp-server::webhookd that drains it.  The module holds their state and   *)
(* one action per step; StoreOrder composes them with a store that         *)
(* answers.                                                                *)
(*                                                                         *)
(* next_attempt_at is kept relative to the clock: `lag` is what is left to *)
(* wait, and negative once the delivery is overdue.                        *)
(***************************************************************************)
EXTENDS Integers, FiniteSets

CONSTANTS
    Event,         \* event ids
    Batch,         \* BATCH: deliveries per pass
    MaxAttempts,   \* MAX_ATTEMPTS
    Base, Cap,     \* BACKOFF_BASE, BACKOFF_CAP
    MaxLag         \* bound: longer overdue is not told apart

ASSUME WebhookAssumption ==
    /\ Batch \in Nat \ {0} /\ MaxAttempts \in Nat \ {0}
    /\ Base \in Nat \ {0} /\ Cap \in Nat \ {0}
    /\ MaxLag \in Nat

VARIABLES
    outbox,   \* table webhook_delivery
    pass,     \* the dispatcher's drain pass
    posts     \* history: POSTs sent for each event

webhookVars == <<outbox, pass, posts>>

Delivery == [queued    : BOOLEAN,
             delivered : BOOLEAN,
             attempts  : 0..MaxAttempts,
             lag       : (-MaxLag)..Cap]

NotQueued == [queued |-> FALSE, delivered |-> FALSE, attempts |-> 0, lag |-> 0]

Pass == [pc   : {"idle", "next", "sent", "accepted", "refused"},
         work : SUBSET Event,   \* rows read by `due` and not yet posted
         sent : SUBSET Event]   \* the one being posted or marked

Sleeping == [pc |-> "idle", work |-> {}, sent |-> {}]

Sending(e) == pass.pc = "sent" /\ e \in pass.sent

InitWebhook == /\ outbox = [e \in Event |-> NotQueued]
               /\ pass = Sleeping
               /\ posts = [e \in Event |-> 0]

\* min(BASE * 2^(attempts-1), CAP)
Backoff(attempts) ==
    LET wait == Base * 2 ^ (attempts - 1) IN
    IF attempts = 0 THEN 0 ELSE IF wait \in 0..Cap THEN wait ELSE Cap

\* enqueue: the row is due at once.
Enqueue(e) == outbox' = [outbox EXCEPT ![e] = [NotQueued EXCEPT !.queued = TRUE]]

\* Mutant: the ceiling is one attempt too late.
DuePastCeiling(e) == /\ outbox[e].queued /\ ~outbox[e].delivered
                     /\ outbox[e].attempts <= MaxAttempts
                     /\ outbox[e].lag <= 0
\* Mutant: a delivery that failed once is not read again.
DueOnce(e) == /\ outbox[e].queued /\ ~outbox[e].delivered
              /\ outbox[e].attempts < 1
              /\ outbox[e].lag <= 0
Due(e) == /\ outbox[e].queued /\ ~outbox[e].delivered
          /\ outbox[e].attempts < MaxAttempts
          /\ outbox[e].lag <= 0

\* ORDER BY next_attempt_at LIMIT Batch; ties in any order.
DueBatch(W) ==
    LET due == {e \in Event : Due(e)} IN
    /\ W \subseteq due /\ W # {}
    /\ Cardinality(W) = IF Cardinality(due) < Batch THEN Cardinality(due) ELSE Batch
    /\ \A e \in W, f \in due \ W : outbox[e].lag <= outbox[f].lag

Drain(W) ==
    /\ pass.pc = "idle" /\ DueBatch(W)
    /\ pass' = [pc |-> "next", work |-> W, sent |-> {}]
    /\ UNCHANGED <<outbox, posts>>

\* The rows come in the order of the SELECT.
Post(e) ==
    /\ pass.pc = "next" /\ e \in pass.work
    /\ \A f \in pass.work : outbox[e].lag <= outbox[f].lag
    /\ pass' = [pc |-> "sent", work |-> pass.work \ {e}, sent |-> {e}]
    /\ posts' = [posts EXCEPT ![e] = @ + 1]
    /\ UNCHANGED outbox

\* An answer with a 2xx status, or anything else.
Answered(ok) == pass' = [pass EXCEPT !.pc = IF ok THEN "accepted" ELSE "refused"]

NextDelivery == pass' = IF pass.work = {} THEN Sleeping
                        ELSE [pass EXCEPT !.pc = "next", !.sent = {}]

Delivered(d) == [d EXCEPT !.delivered = TRUE, !.attempts = @ + 1]

MarkDelivered(e) ==
    /\ pass.pc = "accepted" /\ e \in pass.sent
    /\ outbox' = [outbox EXCEPT ![e] = Delivered(@)]
    /\ NextDelivery
    /\ UNCHANGED posts

\* Mutant: the row is rescheduled, the attempt not counted.
NotCounted(d) == [d EXCEPT !.lag = Backoff(d.attempts + 1)]
Failed(d) == [d EXCEPT !.attempts = @ + 1, !.lag = Backoff(d.attempts + 1)]

\* The new count is read first; only the dispatcher writes it.
MarkFailed(e) ==
    /\ pass.pc = "refused" /\ e \in pass.sent
    /\ outbox' = [outbox EXCEPT ![e] = Failed(@)]
    /\ NextDelivery
    /\ UNCHANGED posts

\* A statement that fails (or a crash) ends the pass where it is.
PassEnds == /\ pass.pc # "idle"
            /\ pass' = Sleeping
            /\ UNCHANGED <<outbox, posts>>

\* The clock moves by one backoff unit.
Waiting(e) == outbox[e].queued /\ outbox[e].lag > -MaxLag
Elapse ==
    /\ \E e \in Event : Waiting(e)
    /\ outbox' = [e \in Event |-> IF Waiting(e) THEN [outbox[e] EXCEPT !.lag = @ - 1]
                                  ELSE outbox[e]]
    /\ UNCHANGED <<pass, posts>>

GivenUp(e) == outbox[e].queued /\ ~outbox[e].delivered /\ outbox[e].attempts = MaxAttempts

=============================================================================
