----------------------------- MODULE StoreProofs -----------------------------
(***************************************************************************)
(* Theorems about the outbox and the shops it feeds, for every number of   *)
(* invoices, attempts, jobs and faults.                                    *)
(***************************************************************************)
EXTENDS StoreProperties, TLAPS

\* What the dispatcher holds is in the outbox, undelivered and short of the
\* ceiling, one delivery at a time.
PassShape ==
    /\ \A e \in pass.work \cup pass.sent :
         /\ outbox[e].queued /\ ~outbox[e].delivered
         /\ outbox[e].attempts < MaxAttempts
    /\ pass.work \cap pass.sent = {}
    /\ \A e, f \in pass.sent : e = f
    /\ pass.pc = "idle" => pass.work = {}
    /\ pass.pc \in {"idle", "next"} => pass.sent = {}

\* An event is owed before it is queued, and posted and worked on after.
EventOrder ==
    /\ \A e \in owed : ~outbox[e].queued
    /\ \A e \in Event : ~outbox[e].queued => posts[e] = 0 /\ ~outbox[e].delivered
    /\ \A h \in hooks : outbox[h.event].queued

\* No event runs ahead of the invoice it tells of.
EventsTellTruth ==
    \A e \in Event : e \in owed \/ outbox[e].queued =>
        invoice[InvoiceOf(e)] \in (IF Type(e) = "confirmed" THEN {"confirmed"}
                                   ELSE {"paid", "confirmed"})

\* A POST is counted when its answer is marked; a fault loses one count.
PostsCounted ==
    \A e \in Event :
        posts[e] <= outbox[e].attempts + faults + (IF e \in pass.sent THEN 1 ELSE 0)

\* Jobs run for an order that has its invoice, and keep it.
OrderShape ==
    /\ \A j \in Jobs : job[j].pc # "unscheduled" => order.invoice \in Invoice
    /\ order.status = "pending" => order.invoice = NULL
    /\ order.status = "processing" => order.completions > 0
    /\ order.completions > 0 => order.status \in {"processing", "cancelled"}
    /\ \A h \in hooks : h.paid => order.completions > 0

\* What a job or a poll was answered was true, and stays it.
AnswersTellTruth ==
    /\ \A j \in Jobs : job[j].status = "confirmed" => \E i \in Invoice : invoice[i] = "confirmed"
    /\ poll.status = "paid" => \E i \in Invoice : invoice[i] \in {"paid", "confirmed"}

\* The plugin has dealt with a confirmation, or is about to, or died over it.
DealtWith(e) == \/ order.completions > 0
                \/ \E h \in hooks : h.event = e /\ h.pc \in {"load", "act"}
                \/ e \in died
                \/ ~Bound(InvoiceOf(e))

Accepted(e) == outbox[e].delivered \/ (pass.pc = "accepted" /\ e \in pass.sent)

Acknowledged ==
    shop = "woocommerce" =>
        \A e \in Event : Type(e) = "confirmed" /\ (Accepted(e) \/ e \in seen) => DealtWith(e)

Outbox == TypeOK /\ PassShape /\ EventOrder /\ EventsTellTruth /\ OrderShape

-----------------------------------------------------------------------------
(* What a step may do to the outbox, the dispatcher's pass and the count   *)
(* of faults.                                                              *)

Faulted == faults < MaxFaults /\ faults' = faults + 1
Announces(e) == /\ e \in owed /\ owed' = owed \ {e}
                /\ Enqueue(e) /\ UNCHANGED <<pass, posts, hooks, faults>>
Drains == (\E W \in SUBSET Event : Drain(W)) /\ UNCHANGED <<hooks, faults>>
Marks(e) == (MarkDelivered(e) \/ MarkFailed(e)) /\ UNCHANGED <<hooks, faults>>
Hears(ok) == /\ pass.pc = "sent" /\ Answered(ok)
             /\ UNCHANGED <<outbox, posts>> /\ (UNCHANGED faults \/ Faulted)
Ends == /\ pass' = Sleeping /\ Faulted
        /\ UNCHANGED <<outbox, posts, hooks>>
Rests == UNCHANGED webhookVars /\ (UNCHANGED faults \/ Faulted)

DispatcherStep ==
    \/ \E e \in Event : Announces(e) \/ Dispatch(e) \/ Marks(e)
    \/ Drains \/ Ends \/ Rests
    \/ \E ok \in BOOLEAN : Hears(ok)
    \/ Elapse /\ UNCHANGED <<hooks, faults>>

LEMMA AcknowledgeHears ==
    ASSUME NEW h, Acknowledge(h), UNCHANGED <<outbox, posts, faults>>
    PROVE  Hears(TRUE) \/ Rests
  BY DEF Acknowledge, Current, Sending, Hears, Rests, webhookVars

LEMMA HookStepHears ==
    ASSUME NEW h \in hooks, HookStep(h) \/ SessionStep(h)
    PROVE  Hears(TRUE) \/ Rests
  <1>1. CASE HookCheck(h) \/ HookLoad(h) \/ HookAct(h) \/ SessionCapture(h)
    BY <1>1, AcknowledgeHears
    DEF HookCheck, HookLoad, HookAct, SessionCapture, Proceed, Rests, webhookVars
  <1>2. CASE HookMark(h) \/ SessionAction(h)
    BY <1>2 DEF HookMark, SessionAction, Proceed, Rests, webhookVars
  <1> QED BY <1>1, <1>2 DEF HookStep, SessionStep

LEMMA DispatcherSteps ==
    ASSUME TypeOK, [Next]_allVars
    PROVE  DispatcherStep
  <1>1. CASE Server
    <2>1. ASSUME NEW i \in Invoice, PayInvoice(i) \/ ConfirmInvoice(i) \/ ExpireInvoice(i)
          PROVE  Rests
      BY <2>1 DEF PayInvoice, ConfirmInvoice, ExpireInvoice, Advance, Rests
    <2>2. ASSUME NEW e \in Event, Announce(e)
          PROVE  Announces(e)
      BY <2>2 DEF Announce, Announces, shopVars
    <2>3. ASSUME NEW e \in Event, Unreachable(e) \/ AnswerLost(e)
          PROVE  Hears(FALSE)
      BY <2>3 DEF Unreachable, AnswerLost, Sending, Hears, Fault, Faulted, Faulted
    <2>4. CASE DispatchDrain
      BY <2>4 DEF DispatchDrain, Drains, shopVars, DispatcherStep
    <2>5. ASSUME NEW e \in Event, DispatchMark(e)
          PROVE  Marks(e)
      BY <2>5 DEF DispatchMark, Marks, shopVars
    <2>6. CASE Clock
      BY <2>6 DEF Clock, shopVars, DispatcherStep
    <2>7. CASE MarkFails \/ Crash
      BY <2>7 DEF MarkFails, Crash, PassEnds, Ends, Fault, Faulted, shopVars, DispatcherStep
    <2>8. ASSUME NEW h \in hooks, HookDies(h)
          PROVE  Hears(FALSE) \/ Rests
      BY <2>8 DEF HookDies, Current, Sending, Hears, Rests, Fault, Faulted, webhookVars
    <2> QED BY <1>1, <2>1, <2>2, <2>3, <2>4, <2>5, <2>6, <2>7, <2>8
            DEF Server, Dispatcher, DispatcherStep
  <1>2. CASE WooCommerce
    <2>1. ASSUME NEW i \in Invoice, Checkout(i) \/ CheckoutAnswerLost(i)
          PROVE  Rests
      BY <2>1 DEF Checkout, CheckoutAnswerLost, Rests, Fault, Faulted, Faulted
    <2>2. ASSUME NEW j \in Jobs, JobStep(j) \/ JobAskFails(j)
          PROVE  Rests
      BY <2>2 DEF JobStep, JobLoad, JobAsk, JobAskFails, JobSettle, JobReload, JobCancel,
                  Rests, Fault, Faulted, Faulted
    <2> QED BY <1>2, <2>1, <2>2, HookStepHears DEF WooCommerce, DispatcherStep
  <1>3. CASE Medusa
    <2>1. ASSUME NEW i \in Invoice, Initiate(i) \/ InitiateAnswerLost(i)
          PROVE  Rests
      BY <2>1 DEF Initiate, InitiateAnswerLost, Rests, Fault, Faulted, Faulted
    <2>2. CASE PollAsk \/ PollApply
      BY <2>2 DEF PollAsk, PollApply, vars, Rests, DispatcherStep
    <2> QED BY <1>3, <2>1, <2>2, HookStepHears DEF Medusa, DispatcherStep
  <1>4. CASE UNCHANGED allVars
    BY <1>4 DEF allVars, vars, Rests, DispatcherStep
  <1> QED BY <1>1, <1>2, <1>3, <1>4 DEF Next

-----------------------------------------------------------------------------
(* The outbox and the dispatcher.                                          *)

\* The wait is never more than BACKOFF_CAP (backoff_secs).
LEMMA BackoffTyped == \A n : Backoff(n) \in (-MaxLag)..Cap
  BY WebhookAssumption DEF Backoff

LEMMA FieldsTyped ==
    ASSUME NEW d \in Delivery, NEW n \in 0..MaxAttempts, NEW t \in (-MaxLag)..Cap
    PROVE  /\ [d EXCEPT !.queued = TRUE] \in Delivery
           /\ [d EXCEPT !.delivered = TRUE, !.attempts = n] \in Delivery
           /\ [d EXCEPT !.attempts = n, !.lag = t] \in Delivery
           /\ [d EXCEPT !.lag = t] \in Delivery
  BY DEF Delivery

LEMMA DeliveryTyped ==
    ASSUME NEW d \in Delivery
    PROVE  /\ d.attempts < MaxAttempts => Delivered(d) \in Delivery /\ Failed(d) \in Delivery
           /\ d.lag > -MaxLag => [d EXCEPT !.lag = @ - 1] \in Delivery
           /\ [NotQueued EXCEPT !.queued = TRUE] \in Delivery
  <1> USE WebhookAssumption
  <1>0. d.attempts \in 0..MaxAttempts /\ d.lag \in (-MaxLag)..Cap
    BY DEF Delivery
  <1>1. ASSUME d.attempts < MaxAttempts
        PROVE  Delivered(d) \in Delivery /\ Failed(d) \in Delivery
    <2>1. d.attempts + 1 \in 0..MaxAttempts
      BY <1>0, <1>1
    <2> QED BY <1>0, <2>1, FieldsTyped, BackoffTyped DEF Delivered, Failed
  <1>2. ASSUME d.lag > -MaxLag
        PROVE  [d EXCEPT !.lag = @ - 1] \in Delivery
    <2>1. d.lag - 1 \in (-MaxLag)..Cap
      BY <1>0, <1>2
    <2> QED BY <1>0, <2>1, FieldsTyped
  <1>3. [NotQueued EXCEPT !.queued = TRUE] \in Delivery
    <2>1. NotQueued \in Delivery /\ 0 \in 0..MaxAttempts /\ 0 \in (-MaxLag)..Cap
      BY DEF NotQueued, Delivery
    <2> QED BY <2>1, FieldsTyped
  <1> QED BY <1>1, <1>2, <1>3

LEMMA OutboxTyped ==
    ASSUME TypeOK, PassShape, [Next]_allVars
    PROVE  /\ outbox' \in [Event -> Delivery] /\ pass' \in Pass
           /\ posts' \in [Event -> Nat] /\ faults' \in 0..MaxFaults
  <1> DEFINE Goal == /\ outbox' \in [Event -> Delivery] /\ pass' \in Pass
                     /\ posts' \in [Event -> Nat] /\ faults' \in 0..MaxFaults
  <1>0. /\ outbox \in [Event -> Delivery] /\ pass \in Pass
        /\ posts \in [Event -> Nat] /\ faults \in 0..MaxFaults
        /\ Sleeping \in Pass
    BY DEF TypeOK, Sleeping, Pass
  <1>1. ASSUME NEW e \in Event, Announces(e)
        PROVE  Goal
    <2>1. [NotQueued EXCEPT !.queued = TRUE] \in Delivery
      BY <1>0, DeliveryTyped
    <2> QED BY <1>0, <1>1, <2>1 DEF Announces, Enqueue
  <1>2. ASSUME NEW e \in Event, Dispatch(e)
        PROVE  Goal
    BY <1>0, <1>2 DEF Dispatch, Post, Pass
  <1>3. ASSUME NEW e \in Event, Marks(e)
        PROVE  Goal
    <2>1. outbox[e] \in Delivery /\ outbox[e].attempts < MaxAttempts
      BY <1>0, <1>3 DEF Marks, MarkDelivered, MarkFailed, PassShape
    <2>2. Delivered(outbox[e]) \in Delivery /\ Failed(outbox[e]) \in Delivery
      BY <2>1, DeliveryTyped
    <2>3. outbox' \in [Event -> Delivery]
      BY <1>0, <1>3, <2>2 DEF Marks, MarkDelivered, MarkFailed
    <2>4. pass' \in Pass
      BY <1>0, <1>3 DEF Marks, MarkDelivered, MarkFailed, NextDelivery, Pass
    <2> QED BY <1>0, <1>3, <2>3, <2>4 DEF Marks, MarkDelivered, MarkFailed
  <1>4. CASE Drains
    BY <1>0, <1>4 DEF Drains, Drain, Pass
  <1>a. Faulted => faults' \in 0..MaxFaults
    BY <1>0, StoreAssumption DEF Faulted
  <1>5. CASE Ends \/ Rests
    BY <1>0, <1>a, <1>5 DEF Ends, Rests, webhookVars
  <1>6. ASSUME NEW ok \in BOOLEAN, Hears(ok)
        PROVE  Goal
    BY <1>0, <1>a, <1>6 DEF Hears, Answered, Pass
  <1>7. CASE Elapse /\ UNCHANGED <<hooks, faults>>
    <2>1. ASSUME NEW e \in Event
          PROVE  outbox'[e] \in Delivery
      BY <1>0, <1>7, DeliveryTyped DEF Elapse, Waiting
    <2>2. outbox' = [e \in Event |-> outbox'[e]]
      BY <1>7 DEF Elapse
    <2> QED BY <1>0, <1>7, <2>1, <2>2 DEF Elapse
  <1> QED BY <1>1, <1>2, <1>3, <1>4, <1>5, <1>6, <1>7, DispatcherSteps DEF DispatcherStep

LEMMA PassStep ==
    ASSUME TypeOK, TypeOK', PassShape, EventOrder, [Next]_allVars
    PROVE  PassShape'
  <1> USE DEF PassShape
  <1>0. outbox \in [Event -> Delivery] /\ pass \in Pass
    BY DEF TypeOK
  <1>1. ASSUME NEW e \in Event, Announces(e)
        PROVE  PassShape'
    <2>1. e \notin pass.work \cup pass.sent
      BY <1>1 DEF Announces, EventOrder
    <2> QED BY <1>0, <1>1, <2>1 DEF Announces, Enqueue, Pass
  <1>2. ASSUME NEW e \in Event, Dispatch(e)
        PROVE  PassShape'
    BY <1>0, <1>2 DEF Dispatch, Post, Pass
  <1>3. ASSUME NEW e \in Event, Marks(e)
        PROVE  PassShape'
    <2>1. /\ e \in pass.sent /\ e \notin pass.work
          /\ \A f \in Event \ {e} : outbox'[f] = outbox[f]
          /\ NextDelivery
      <3>1. e \in pass.sent /\ NextDelivery
        BY <1>3 DEF Marks, MarkDelivered, MarkFailed
      <3>2. \A f \in Event \ {e} : outbox'[f] = outbox[f]
        BY <1>0, <1>3 DEF Marks, MarkDelivered, MarkFailed
      <3> QED BY <3>1, <3>2
    <2>2. CASE pass.work = {}
      BY <2>1, <2>2 DEF NextDelivery, Sleeping
    <2>3. CASE pass.work # {}
      <3>1. /\ pass'.pc = "next" /\ pass'.work = pass.work /\ pass'.sent = {}
        BY <1>0, <2>1, <2>3 DEF NextDelivery, Pass
      <3>2. \A f \in pass.work : outbox'[f] = outbox[f]
        BY <1>0, <2>1 DEF Pass
      <3> QED BY <3>1, <3>2
    <2> QED BY <2>2, <2>3
  <1>4. CASE Drains
    BY <1>0, <1>4 DEF Drains, Drain, DueBatch, Due, Pass
  <1>5. CASE Ends \/ Rests
    BY <1>0, <1>5 DEF Ends, Rests, Sleeping, webhookVars
  <1>6. ASSUME NEW ok \in BOOLEAN, Hears(ok)
        PROVE  PassShape'
    BY <1>0, <1>6 DEF Hears, Answered, Pass
  <1>7. CASE Elapse /\ UNCHANGED <<hooks, faults>>
    <2>1. \A e \in Event : /\ outbox'[e].queued = outbox[e].queued
                           /\ outbox'[e].delivered = outbox[e].delivered
                           /\ outbox'[e].attempts = outbox[e].attempts
      BY <1>0, <1>7 DEF Elapse, Delivery
    <2>2. pass.work \cup pass.sent \subseteq Event
      BY <1>0 DEF Pass
    <2> QED BY <1>7, <2>1, <2>2 DEF Elapse
  <1> QED BY <1>1, <1>2, <1>3, <1>4, <1>5, <1>6, <1>7, DispatcherSteps DEF DispatcherStep

\* What marking changes of a delivery, and what it leaves.
LEMMA Marked ==
    ASSUME NEW d \in Delivery
    PROVE  /\ Delivered(d).queued = d.queued /\ Failed(d).queued = d.queued
           /\ Failed(d).delivered = d.delivered
           /\ Delivered(d).attempts = d.attempts + 1 /\ Failed(d).attempts = d.attempts + 1
  <1>1. ASSUME NEW n, NEW t
        PROVE  /\ [d EXCEPT !.delivered = TRUE, !.attempts = n].queued = d.queued
               /\ [d EXCEPT !.delivered = TRUE, !.attempts = n].attempts = n
               /\ [d EXCEPT !.attempts = n, !.lag = t].queued = d.queued
               /\ [d EXCEPT !.attempts = n, !.lag = t].delivered = d.delivered
               /\ [d EXCEPT !.attempts = n, !.lag = t].attempts = n
    BY DEF Delivery
  <1> QED BY <1>1 DEF Delivered, Failed

\* What a step may do to one event's delivery.
LEMMA DeliverySteps ==
    ASSUME TypeOK, PassShape, [Next]_allVars, NEW e \in Event
    PROVE  /\ outbox'[e].queued <=> outbox[e].queued \/ Announces(e)
           /\ outbox'[e].delivered => \/ outbox[e].delivered
                                      \/ pass.pc = "accepted" /\ e \in pass.sent
           /\ posts'[e] # posts[e] => e \in pass.work
  <1> DEFINE Goal == /\ outbox'[e].queued <=> outbox[e].queued \/ Announces(e)
                     /\ outbox'[e].delivered => \/ outbox[e].delivered
                                                \/ pass.pc = "accepted" /\ e \in pass.sent
                     /\ posts'[e] # posts[e] => e \in pass.work
  <1>0. /\ outbox \in [Event -> Delivery] /\ pass \in Pass /\ posts \in [Event -> Nat]
        /\ Announces(e) => outbox'[e].queued
    BY DEF TypeOK, Announces, Enqueue, NotQueued
  <1>1. ASSUME NEW f \in Event, Announces(f)
        PROVE  Goal
    <2>1. CASE f = e
      <3>1. outbox'[e] = [NotQueued EXCEPT !.queued = TRUE] /\ UNCHANGED posts
        BY <1>0, <1>1, <2>1 DEF Announces, Enqueue
      <3>2. ~outbox'[e].delivered
        BY <3>1 DEF NotQueued
      <3> QED BY <1>0, <1>1, <2>1, <3>1, <3>2
    <2>2. CASE f # e
      BY <1>0, <1>1, <2>2 DEF Announces, Enqueue
    <2> QED BY <2>1, <2>2
  <1>2. ASSUME NEW f \in Event, Dispatch(f)
        PROVE  Goal
    BY <1>0, <1>2 DEF Dispatch, Post
  <1>3. ASSUME NEW f \in Event, Marks(f)
        PROVE  Goal
    <2>1. CASE f = e
      <3>1. outbox[e] \in Delivery /\ UNCHANGED posts
        BY <1>0, <1>3 DEF Marks, MarkDelivered, MarkFailed
      <3>2. outbox[e].queued
        BY <1>3, <2>1 DEF Marks, MarkDelivered, MarkFailed, PassShape
      <3>3. CASE MarkDelivered(f)
        BY <1>0, <2>1, <3>1, <3>2, <3>3, Marked DEF MarkDelivered
      <3>4. CASE MarkFailed(f)
        BY <1>0, <2>1, <3>1, <3>2, <3>4, Marked DEF MarkFailed
      <3> QED BY <1>3, <3>3, <3>4 DEF Marks
    <2>2. CASE f # e
      BY <1>0, <1>3, <2>2 DEF Marks, MarkDelivered, MarkFailed
    <2> QED BY <2>1, <2>2
  <1>4. CASE Drains
    BY <1>0, <1>4 DEF Drains, Drain
  <1>5. CASE Ends \/ Rests
    BY <1>0, <1>5 DEF Ends, Rests, webhookVars
  <1>6. ASSUME NEW ok \in BOOLEAN, Hears(ok)
        PROVE  Goal
    BY <1>0, <1>6 DEF Hears
  <1>7. CASE Elapse /\ UNCHANGED <<hooks, faults>>
    BY <1>0, <1>7 DEF Elapse, Delivery
  <1> QED BY <1>1, <1>2, <1>3, <1>4, <1>5, <1>6, <1>7, DispatcherSteps DEF DispatcherStep

LEMMA PostsCountedStep ==
    ASSUME TypeOK, TypeOK', PassShape, EventOrder, PostsCounted, [Next]_allVars
    PROVE  PostsCounted'
  <1> SUFFICES ASSUME NEW e \in Event
               PROVE  posts'[e] <= outbox'[e].attempts + faults'
                                     + (IF e \in pass'.sent THEN 1 ELSE 0)
    BY DEF PostsCounted
  <1> DEFINE Goal == posts'[e] <= outbox'[e].attempts + faults'
                                    + (IF e \in pass'.sent THEN 1 ELSE 0)
  <1>0. /\ outbox \in [Event -> Delivery] /\ pass \in Pass /\ posts[e] \in Nat
        /\ faults \in Nat /\ outbox[e].attempts \in Nat /\ pass.sent \subseteq Event
        /\ posts \in [Event -> Nat]
        /\ posts[e] <= outbox[e].attempts + faults + (IF e \in pass.sent THEN 1 ELSE 0)
    BY DEF TypeOK, Delivery, Pass, PostsCounted
  <1>1. ASSUME NEW f \in Event, Announces(f)
        PROVE  Goal
    <2>1. CASE f = e
      <3>1. posts'[e] = 0 /\ outbox'[e].attempts \in Nat /\ faults' \in Nat
        BY <1>1, <2>1 DEF Announces, EventOrder, TypeOK, Delivery
      <3> QED BY <3>1
    <2>2. CASE f # e
      BY <1>0, <1>1, <2>2 DEF Announces, Enqueue
    <2> QED BY <2>1, <2>2
  <1>2. ASSUME NEW f \in Event, Dispatch(f)
        PROVE  Goal
    <2>1. /\ pass'.sent = {f} /\ pass.sent = {}
          /\ posts' = [posts EXCEPT ![f] = @ + 1] /\ UNCHANGED <<outbox, faults>>
      BY <1>2 DEF Dispatch, Post, PassShape
    <2> QED BY <1>0, <2>1
  <1>3. ASSUME NEW f \in Event, Marks(f)
        PROVE  Goal
    <2>1. f \in pass.sent /\ UNCHANGED <<posts, faults>>
      BY <1>3 DEF Marks, MarkDelivered, MarkFailed
    <2>2. CASE f = e
      <3>1. outbox'[e].attempts = outbox[e].attempts + 1
        <4>1. outbox[e] \in Delivery
          BY <1>0
        <4> QED BY <1>0, <1>3, <2>2, <4>1, Marked DEF Marks, MarkDelivered, MarkFailed
      <3> QED BY <1>0, <2>1, <3>1
    <2>3. CASE f # e
      <3>1. outbox'[e] = outbox[e]
        BY <1>0, <1>3, <2>3 DEF Marks, MarkDelivered, MarkFailed
      <3>2. e \notin pass.sent
        BY <2>1, <2>3 DEF PassShape
      <3> QED BY <1>0, <2>1, <3>1, <3>2
    <2> QED BY <2>2, <2>3
  <1>4. CASE Drains
    <2>1. /\ UNCHANGED <<outbox, posts, faults>> /\ e \notin pass.sent
      BY <1>4 DEF Drains, Drain, PassShape
    <2> QED BY <1>0, <2>1
  <1>5. CASE Ends
    <2>1. /\ UNCHANGED <<outbox, posts>> /\ faults' = faults + 1
      BY <1>5 DEF Ends, Faulted
    <2> QED BY <1>0, <2>1
  <1>6. CASE Rests
    <2>1. /\ UNCHANGED <<outbox, posts, pass>> /\ faults' \in {faults, faults + 1}
      BY <1>6 DEF Rests, Faulted, webhookVars
    <2> QED BY <1>0, <2>1
  <1>7. ASSUME NEW ok \in BOOLEAN, Hears(ok)
        PROVE  Goal
    <2>1. /\ UNCHANGED <<outbox, posts>> /\ faults' \in {faults, faults + 1}
          /\ pass'.sent = pass.sent
      BY <1>0, <1>7 DEF Hears, Answered, Faulted, Pass
    <2> QED BY <1>0, <2>1
  <1>8. CASE Elapse /\ UNCHANGED <<hooks, faults>>
    <2>1. /\ UNCHANGED <<pass, posts, faults>>
          /\ outbox'[e].attempts = outbox[e].attempts
      BY <1>0, <1>8 DEF Elapse, Delivery
    <2> QED BY <1>0, <2>1
  <1> QED BY <1>1, <1>2, <1>3, <1>4, <1>5, <1>6, <1>7, <1>8, DispatcherSteps
          DEF DispatcherStep

-----------------------------------------------------------------------------
(* The server's invoices and the events it owes.                           *)

Advances(i) == PayInvoice(i) \/ ConfirmInvoice(i)
Opens(i) == /\ invoice[i] = "absent"
            /\ invoice' = [invoice EXCEPT ![i] = "open"] /\ UNCHANGED owed
Forgets == owed' \subseteq owed /\ UNCHANGED invoice

\* What a step may do to the invoices and to the events not inserted yet.
LEMMA ServerSteps ==
    ASSUME [Next]_allVars
    PROVE  \/ \E i \in Invoice : Advances(i) \/ ExpireInvoice(i) \/ Opens(i)
           \/ Forgets
  <1>1. CASE Server
    <2>1. ASSUME NEW e \in Event, Announce(e) \/ Unreachable(e) \/ AnswerLost(e) \/ Dispatch(e)
                                  \/ DispatchMark(e)
          PROVE  Forgets
      BY <2>1 DEF Announce, Unreachable, AnswerLost, Dispatch, DispatchMark, serverVars, Forgets
    <2>2. CASE DispatchDrain \/ Clock \/ MarkFails \/ Crash
      BY <2>2 DEF DispatchDrain, Clock, MarkFails, Crash, serverVars, Forgets
    <2>3. ASSUME NEW h \in hooks, HookDies(h)
          PROVE  Forgets
      BY <2>3 DEF HookDies, serverVars, Forgets
    <2> QED BY <1>1, <2>1, <2>2, <2>3 DEF Server, Dispatcher, Advances
  <1>2. CASE WooCommerce
    <2>1. ASSUME NEW i \in Invoice, Checkout(i) \/ CheckoutAnswerLost(i)
          PROVE  Opens(i)
      BY <2>1 DEF Checkout, CheckoutAnswerLost, Opens
    <2>2. ASSUME NEW j \in Jobs, JobStep(j) \/ JobAskFails(j)
          PROVE  Forgets
      BY <2>2 DEF JobStep, JobLoad, JobAsk, JobAskFails, JobSettle, JobReload, JobCancel,
                  serverVars, Forgets
    <2>3. ASSUME NEW h \in hooks, HookStep(h)
          PROVE  Forgets
      BY <2>3 DEF HookStep, HookCheck, HookMark, HookLoad, HookAct, serverVars, Forgets
    <2> QED BY <1>2, <2>1, <2>2, <2>3 DEF WooCommerce
  <1>3. CASE Medusa
    <2>1. ASSUME NEW i \in Invoice, Initiate(i) \/ InitiateAnswerLost(i)
          PROVE  Opens(i)
      BY <2>1 DEF Initiate, InitiateAnswerLost, Opens
    <2>2. CASE PollAsk \/ PollApply
      BY <2>2 DEF PollAsk, PollApply, vars, serverVars, Forgets
    <2>3. ASSUME NEW h \in hooks, SessionStep(h)
          PROVE  Forgets
      BY <2>3 DEF SessionStep, SessionAction, SessionCapture, serverVars, Forgets
    <2> QED BY <1>3, <2>1, <2>2, <2>3 DEF Medusa
  <1>4. CASE UNCHANGED allVars
    BY <1>4 DEF allVars, vars, serverVars, Forgets
  <1> QED BY <1>1, <1>2, <1>3, <1>4 DEF Next

\* Statuses only advance, and an event is owed by the step it tells of.
LEMMA InvoiceSteps ==
    ASSUME TypeOK, [Next]_allVars
    PROVE  /\ invoice' \in [Invoice -> {"absent", "open", "paid", "confirmed", "expired"}]
           /\ owed' \subseteq Event
           /\ \A i \in Invoice :
                /\ invoice[i] = "confirmed" => invoice'[i] = "confirmed"
                /\ invoice[i] = "paid" => invoice'[i] \in {"paid", "confirmed"}
           /\ \A e \in owed' \ owed :
                IF Type(e) = "confirmed"
                THEN invoice[InvoiceOf(e)] = "paid" /\ invoice'[InvoiceOf(e)] = "confirmed"
                ELSE invoice[InvoiceOf(e)] = "open" /\ invoice'[InvoiceOf(e)] = "paid"
  <1>0. /\ invoice \in [Invoice -> {"absent", "open", "paid", "confirmed", "expired"}]
        /\ owed \subseteq Event
    BY DEF TypeOK
  <1>1. ASSUME NEW i \in Invoice, Advances(i)
        PROVE  /\ owed' \subseteq Event
               /\ \A e \in owed' \ owed :
                    IF Type(e) = "confirmed"
                    THEN invoice[InvoiceOf(e)] = "paid" /\ invoice'[InvoiceOf(e)] = "confirmed"
                    ELSE invoice[InvoiceOf(e)] = "open" /\ invoice'[InvoiceOf(e)] = "paid"
    BY <1>0, <1>1, StoreAssumption
    DEF Advances, PayInvoice, ConfirmInvoice, Advance, Type, InvoiceOf
  <1>2. ASSUME NEW i \in Invoice, Advances(i) \/ ExpireInvoice(i) \/ Opens(i)
        PROVE  /\ invoice' \in [Invoice -> {"absent", "open", "paid", "confirmed", "expired"}]
               /\ \A k \in Invoice :
                    /\ invoice[k] = "confirmed" => invoice'[k] = "confirmed"
                    /\ invoice[k] = "paid" => invoice'[k] \in {"paid", "confirmed"}
    BY <1>0, <1>2 DEF Advances, PayInvoice, ConfirmInvoice, Advance, ExpireInvoice, Opens
  <1>3. ASSUME NEW i \in Invoice, ExpireInvoice(i) \/ Opens(i)
        PROVE  owed' = owed
    BY <1>3 DEF ExpireInvoice, Opens
  <1>4. CASE Forgets
    BY <1>0, <1>4 DEF Forgets
  <1> QED BY <1>0, <1>1, <1>2, <1>3, <1>4, ServerSteps

LEMMA EventsTellTruthStep ==
    ASSUME TypeOK, PassShape, EventsTellTruth, [Next]_allVars
    PROVE  EventsTellTruth'
  <1> SUFFICES ASSUME NEW e \in Event, e \in owed' \/ outbox'[e].queued
               PROVE  invoice'[InvoiceOf(e)] \in (IF Type(e) = "confirmed" THEN {"confirmed"}
                                                  ELSE {"paid", "confirmed"})
    BY DEF EventsTellTruth
  <1>0. InvoiceOf(e) \in Invoice
    BY StoreAssumption DEF InvoiceOf
  <1>1. CASE e \in owed' \ owed
    BY <1>1, InvoiceSteps
  <1>2. CASE e \notin owed' \ owed
    <2>1. e \in owed \/ outbox[e].queued
      BY <1>2, DeliverySteps DEF Announces
    <2> QED BY <1>0, <2>1, InvoiceSteps DEF EventsTellTruth
  <1> QED BY <1>1, <1>2

-----------------------------------------------------------------------------
(* The requests inside the shop.                                           *)

LEMMA HookTyped ==
    ASSUME NEW h \in Hook, NEW k, NEW pc \in {"check", "mark", "load", "act"}, NEW p \in BOOLEAN,
           k = [h EXCEPT !.pc = pc] \/ k = [h EXCEPT !.pc = pc, !.paid = p]
    PROVE  k \in Hook /\ k.event = h.event /\ k.pc = pc /\ (k.paid => h.paid \/ p)
  <1>1. CASE k = [h EXCEPT !.pc = pc]
    BY <1>1 DEF Hook
  <1>2. CASE k = [h EXCEPT !.pc = pc, !.paid = p]
    BY <1>2 DEF Hook
  <1> QED BY <1>1, <1>2

\* h is a request that was there before, has moved on, or was just posted.
Comes(h) ==
    \/ h \in hooks
    \/ \E g \in hooks : h.event = g.event /\ (h.paid => g.paid \/ IsPaid)
    \/ h.event \in pass.work /\ ~h.paid

LEMMA FreshHook ==
    ASSUME NEW e \in Event, NEW n \in Nat
    PROVE  LET k == [event |-> e, n |-> n, pc |-> "check", paid |-> FALSE]
           IN  k \in Hook /\ k.event = e /\ ~k.paid
  BY DEF Hook

LEMMA PostComes ==
    ASSUME TypeOK, PassShape, [Next]_allVars, NEW e \in Event, Dispatch(e)
    PROVE  \A h \in hooks' : h \in Hook /\ Comes(h)
  <1>1. e \in pass.work /\ posts'[e] \in Nat /\ hooks \subseteq Hook
    BY OutboxTyped DEF Dispatch, Post, TypeOK
  <1>2. PICK k : /\ k = [event |-> e, n |-> posts'[e], pc |-> "check", paid |-> FALSE]
                 /\ k \in Hook /\ k.event = e /\ ~k.paid
    BY <1>1, FreshHook
  <1>3. hooks' = hooks \cup {k}
    BY <1>2 DEF Dispatch
  <1>4. Comes(k) /\ \A h \in hooks : Comes(h)
    BY <1>1, <1>2 DEF Comes
  <1> QED BY <1>1, <1>2, <1>3, <1>4

LEMMA RequestComes ==
    ASSUME TypeOK, NEW g \in hooks, HookStep(g) \/ SessionStep(g)
    PROVE  \A h \in hooks' : h \in Hook /\ Comes(h)
  <1>0. g \in Hook /\ hooks \subseteq Hook /\ IsPaid \in BOOLEAN
    BY DEF TypeOK, IsPaid
  <1>1. ASSUME NEW pc \in {"check", "mark", "load", "act"}, NEW p \in BOOLEAN, NEW k,
               k = [g EXCEPT !.pc = pc] \/ k = [g EXCEPT !.pc = pc, !.paid = p],
               hooks' = (hooks \ {g}) \cup {k}, p => IsPaid
        PROVE  \A h \in hooks' : h \in Hook /\ Comes(h)
    <2>1. k \in Hook /\ k.event = g.event /\ (k.paid => g.paid \/ p)
      BY <1>0, <1>1, HookTyped
    <2>2. Comes(k) /\ \A h \in hooks : Comes(h)
      BY <1>1, <2>1 DEF Comes
    <2> QED BY <1>0, <1>1, <2>1, <2>2
  <1>2. CASE \E pc \in {"mark", "load", "act"} : Proceed(g, pc)
    <2>1. PICK pc \in {"mark", "load", "act"} : hooks' = (hooks \ {g}) \cup {[g EXCEPT !.pc = pc]}
      BY <1>2 DEF Proceed
    <2> QED BY <1>1, <2>1
  <1>4. CASE hooks' = (hooks \ {g}) \cup {[g EXCEPT !.pc = "act", !.paid = IsPaid]}
    <2>1. PICK p \in BOOLEAN : p = IsPaid
      BY <1>0
    <2> QED BY <1>1, <1>4, <2>1
  <1>3. CASE Acknowledge(g)
    BY <1>0, <1>3 DEF Acknowledge, Comes
  <1> QED BY <1>2, <1>3, <1>4
          DEF HookStep, HookCheck, HookMark, HookLoad, HookAct,
              SessionStep, SessionAction, SessionCapture

LEMMA RequestsCome ==
    ASSUME TypeOK, PassShape, [Next]_allVars
    PROVE  \A h \in hooks' : h \in Hook /\ Comes(h)
  <1> SUFFICES ASSUME ~ \E e \in Event : Dispatch(e),
                      ~ \E g \in hooks : HookStep(g) \/ SessionStep(g)
               PROVE  hooks' \subseteq hooks
    BY PostComes, RequestComes DEF TypeOK, Comes
  <1>1. CASE Server
    <2>1. ASSUME NEW i \in Invoice, PayInvoice(i) \/ ConfirmInvoice(i) \/ ExpireInvoice(i)
          PROVE  UNCHANGED hooks
      BY <2>1 DEF PayInvoice, ConfirmInvoice, ExpireInvoice, Advance, shopVars
    <2>2. ASSUME NEW e \in Event, Announce(e) \/ AnswerLost(e) \/ DispatchMark(e)
          PROVE  UNCHANGED hooks
      BY <2>2 DEF Announce, AnswerLost, DispatchMark, shopVars
    <2>3. ASSUME NEW e \in Event, Unreachable(e)
          PROVE  hooks' \subseteq hooks
      BY <2>3 DEF Unreachable
    <2>4. CASE DispatchDrain \/ Clock \/ MarkFails \/ Crash
      BY <2>4 DEF DispatchDrain, Clock, MarkFails, Crash, shopVars
    <2>5. ASSUME NEW h \in hooks, HookDies(h)
          PROVE  hooks' \subseteq hooks
      BY <2>5 DEF HookDies
    <2> QED BY <1>1, <2>1, <2>2, <2>3, <2>4, <2>5 DEF Server, Dispatcher
  <1>2. CASE WooCommerce
    <2>1. ASSUME NEW i \in Invoice, Checkout(i) \/ CheckoutAnswerLost(i)
          PROVE  UNCHANGED hooks
      BY <2>1 DEF Checkout, CheckoutAnswerLost, shopVars
    <2>2. ASSUME NEW j \in Jobs, JobStep(j) \/ JobAskFails(j)
          PROVE  UNCHANGED hooks
      BY <2>2 DEF JobStep, JobLoad, JobAsk, JobAskFails, JobSettle, JobReload, JobCancel
    <2> QED BY <1>2, <2>1, <2>2 DEF WooCommerce
  <1>3. CASE Medusa
    <2>1. ASSUME NEW i \in Invoice, Initiate(i) \/ InitiateAnswerLost(i)
          PROVE  UNCHANGED hooks
      BY <2>1 DEF Initiate, InitiateAnswerLost, shopVars
    <2>2. CASE PollAsk \/ PollApply
      BY <2>2 DEF PollAsk, PollApply, vars, shopVars
    <2> QED BY <1>3, <2>1, <2>2 DEF Medusa
  <1>4. CASE UNCHANGED allVars
    BY <1>4 DEF allVars, vars, shopVars
  <1> QED BY <1>1, <1>2, <1>3, <1>4 DEF Next

LEMMA EventOrderStep ==
    ASSUME TypeOK, TypeOK', PassShape, EventOrder, EventsTellTruth, [Next]_allVars
    PROVE  EventOrder'
  <1>1. \A e \in Event : outbox[e].queued => outbox'[e].queued
    BY DeliverySteps
  <1>2. ASSUME NEW e \in owed'
        PROVE  ~outbox'[e].queued
    <2>1. e \in Event
      BY <1>2, InvoiceSteps
    <2>2. CASE e \in owed
      <3>1. ~Announces(e)
        BY <1>2 DEF Announces
      <3> QED BY <2>1, <2>2, <3>1, DeliverySteps DEF EventOrder
    <2>3. CASE e \notin owed
      <3>1. ~outbox[e].queued
        BY <1>2, <2>1, <2>3, InvoiceSteps DEF EventsTellTruth
      <3> QED BY <2>1, <2>3, <3>1, DeliverySteps DEF Announces
    <2> QED BY <2>2, <2>3
  <1>3. ASSUME NEW e \in Event, ~outbox'[e].queued
        PROVE  posts'[e] = 0 /\ ~outbox'[e].delivered
    <2>1. ~outbox[e].queued
      BY <1>1, <1>3
    <2>2. e \notin pass.work \cup pass.sent
      BY <2>1 DEF PassShape
    <2> QED BY <2>1, <2>2, DeliverySteps DEF EventOrder
  <1>4. ASSUME NEW h \in hooks'
        PROVE  outbox'[h.event].queued
    <2>1. h \in Hook /\ Comes(h)
      BY <1>4, RequestsCome
    <2>2. h.event \in Event
      BY <2>1 DEF Hook
    <2>3. outbox[h.event].queued
      BY <2>1 DEF Comes, EventOrder, PassShape
    <2> QED BY <1>1, <2>2, <2>3
  <1> QED BY <1>2, <1>3, <1>4 DEF EventOrder

-----------------------------------------------------------------------------
(* The order, its jobs and the session.                                    *)

Elsewhere == UNCHANGED <<order, job, seen, session, poll>> /\ died' \subseteq died \cup Event

\* What a step may do to the shop, its requests apart.
ShopStep ==
    \/ /\ UNCHANGED sessionVars
       /\ \/ \E i \in Invoice : Checkout(i)
          \/ \E h \in hooks : HookStep(h)
          \/ \E j \in Jobs : JobStep(j) \/ JobAskFails(j)
    \/ \E i \in Invoice : Initiate(i)
    \/ \E h \in hooks : SessionStep(h)
    \/ PollAsk \/ PollApply
    \/ Elsewhere

LEMMA ShopSteps ==
    ASSUME TypeOK, [Next]_allVars
    PROVE  ShopStep
  <1>1. CASE Server /\ UNCHANGED sessionVars
    <2>1. ASSUME NEW i \in Invoice, PayInvoice(i) \/ ConfirmInvoice(i) \/ ExpireInvoice(i)
          PROVE  UNCHANGED shopVars
      BY <2>1 DEF PayInvoice, ConfirmInvoice, ExpireInvoice, Advance
    <2>2. ASSUME NEW e \in Event, Announce(e) \/ AnswerLost(e) \/ DispatchMark(e)
          PROVE  UNCHANGED shopVars
      BY <2>2 DEF Announce, AnswerLost, DispatchMark
    <2>3. ASSUME NEW e \in Event, Unreachable(e) \/ Dispatch(e)
          PROVE  UNCHANGED <<order, job, seen, died>>
      BY <2>3 DEF Unreachable, Dispatch
    <2>4. CASE DispatchDrain \/ Clock \/ MarkFails \/ Crash
      BY <1>1, <2>4 DEF DispatchDrain, Clock, MarkFails, Crash, shopVars, sessionVars,
                        Elsewhere, ShopStep
    <2>5. ASSUME NEW h \in hooks, HookDies(h)
          PROVE  UNCHANGED <<order, job, seen>> /\ died' \subseteq died \cup Event
      BY <2>5 DEF HookDies, TypeOK, Hook
    <2> QED BY <1>1, <2>1, <2>2, <2>3, <2>4, <2>5
            DEF Server, Dispatcher, shopVars, sessionVars, Elsewhere, ShopStep
  <1>2. CASE WooCommerce /\ UNCHANGED sessionVars
    <2>1. ASSUME NEW i \in Invoice, CheckoutAnswerLost(i)
          PROVE  UNCHANGED shopVars
      BY <2>1 DEF CheckoutAnswerLost
    <2> QED BY <1>2, <2>1 DEF WooCommerce, shopVars, sessionVars, Elsewhere, ShopStep
  <1>3. CASE Medusa
    <2>1. ASSUME NEW i \in Invoice, InitiateAnswerLost(i)
          PROVE  Elsewhere
      BY <2>1 DEF InitiateAnswerLost, shopVars, sessionVars, Elsewhere
    <2> QED BY <1>3, <2>1 DEF Medusa, ShopStep
  <1>4. CASE UNCHANGED allVars
    BY <1>4 DEF allVars, vars, shopVars, sessionVars, Elsewhere, ShopStep
  <1> QED BY <1>1, <1>2, <1>3, <1>4 DEF Next

\* The order keeps the invoice that checkout stored with it, and its completions.
LEMMA OrderSteps ==
    ASSUME TypeOK, [Next]_allVars
    PROVE  /\ order' \in Order
           /\ order.completions <= order'.completions
           /\ order'.invoice # order.invoice => order.status = "pending" /\ order'.invoice \in Invoice
           /\ order'.status = "pending" => order' = order
           /\ order'.status = "processing" /\ order.status # "processing" => order'.completions > 0
           /\ \/ order'.status \in {"processing", "cancelled"}
              \/ /\ order'.completions = order.completions
                 /\ order.status \in {"pending", order'.status}
           /\ order'.completions # order.completions =>
                \/ \E h \in hooks : Type(h.event) = "confirmed"
                \/ \E j \in Jobs : job[j].status = "confirmed"
  <1> DEFINE Goal == 
           /\ order' \in Order
           /\ order.completions <= order'.completions
           /\ order'.invoice # order.invoice => order.status = "pending" /\ order'.invoice \in Invoice
           /\ order'.status = "pending" => order' = order
           /\ order'.status = "processing" /\ order.status # "processing" => order'.completions > 0
           /\ \/ order'.status \in {"processing", "cancelled"}
              \/ /\ order'.completions = order.completions
                 /\ order.status \in {"pending", order'.status}
           /\ order'.completions # order.completions =>
                \/ \E h \in hooks : Type(h.event) = "confirmed"
                \/ \E j \in Jobs : job[j].status = "confirmed"
  <1>0. order \in Order
    BY DEF TypeOK
  <1>a. order.completions \in Nat
    BY <1>0 DEF Order
  <1>1. ASSUME NEW i \in Invoice, Checkout(i)
        PROVE  Goal
    <2>1. /\ order' \in Order /\ order'.completions = order.completions
          /\ order'.invoice = i /\ order'.status = "on-hold" /\ order.status = "pending"
      BY <1>0, <1>1 DEF Checkout, Order
    <2> QED BY <1>a, <2>1
  <1>b. ASSUME order' = PaymentComplete
        PROVE  /\ order' \in Order /\ order'.completions = order.completions + 1
               /\ order'.invoice = order.invoice /\ order'.status = "processing"
    <2>1. PICK n \in Nat : n = order.completions + 1
      BY <1>a
    <2>2. order' = [order EXCEPT !.status = "processing", !.completions = n]
      BY <1>b, <2>1 DEF PaymentComplete
    <2> QED BY <1>0, <2>1, <2>2 DEF Order
  <1>2. ASSUME NEW h \in hooks, HookStep(h)
        PROVE  Goal
    <2>1. UNCHANGED order \/ (order' = PaymentComplete /\ Type(h.event) = "confirmed")
      BY <1>2 DEF HookStep, HookCheck, HookMark, HookLoad, HookAct, Settles
    <2> QED BY <1>0, <1>a, <1>b, <2>1
  <1>3. ASSUME NEW j \in Jobs, JobStep(j) \/ JobAskFails(j)
        PROVE  Goal
    <2>1. \/ UNCHANGED order
          \/ order' = PaymentComplete /\ job[j].status = "confirmed"
          \/ order' = [order EXCEPT !.status = "cancelled"]
      BY <1>3 DEF JobStep, JobLoad, JobAsk, JobAskFails, JobSettle, JobReload, JobCancel,
                  PollSettles
    <2>2. CASE order' = [order EXCEPT !.status = "cancelled"]
      <3>1. /\ order' \in Order /\ order'.completions = order.completions
            /\ order'.invoice = order.invoice /\ order'.status = "cancelled"
        BY <1>0, <2>2 DEF Order
      <3> QED BY <1>a, <3>1
    <2> QED BY <1>0, <1>a, <1>b, <2>1, <2>2
  <1>4. CASE UNCHANGED order
    BY <1>0, <1>a, <1>4
  <1>5. \/ \E i \in Invoice : Checkout(i)
        \/ \E h \in hooks : HookStep(h)
        \/ \E j \in Jobs : JobStep(j) \/ JobAskFails(j)
        \/ UNCHANGED order
    BY ShopSteps DEF ShopStep, Initiate, SessionStep, SessionAction, SessionCapture,
                     PollAsk, PollApply, Elsewhere, vars, shopVars
  <1> QED BY <1>1, <1>2, <1>3, <1>4, <1>5

LEMMA JobTyped ==
    ASSUME NEW pc \in {"unscheduled", "scheduled", "ask", "settle", "reload", "cancel", "done"}
    PROVE  LET k == [Unscheduled EXCEPT !.pc = pc]
           IN  k \in Job /\ k.pc = pc /\ k.status = "absent"
  <1>1. ASSUME NEW d \in Job
        PROVE  /\ [d EXCEPT !.pc = pc] \in Job /\ [d EXCEPT !.pc = pc].pc = pc
               /\ [d EXCEPT !.pc = pc].status = d.status
    BY DEF Job
  <1>2. Unscheduled \in Job /\ Unscheduled.status = "absent"
    BY DEF Unscheduled, Job
  <1> QED BY <1>1, <1>2

\* A job runs for an order that has its invoice, and is answered truly.
LEMMA JobSteps ==
    ASSUME TypeOK, OrderShape, [Next]_allVars
    PROVE  /\ job' \in [Jobs -> Job]
           /\ \A j \in Jobs :
                /\ job'[j].pc # "unscheduled" => order'.invoice \in Invoice
                /\ job'[j].status = "confirmed" =>
                     job[j].status = "confirmed" \/ \E i \in Invoice : invoice[i] = "confirmed"
  <1> DEFINE Goal(k) ==
        /\ job'[k] \in Job
        /\ job'[k].pc # "unscheduled" => order'.invoice \in Invoice
        /\ job'[k].status = "confirmed" =>
             job[k].status = "confirmed" \/ \E i \in Invoice : invoice[i] = "confirmed"
  <1>0. /\ job \in [Jobs -> Job] /\ order \in Order
        /\ invoice \in [Invoice -> {"absent", "open", "paid", "confirmed", "expired"}]
    BY DEF TypeOK
  <1>a. ASSUME NEW k \in Jobs, UNCHANGED job
        PROVE  Goal(k)
    <2>1. job[k].pc # "unscheduled" => order'.invoice \in Invoice
      BY OrderSteps, StoreAssumption DEF OrderShape
    <2> QED BY <1>0, <1>a, <2>1
  <1>1. ASSUME NEW i \in Invoice, Checkout(i)
        PROVE  job' \in [Jobs -> Job] /\ \A k \in Jobs : Goal(k)
    <2>1. PICK d : d = [Unscheduled EXCEPT !.pc = "scheduled"] /\ d \in Job /\ d.status = "absent"
      BY JobTyped
    <2>2. job' = [k \in Jobs |-> d] /\ order'.invoice \in Invoice
      BY <1>0, <1>1, <2>1 DEF Checkout, Order
    <2> QED BY <2>1, <2>2
  <1>2. ASSUME NEW j \in Jobs, NEW pc \in {"ask", "reload", "cancel", "done"}, JobGoto(j, pc),
               job[j].pc # "unscheduled"
        PROVE  job' \in [Jobs -> Job] /\ \A k \in Jobs : Goal(k)
    <2>1. PICK d : d = [Unscheduled EXCEPT !.pc = pc] /\ d \in Job /\ d.status = "absent"
      BY JobTyped
    <2>2. job' = [job EXCEPT ![j] = d]
      BY <1>2, <2>1 DEF JobGoto
    <2>3. \A k \in Jobs : job[k].pc # "unscheduled" => order'.invoice \in Invoice
      BY OrderSteps, StoreAssumption DEF OrderShape
    <2> QED BY <1>0, <1>2, <2>1, <2>2, <2>3
  <1>3. ASSUME NEW j \in Jobs, JobAsk(j) \/ JobReload(j)
        PROVE  job' \in [Jobs -> Job] /\ \A k \in Jobs : Goal(k)
    <2>1. PICK d : /\ job' = [job EXCEPT ![j] = d] /\ d \in Job
                   /\ \/ d.status = job[j].status
                      \/ order.invoice \in Invoice /\ d.status = invoice[order.invoice]
      <3>1. CASE JobAsk(j)
        <4>1. order.invoice \in Invoice /\ job[j] \in Job
          BY <1>0, <3>1 DEF JobAsk, OrderShape
        <4>2. PICK s \in {"absent", "open", "paid", "confirmed", "expired"} :
                s = invoice[order.invoice]
          BY <1>0, <4>1
        <4>3. PICK d : d = [job[j] EXCEPT !.pc = "settle", !.status = s]
          OBVIOUS
        <4>4. d \in Job /\ d.status = s
          BY <4>1, <4>3 DEF Job
        <4>5. job' = [job EXCEPT ![j] = d]
          BY <1>0, <3>1, <4>2, <4>3 DEF JobAsk
        <4> QED BY <4>1, <4>2, <4>4, <4>5
      <3>2. CASE JobReload(j)
        <4>1. PICK p \in BOOLEAN : p = (order.status = "on-hold")
          OBVIOUS
        <4>2. PICK d : d = [job[j] EXCEPT !.pc = "cancel", !.payable = p]
          OBVIOUS
        <4>3. job[j] \in Job
          BY <1>0
        <4>4. d \in Job /\ d.status = job[j].status
          BY <4>2, <4>3 DEF Job
        <4>5. job' = [job EXCEPT ![j] = d]
          BY <1>0, <3>2, <4>1, <4>2 DEF JobReload
        <4> QED BY <4>4, <4>5
      <3> QED BY <1>3, <3>1, <3>2
    <2>2. job[j].pc # "unscheduled"
      BY <1>3 DEF JobAsk, JobReload
    <2>3. \A k \in Jobs : job[k].pc # "unscheduled" => order'.invoice \in Invoice
      BY OrderSteps, StoreAssumption DEF OrderShape
    <2> QED BY <1>0, <2>1, <2>2, <2>3
  <1>4. ASSUME NEW j \in Jobs, JobStep(j) \/ JobAskFails(j)
        PROVE  job' \in [Jobs -> Job] /\ \A k \in Jobs : Goal(k)
    <2>1. AfterPoll(j) \in {"ask", "reload", "cancel", "done"}
      BY DEF AfterPoll
    <2> QED BY <1>2, <1>3, <1>4, <2>1
            DEF JobStep, JobLoad, JobAskFails, JobSettle, JobCancel
  <1>5. \/ \E i \in Invoice : Checkout(i)
        \/ \E j \in Jobs : JobStep(j) \/ JobAskFails(j)
        \/ UNCHANGED job
    BY ShopSteps DEF ShopStep, Initiate, SessionStep, SessionAction, SessionCapture,
                     HookStep, HookCheck, HookMark, HookLoad, HookAct,
                     PollAsk, PollApply, Elsewhere, vars, shopVars
  <1> QED BY <1>0, <1>a, <1>1, <1>4, <1>5

\* A session stays captured; a poll tells what the server answered.
LEMMA SessionSteps ==
    ASSUME TypeOK, [Next]_allVars
    PROVE  /\ session' \in Session /\ poll' \in Poll
           /\ session.status = "captured" => session'.status = "captured"
           /\ session'.status = "captured" =>
                session.status = "captured" \/ hooks # {} \/ poll.status = "paid"
           /\ poll'.status = "paid" =>
                poll.status = "paid" \/ \E i \in Invoice : invoice[i] = "paid"
  <1>0. /\ session \in Session /\ poll \in Poll
        /\ invoice \in [Invoice -> {"absent", "open", "paid", "confirmed", "expired"}]
    BY DEF TypeOK
  <1>1. ASSUME NEW i \in Invoice, Initiate(i)
        PROVE  /\ session' \in Session /\ session'.status = session.status /\ UNCHANGED poll
    BY <1>0, <1>1 DEF Initiate, Session
  <1>2. ASSUME NEW h \in hooks, SessionStep(h)
        PROVE  /\ session' \in Session /\ UNCHANGED poll
               /\ session'.status \in {session.status, "captured"}
    BY <1>0, <1>2 DEF SessionStep, SessionAction, SessionCapture, sessionVars, Session
  <1>3. CASE PollAsk
    <2>1. session.invoice \in Invoice
      BY <1>0, <1>3 DEF PollAsk, Session
    <2>2. PICK s \in {"absent", "open", "paid", "confirmed", "expired"} :
            s = invoice[session.invoice]
      BY <1>0, <2>1
    <2>3. poll' = [pc |-> "answered", status |-> s] /\ UNCHANGED session
      BY <1>3, <2>2 DEF PollAsk
    <2>4. poll' \in Poll /\ poll'.status = s
      BY <2>3 DEF Poll
    <2> QED BY <1>0, <2>1, <2>2, <2>3, <2>4
  <1>4. CASE PollApply
    <2>1. poll' \in Poll /\ poll'.status = poll.status
      BY <1>0, <1>4 DEF PollApply, Poll
    <2>2. /\ SessionStatus(poll.status) \in {"pending", "captured", "canceled"}
          /\ SessionStatus(poll.status) = "captured" => poll.status = "paid"
      BY DEF SessionStatus
    <2>3. CASE session.status = "pending"
      <3>1. PICK s \in {"pending", "captured", "canceled"} : s = SessionStatus(poll.status)
        BY <2>2
      <3>2. session' = [session EXCEPT !.status = s]
        BY <1>4, <2>3, <3>1 DEF PollApply
      <3>3. session' \in Session /\ session'.status = s
        BY <1>0, <3>2 DEF Session
      <3> QED BY <2>1, <2>2, <2>3, <3>1, <3>3
    <2>4. CASE session.status # "pending"
      BY <1>0, <1>4, <2>1, <2>4 DEF PollApply
    <2> QED BY <2>3, <2>4
  <1>5. CASE UNCHANGED sessionVars
    BY <1>0, <1>5 DEF sessionVars
  <1>6. \/ \E i \in Invoice : Initiate(i)
        \/ \E h \in hooks : SessionStep(h)
        \/ PollAsk \/ PollApply \/ UNCHANGED sessionVars
    BY ShopSteps DEF ShopStep, Elsewhere, sessionVars
  <1>7. CASE \E i \in Invoice : Initiate(i)
    BY <1>0, <1>1, <1>7
  <1>8. CASE \E h \in hooks : SessionStep(h)
    BY <1>0, <1>2, <1>8
  <1> QED BY <1>3, <1>4, <1>5, <1>6, <1>7, <1>8

LEMMA TypeOKStep ==
    ASSUME TypeOK, PassShape, OrderShape, [Next]_allVars
    PROVE  TypeOK'
  <1>1. seen' \subseteq Event /\ died' \subseteq Event
    <2>1. seen \subseteq Event /\ died \subseteq Event /\ \A h \in hooks : h.event \in Event
      BY DEF TypeOK, Hook
    <2>2. ASSUME NEW h \in hooks, HookStep(h) \/ SessionStep(h)
          PROVE  seen' \subseteq seen \cup {h.event} /\ UNCHANGED died
      BY <2>2 DEF HookStep, HookCheck, HookMark, HookLoad, HookAct,
                  SessionStep, SessionAction, SessionCapture
    <2>3. ASSUME NEW j \in Jobs, JobStep(j) \/ JobAskFails(j)
          PROVE  UNCHANGED <<seen, died>>
      BY <2>3 DEF JobStep, JobAskFails, JobLoad, JobAsk, JobSettle, JobReload, JobCancel
    <2>4. ASSUME NEW i \in Invoice, Checkout(i) \/ Initiate(i)
          PROVE  UNCHANGED <<seen, died>>
      BY <2>4 DEF Checkout, Initiate, shopVars
    <2>5. CASE PollAsk \/ PollApply
      BY <2>1, <2>5 DEF PollAsk, PollApply, vars, shopVars
    <2> QED BY <2>1, <2>2, <2>3, <2>4, <2>5, ShopSteps DEF ShopStep, Elsewhere
  <1>2. hooks' \subseteq Hook
    BY RequestsCome
  <1> QED BY <1>1, <1>2, OutboxTyped, InvoiceSteps, OrderSteps, JobSteps, SessionSteps
          DEF TypeOK

LEMMA OrderShapeStep ==
    ASSUME TypeOK, TypeOK', PassShape, OrderShape, [Next]_allVars
    PROVE  OrderShape'
  <1>0. order.completions \in Nat /\ order'.completions \in Nat
    BY DEF TypeOK, Order
  <1>1. order'.status = "pending" => order'.invoice = NULL
    BY OrderSteps DEF OrderShape
  <1>2. order'.status = "processing" => order'.completions > 0
    BY <1>0, OrderSteps DEF OrderShape
  <1>3. \A h \in hooks' : h.paid => order'.completions > 0
    <2>1. IsPaid => order.completions > 0
      BY DEF IsPaid, OrderShape
    <2>2. \A h \in hooks' : h.paid => order.completions > 0
      BY <2>1, RequestsCome DEF Comes, OrderShape
    <2> QED BY <1>0, <2>2, OrderSteps
  <1>4. order'.completions > 0 => order'.status \in {"processing", "cancelled"}
    <2>1. order.status = "pending" => ~(order.completions > 0)
      BY DEF OrderShape
    <2> QED BY <2>1, OrderSteps DEF OrderShape
  <1> QED BY <1>1, <1>2, <1>3, <1>4, JobSteps DEF OrderShape

LEMMA AnswersTellTruthStep ==
    ASSUME TypeOK, OrderShape, AnswersTellTruth, [Next]_allVars
    PROVE  AnswersTellTruth'
  <1>0. \A i \in Invoice :
          /\ invoice[i] = "confirmed" => invoice'[i] = "confirmed"
          /\ invoice[i] = "paid" => invoice'[i] \in {"paid", "confirmed"}
    BY InvoiceSteps
  <1>1. ASSUME NEW j \in Jobs, job'[j].status = "confirmed"
        PROVE  \E i \in Invoice : invoice'[i] = "confirmed"
    <2>1. \E i \in Invoice : invoice[i] = "confirmed"
      BY <1>1, JobSteps DEF AnswersTellTruth
    <2> QED BY <1>0, <2>1
  <1>2. ASSUME poll'.status = "paid"
        PROVE  \E i \in Invoice : invoice'[i] \in {"paid", "confirmed"}
    <2>1. \E i \in Invoice : invoice[i] \in {"paid", "confirmed"}
      BY <1>2, SessionSteps DEF AnswersTellTruth
    <2> QED BY <1>0, <2>1
  <1> QED BY <1>1, <1>2 DEF AnswersTellTruth

LEMMA CompletedStep ==
    ASSUME TypeOK, EventOrder, EventsTellTruth, AnswersTellTruth, CompletedOnlyIfConfirmed,
           [Next]_allVars
    PROVE  CompletedOnlyIfConfirmed'
  <1>0. /\ \A i \in Invoice :
             /\ invoice[i] = "confirmed" => invoice'[i] = "confirmed"
             /\ invoice[i] = "paid" => invoice'[i] \in {"paid", "confirmed"}
        /\ order.completions \in Nat /\ \A h \in hooks : h.event \in Event
        /\ \A e \in Event : InvoiceOf(e) \in Invoice
    BY InvoiceSteps, StoreAssumption DEF TypeOK, Order, Hook, InvoiceOf
  <1>1. ASSUME NEW h \in hooks
        PROVE  invoice[InvoiceOf(h.event)] \in (IF Type(h.event) = "confirmed" THEN {"confirmed"}
                                                ELSE {"paid", "confirmed"})
    BY <1>0 DEF EventOrder, EventsTellTruth
  <1>2. ASSUME order'.completions > 0
        PROVE  \E i \in Invoice : invoice'[i] = "confirmed"
    <2>1. CASE order'.completions = order.completions
      BY <1>0, <1>2, <2>1 DEF CompletedOnlyIfConfirmed
    <2>2. CASE \E h \in hooks : Type(h.event) = "confirmed"
      BY <1>0, <1>1, <2>2
    <2>3. CASE \E j \in Jobs : job[j].status = "confirmed"
      BY <1>0, <2>3 DEF AnswersTellTruth
    <2> QED BY <2>1, <2>2, <2>3, OrderSteps
  <1>3. ASSUME session'.status = "captured"
        PROVE  \E i \in Invoice : invoice'[i] \in {"paid", "confirmed"}
    <2>1. CASE session.status = "captured"
      BY <1>0, <2>1 DEF CompletedOnlyIfConfirmed
    <2>2. CASE hooks # {}
      <3>1. \E i \in Invoice : invoice[i] \in {"paid", "confirmed"}
        BY <1>0, <1>1, <2>2
      <3> QED BY <1>0, <3>1
    <2>3. CASE poll.status = "paid"
      BY <1>0, <2>3 DEF AnswersTellTruth
    <2> QED BY <1>3, <2>1, <2>2, <2>3, SessionSteps
  <1> QED BY <1>2, <1>3 DEF CompletedOnlyIfConfirmed

-----------------------------------------------------------------------------
(* What an acknowledgement promises.                                       *)

\* The steps that answer 2xx.
Answers(h) ==
    \/ shop = "woocommerce" /\ \/ HookCheck(h) /\ h.event \in seen
                               \/ HookLoad(h) /\ ~Bound(InvoiceOf(h.event))
                               \/ HookAct(h)
    \/ shop = "medusa" /\ SessionCapture(h)

LEMMA NewlyAccepted ==
    ASSUME TypeOK, PassShape, [Next]_allVars, NEW e \in Event, Accepted(e)', ~Accepted(e)
    PROVE  \E h \in hooks : h.event = e /\ Answers(h)
  <1>0. /\ pass'.pc = "accepted" /\ e \in pass'.sent
        /\ ~(pass.pc = "accepted" /\ e \in pass.sent) /\ pass \in Pass
    BY DeliverySteps DEF Accepted, TypeOK
  <1>1. ASSUME NEW h \in hooks, Acknowledge(h)
        PROVE  h.event = e
    BY <1>0, <1>1 DEF Acknowledge, Current, Sending, Answered, PassShape, Pass
  <1>2. ASSUME NEW h \in hooks, HookStep(h), shop = "woocommerce"
        PROVE  h.event = e /\ Answers(h)
    <2>1. pass' # pass
      BY <1>0
    <2>2. Answers(h) /\ Acknowledge(h)
      BY <1>2, <2>1 DEF HookStep, HookCheck, HookMark, HookLoad, HookAct, Proceed, Answers
    <2> QED BY <1>1, <2>2
  <1>3. ASSUME NEW h \in hooks, SessionStep(h), shop = "medusa"
        PROVE  h.event = e /\ Answers(h)
    <2>1. pass' # pass
      BY <1>0
    <2>2. Answers(h) /\ Acknowledge(h)
      BY <1>3, <2>1 DEF SessionStep, SessionAction, SessionCapture, Proceed, Answers
    <2> QED BY <1>1, <2>2
  <1>4. ~Server
    <2>1. ~(\E i \in Invoice : PayInvoice(i) \/ ConfirmInvoice(i) \/ ExpireInvoice(i))
      BY <1>0 DEF PayInvoice, ConfirmInvoice, ExpireInvoice, Advance, webhookVars
    <2>2. ~(\E f \in Event : Announce(f) \/ Unreachable(f) \/ AnswerLost(f))
      BY <1>0 DEF Announce, Unreachable, AnswerLost, Answered, Pass
    <2>3. ~Dispatcher
      <3>1. ~DispatchDrain
        BY <1>0 DEF DispatchDrain, Drain
      <3>2. ASSUME NEW f \in Event
            PROVE  ~Dispatch(f)
        BY <1>0 DEF Dispatch, Post
      <3>3. ASSUME NEW f \in Event
            PROVE  ~DispatchMark(f)
        <4>1. ~NextDelivery
          <5>1. CASE pass.work = {}
            BY <1>0, <5>1 DEF NextDelivery, Sleeping
          <5>2. CASE pass.work # {}
            BY <1>0, <5>2 DEF NextDelivery, Pass
          <5> QED BY <5>1, <5>2
        <4> QED BY <4>1 DEF DispatchMark, MarkDelivered, MarkFailed
      <3> QED BY <3>1, <3>2, <3>3 DEF Dispatcher
    <2>4. ~(Clock \/ MarkFails \/ Crash)
      BY <1>0 DEF Clock, Elapse, MarkFails, Crash, PassEnds, Sleeping
    <2>5. ~ \E h \in hooks : HookDies(h)
      BY <1>0 DEF HookDies, Answered, Pass
    <2> QED BY <2>1, <2>2, <2>3, <2>4, <2>5 DEF Server
  <1>5. WooCommerce => \E h \in hooks : HookStep(h)
    <2>1. ~ \E i \in Invoice : Checkout(i) \/ CheckoutAnswerLost(i)
      BY <1>0 DEF Checkout, CheckoutAnswerLost, webhookVars
    <2>2. ~ \E j \in Jobs : JobStep(j) \/ JobAskFails(j)
      BY <1>0 DEF JobStep, JobAskFails, JobLoad, JobAsk, JobSettle, JobReload, JobCancel,
                  webhookVars
    <2> QED BY <2>1, <2>2 DEF WooCommerce
  <1>6. Medusa => \E h \in hooks : SessionStep(h)
    BY <1>0 DEF Medusa, Initiate, InitiateAnswerLost, PollAsk, PollApply, vars, webhookVars
  <1>7. ~UNCHANGED allVars
    BY <1>0 DEF allVars, vars, webhookVars
  <1> QED BY <1>2, <1>3, <1>4, <1>5, <1>6, <1>7 DEF Next

\* A request past the transient goes only by a step of its own.
LEMMA RequestStays ==
    ASSUME TypeOK, [Next]_allVars, shop = "woocommerce",
           NEW h \in hooks, h.pc \in {"load", "act"}
    PROVE  h \in hooks' \/ HookDies(h) \/ HookLoad(h) \/ HookAct(h)
  <1>1. CASE Server
    <2>1. ASSUME NEW i \in Invoice, PayInvoice(i) \/ ConfirmInvoice(i) \/ ExpireInvoice(i)
          PROVE  UNCHANGED hooks
      BY <2>1 DEF PayInvoice, ConfirmInvoice, ExpireInvoice, Advance, shopVars
    <2>2. ASSUME NEW e \in Event, Announce(e) \/ AnswerLost(e) \/ DispatchMark(e)
          PROVE  UNCHANGED hooks
      BY <2>2 DEF Announce, AnswerLost, DispatchMark, shopVars
    <2>3. ASSUME NEW e \in Event, Unreachable(e) \/ Dispatch(e)
          PROVE  h \in hooks'
      BY <2>3 DEF Unreachable, Dispatch
    <2>4. CASE DispatchDrain \/ Clock \/ MarkFails \/ Crash
      BY <2>4 DEF DispatchDrain, Clock, MarkFails, Crash, shopVars
    <2>5. ASSUME NEW g \in hooks, HookDies(g)
          PROVE  h \in hooks' \/ HookDies(h)
      BY <2>5 DEF HookDies
    <2> QED BY <1>1, <2>1, <2>2, <2>3, <2>4, <2>5 DEF Server, Dispatcher
  <1>2. CASE WooCommerce
    <2>1. ASSUME NEW i \in Invoice, Checkout(i) \/ CheckoutAnswerLost(i)
          PROVE  UNCHANGED hooks
      BY <2>1 DEF Checkout, CheckoutAnswerLost, shopVars
    <2>2. ASSUME NEW j \in Jobs, JobStep(j) \/ JobAskFails(j)
          PROVE  UNCHANGED hooks
      BY <2>2 DEF JobStep, JobLoad, JobAsk, JobAskFails, JobSettle, JobReload, JobCancel
    <2>3. ASSUME NEW g \in hooks, HookStep(g)
          PROVE  h \in hooks' \/ HookLoad(h) \/ HookAct(h)
      <3>1. hooks \ {g} \subseteq hooks'
        BY <2>3 DEF HookStep, HookCheck, HookMark, HookLoad, HookAct, Acknowledge, Proceed
      <3>2. CASE g = h
        BY <2>3, <3>2 DEF HookStep, HookCheck, HookMark
      <3> QED BY <3>1, <3>2
    <2> QED BY <1>2, <2>1, <2>2, <2>3 DEF WooCommerce
  <1>3. CASE UNCHANGED allVars
    BY <1>3 DEF allVars, vars, shopVars
  <1> QED BY <1>1, <1>2, <1>3 DEF Next

\* What has been dealt with stays so.
LEMMA DealtStays ==
    ASSUME TypeOK, EventOrder, OrderShape, [Next]_allVars, shop = "woocommerce",
           NEW e \in Event, Type(e) = "confirmed", DealtWith(e)
    PROVE  DealtWith(e)'
  <1>0. /\ order.completions \in Nat /\ order'.completions \in Nat /\ hooks \subseteq Hook
        /\ order.completions > 0 => order'.completions > 0
    <2>1. order.completions \in Nat /\ order'.completions \in Nat /\ hooks \subseteq Hook
      BY OrderSteps DEF TypeOK, Order
    <2> QED BY <2>1, OrderSteps
  <1>1. CASE order.completions > 0
    BY <1>0, <1>1 DEF DealtWith
  <1>2. CASE e \in died
    <2>1. died \subseteq died'
      <3>1. CASE Server
        BY <3>1 DEF Server, Dispatcher, PayInvoice, ConfirmInvoice, ExpireInvoice, Advance,
                    Announce, AnswerLost, Unreachable, Dispatch, DispatchMark, DispatchDrain,
                    Clock, MarkFails, Crash, HookDies, shopVars
      <3>2. CASE WooCommerce
        BY <3>2 DEF WooCommerce, Checkout, CheckoutAnswerLost, HookStep, HookCheck, HookMark,
                    HookLoad, HookAct, JobStep, JobAskFails, JobLoad, JobAsk, JobSettle,
                    JobReload, JobCancel, shopVars
      <3>3. CASE UNCHANGED allVars
        BY <3>3 DEF allVars, vars, shopVars
      <3> QED BY <3>1, <3>2, <3>3 DEF Next
    <2> QED BY <1>2, <2>1 DEF DealtWith
  <1>3. CASE ~Bound(InvoiceOf(e))
    <2>1. order.status # "pending"
      BY <1>3 DEF Bound, OrderShape
    <2>2. order'.invoice = order.invoice
      BY <2>1, OrderSteps
    <2> QED BY <1>3, <2>2 DEF DealtWith, Bound
  <1>4. ASSUME NEW h \in hooks, h.event = e, h.pc \in {"load", "act"}
        PROVE  DealtWith(e)'
    <2>1. CASE h \in hooks'
      BY <1>4, <2>1 DEF DealtWith
    <2>2. CASE HookDies(h)
      BY <1>4, <2>2 DEF HookDies, DealtWith
    <2>3. CASE HookLoad(h)
      <3>1. CASE Bound(InvoiceOf(e))
        <4>1. PICK k : /\ k = [h EXCEPT !.pc = "act", !.paid = IsPaid]
                       /\ hooks' = (hooks \ {h}) \cup {k}
          BY <1>4, <2>3, <3>1 DEF HookLoad
        <4>2. PICK p \in BOOLEAN : k = [h EXCEPT !.pc = "act", !.paid = p]
          BY <4>1 DEF IsPaid
        <4>3. h \in Hook /\ p \in BOOLEAN
          BY <1>0
        <4>4. k.event = h.event /\ k.pc = "act"
          BY <4>2, <4>3 DEF Hook
        <4> QED BY <1>4, <4>1, <4>4 DEF DealtWith
      <3>2. CASE ~Bound(InvoiceOf(e))
        BY <1>3, <3>2
      <3> QED BY <3>1, <3>2
    <2>4. CASE HookAct(h)
      <3>1. CASE h.paid
        BY <1>1, <3>1 DEF OrderShape
      <3>2. CASE ~h.paid
        <4>1. order' = PaymentComplete
          BY <1>4, <2>4, <3>2 DEF HookAct, Settles
        <4>2. order \in Order
          BY DEF TypeOK
        <4>3. order'.completions = order.completions + 1
          BY <4>1, <4>2 DEF PaymentComplete, Order
        <4> QED BY <1>0, <4>3 DEF DealtWith
      <3> QED BY <3>1, <3>2
    <2> QED BY <1>4, <2>1, <2>2, <2>3, <2>4, RequestStays
  <1> QED BY <1>1, <1>2, <1>3, <1>4 DEF DealtWith

LEMMA AcknowledgedStep ==
    ASSUME TypeOK, PassShape, EventOrder, OrderShape, Acknowledged, [Next]_allVars
    PROVE  Acknowledged'
  <1>0. UNCHANGED shop
    BY DEF Next, allVars
  <1>1. ASSUME shop = "woocommerce", NEW e \in Event, Type(e) = "confirmed",
               Accepted(e)' \/ e \in seen'
        PROVE  DealtWith(e)'
    <2>1. CASE Accepted(e) \/ e \in seen
      BY <1>1, <2>1, DealtStays DEF Acknowledged
    <2>2. CASE ~Accepted(e) /\ Accepted(e)'
      <3>1. PICK h \in hooks : h.event = e /\ Answers(h)
        BY <2>2, NewlyAccepted
      <3>2. CASE HookCheck(h) /\ h.event \in seen
        BY <1>1, <2>1, <3>1, <3>2
      <3>3. CASE HookLoad(h) /\ ~Bound(InvoiceOf(h.event))
        BY <1>1, <3>1, <3>3, DealtStays DEF DealtWith
      <3>4. CASE HookAct(h)
        BY <1>1, <3>1, <3>4, DealtStays DEF DealtWith, HookAct
      <3> QED BY <1>1, <3>1, <3>2, <3>3, <3>4 DEF Answers
    <2>3. CASE e \in seen' \ seen
      <3>1. \E h \in hooks : HookMark(h) /\ h.event = e
        <4>1. ASSUME NEW h \in hooks, HookStep(h)
              PROVE  HookMark(h) /\ h.event = e
          BY <2>3, <4>1 DEF HookStep, HookCheck, HookMark, HookLoad, HookAct
        <4>2. ~ \E j \in Jobs : JobStep(j) \/ JobAskFails(j)
          BY <2>3 DEF JobStep, JobAskFails, JobLoad, JobAsk, JobSettle, JobReload, JobCancel
        <4>3. ~ \E i \in Invoice : Checkout(i) \/ Initiate(i)
          BY <2>3 DEF Checkout, Initiate, shopVars
        <4>4. ~ \E h \in hooks : SessionStep(h)
          BY <2>3 DEF SessionStep, SessionAction, SessionCapture
        <4>5. ~(PollAsk \/ PollApply \/ Elsewhere)
          BY <2>3 DEF PollAsk, PollApply, Elsewhere, vars, shopVars
        <4> QED BY <4>1, <4>2, <4>3, <4>4, <4>5, ShopSteps DEF ShopStep
      <3>2. PICK h \in hooks : HookMark(h) /\ h.event = e
        BY <3>1
      <3>3. PICK k : /\ k = [h EXCEPT !.pc = "load"]
                     /\ hooks' = (hooks \ {h}) \cup {k}
        BY <3>2 DEF HookMark, Proceed
      <3>4. h \in Hook
        BY DEF TypeOK
      <3>5. k.event = e /\ k.pc = "load"
        BY <3>2, <3>3, <3>4, HookTyped
      <3> QED BY <3>3, <3>5 DEF DealtWith
    <2> QED BY <1>1, <2>1, <2>2, <2>3
  <1> QED BY <1>0, <1>1 DEF Acknowledged

-----------------------------------------------------------------------------
(* The theorems.                                                           *)

LEMMA OutboxInit ==
    ASSUME ShopsInit
    PROVE  Outbox /\ PostsCounted /\ AnswersTellTruth /\ Acknowledged /\ CompletedOnlyIfConfirmed
  <1> USE DEF ShopsInit, Init, InitWebhook
  <1>1. NotQueued \in Delivery /\ ~NotQueued.queued /\ ~NotQueued.delivered /\ NotQueued.attempts = 0
    BY WebhookAssumption DEF NotQueued, Delivery
  <1>2. /\ Unscheduled \in Job /\ Unscheduled.pc = "unscheduled"
        /\ Unscheduled.status = "absent"
    BY DEF Unscheduled, Job
  <1>3. /\ pass \in Pass /\ pass.work = {} /\ pass.sent = {} /\ pass.pc = "idle"
        /\ order \in Order /\ order.completions = 0 /\ order.invoice = NULL
        /\ order.status = "pending"
        /\ session \in Session /\ session.status = "pending"
        /\ poll \in Poll /\ poll.status = "absent"
    BY DEF Sleeping, Pass, Order, Session, Poll
  <1>4. TypeOK
    BY <1>1, <1>2, <1>3, StoreAssumption DEF TypeOK
  <1>5. PassShape /\ EventOrder /\ EventsTellTruth /\ OrderShape
    BY <1>1, <1>2, <1>3 DEF PassShape, EventOrder, EventsTellTruth, OrderShape
  <1>6. PostsCounted
    BY <1>1, <1>3 DEF PostsCounted
  <1>7. AnswersTellTruth /\ Acknowledged /\ CompletedOnlyIfConfirmed
    BY <1>1, <1>2, <1>3 DEF AnswersTellTruth, Acknowledged, Accepted, CompletedOnlyIfConfirmed
  <1> QED BY <1>4, <1>5, <1>6, <1>7 DEF Outbox

LEMMA OutboxStep ==
    ASSUME Outbox, [Next]_allVars
    PROVE  Outbox'
  <1>1. TypeOK'
    BY TypeOKStep DEF Outbox
  <1> QED BY <1>1, PassStep, EventOrderStep, EventsTellTruthStep, OrderShapeStep DEF Outbox

\* The outbox, the dispatcher's pass and the shops keep their shape, a delivery
\* is worked on while it is due and once at a time, and no event is inserted
\* before the status it tells of (webhook.rs, webhookd.rs).
THEOREM OutboxSafe == Spec => []Outbox
  <1>1. ShopsInit => Outbox
    BY OutboxInit
  <1>2. Outbox /\ [Next]_allVars => Outbox'
    BY OutboxStep
  <1> QED BY <1>1, <1>2, PTL DEF Spec

\* The state is well formed, and `attempts` stays below MAX_ATTEMPTS + 1.
THEOREM StoreTyped == Spec => []TypeOK
  <1>1. Outbox => TypeOK
    BY DEF Outbox
  <1> QED BY <1>1, OutboxSafe, PTL

\* One event is POSTed MAX_ATTEMPTS times at most, plus once for each crash or
\* failed UPDATE that lost a count (drain, mark_failed).
THEOREM PostsAreBounded == Spec => []PostsBounded
  <1>1. ShopsInit => PostsCounted
    BY OutboxInit
  <1>2. Outbox /\ Outbox' /\ PostsCounted /\ [Next]_allVars => PostsCounted'
    BY PostsCountedStep DEF Outbox
  <1>3. Outbox /\ PostsCounted => PostsBounded
    <2> SUFFICES ASSUME Outbox, PostsCounted, NEW e \in Event
                 PROVE  posts[e] <= MaxAttempts + faults
      BY DEF PostsBounded
    <2>1. /\ posts[e] \in Nat /\ faults \in Nat /\ outbox[e].attempts \in 0..MaxAttempts
          /\ MaxAttempts \in Nat
      BY WebhookAssumption, StoreAssumption DEF Outbox, TypeOK, Delivery
    <2>2. e \in pass.sent => outbox[e].attempts + 1 <= MaxAttempts
      BY <2>1 DEF Outbox, PassShape
    <2>3. posts[e] <= outbox[e].attempts + faults + (IF e \in pass.sent THEN 1 ELSE 0)
      BY DEF PostsCounted
    <2> QED BY <2>1, <2>2, <2>3
  <1> QED BY <1>1, <1>2, <1>3, OutboxSafe, PTL DEF Spec

\* A WooCommerce order is completed only for a kernel confirmed on chain, and a
\* Medusa session captured only for a payment received, by whichever of the
\* webhook, the poll and the expiry job (goblinpay_wc_handle_webhook,
\* goblinpay_wc_poll_order, the provider's getPaymentStatus).
THEOREM CompletedIsConfirmed == Spec => []CompletedOnlyIfConfirmed
  <1>1. ShopsInit => AnswersTellTruth /\ CompletedOnlyIfConfirmed
    BY OutboxInit
  <1>2. /\ Outbox /\ AnswersTellTruth /\ CompletedOnlyIfConfirmed /\ [Next]_allVars
        => AnswersTellTruth' /\ CompletedOnlyIfConfirmed'
    BY AnswersTellTruthStep, CompletedStep DEF Outbox
  <1> QED BY <1>1, <1>2, OutboxSafe, PTL DEF Spec

\* Once the outbox has ticked off the confirmation of the order's own invoice, the
\* order is paid, or a request is still at it or died over it, or the expiry job
\* has cancelled over the completion (goblinpay_wc_handle_webhook,
\* goblinpay_wc_maybe_expire_order).
THEOREM AcknowledgedIsApplied == Spec => []AckedIsApplied
  <1>1. ShopsInit => Acknowledged
    BY OutboxInit
  <1>2. Outbox /\ Acknowledged /\ [Next]_allVars => Acknowledged'
    BY AcknowledgedStep DEF Outbox
  <1>3. Outbox /\ Acknowledged => AckedIsApplied
    <2>1. Outbox => (order.completions > 0 => IsPaid \/ CancelledOver)
      BY DEF Outbox, OrderShape, IsPaid, CancelledOver
    <2> QED BY <2>1 DEF Acknowledged, Accepted, DealtWith, Bound, AckedIsApplied
  <1> QED BY <1>1, <1>2, <1>3, OutboxSafe, PTL DEF Spec

=============================================================================
