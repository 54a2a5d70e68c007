---------------------------- MODULE Grin1Proofs ----------------------------
(***************************************************************************)
(* Theorems about Grin1Rail, for every value of its constants.             *)
(***************************************************************************)
EXTENDS Grin1Properties, InvoiceTableProofs

Arming == {"issue", "attach"}
Using == {"post", "lookup", "insert", "pay", "notify"}   \* the context is used
Settling == {"insert", "pay", "notify"}                  \* the invoice is found

\* What a request holds at each statement.
LocalShape(r) ==
    /\ r.pc # "idle" => r.invoice \in Invoice
    /\ r.pc \notin {"idle", "issue"} => r.slate \in Issuable

RequestShape == \A w \in Worker : LocalShape(request[w])

\* The sweep works on invoices that have a slate.
SweepShape ==
    /\ \A i \in sweep.work : slateOf[i] \in Issuable
    /\ sweep.pc = "expire" => sweep.target \in Invoice

Shape == TypeOK /\ RequestShape /\ SweepShape

-----------------------------------------------------------------------------

LEMMA IdleTyped == Idle \in Request /\ LocalShape(Idle) /\ Idle.pc = "idle"
  BY DEF Idle, Request, LocalShape

LEMMA AsleepTyped == Asleep \in Sweep /\ Asleep.work = {} /\ Asleep.pc = "asleep"
  BY DEF Asleep, Sweep

LEMMA InitShape == Init => Shape
  <1> SUFFICES ASSUME Init PROVE Shape
    OBVIOUS
  <1>1. TypeOK
    BY IdleTyped, AsleepTyped, Grin1Assumption, TableAssumption
    DEF Init, TypeOK, Row, AbsentRow, Context
  <1>2. RequestShape
    BY IdleTyped DEF Init, RequestShape
  <1>3. SweepShape
    BY AsleepTyped DEF Init, SweepShape
  <1> QED BY <1>1, <1>2, <1>3 DEF Shape

\* One request moves to a well-formed state: the others are as they were.
LEMMA RequestMove ==
    ASSUME Shape, NEW w \in Worker, NEW r \in Request, LocalShape(r),
           request' = [request EXCEPT ![w] = r]
    PROVE  request' \in [Worker -> Request] /\ RequestShape'
  BY DEF Shape, TypeOK, RequestShape, LocalShape

LEMMA RequestFinish ==
    ASSUME Shape, NEW w \in Worker, Finish(w)
    PROVE  request' \in [Worker -> Request] /\ RequestShape'
  BY RequestMove, IdleTyped DEF Finish

\* A request that holds a slate goes on with it.
LEMMA RequestGoto ==
    ASSUME Shape, NEW w \in Worker, request[w].pc \notin {"idle", "issue"},
           NEW pc \in Using, Goto(w, pc)
    PROVE  request' \in [Worker -> Request] /\ RequestShape'
  <1> DEFINE r == [request[w] EXCEPT !.pc = pc]
  <1>1. request[w] \in Request /\ LocalShape(request[w])
    BY DEF Shape, TypeOK, RequestShape
  <1>2. r \in Request /\ LocalShape(r)
    BY <1>1 DEF Request, LocalShape, Using
  <1>3. request' = [request EXCEPT ![w] = r]
    BY DEF Goto
  <1> QED BY <1>2, <1>3, RequestMove

\* The sweep goes on to its next row, or to sleep.
LEMMA NextDueShape ==
    ASSUME NEW W \in SUBSET Invoice, sweep' = NextDue(W),
           \A i \in W : slateOf'[i] \in Issuable
    PROVE  sweep' \in Sweep /\ SweepShape'
  BY AsleepTyped DEF NextDue, Sweep, SweepShape

\* slateOf is only ever set, and the sweep's other fields stand.
LEMMA SweepStands ==
    ASSUME Shape, UNCHANGED <<slateOf, sweep>>
    PROVE  SweepShape' /\ sweep' \in Sweep
  BY DEF Shape, TypeOK, SweepShape

LEMMA RequestKeepsShape ==
    ASSUME Shape, NEW w \in Worker,
           \/ \E i \in Invoice, p \in Offers : Create(w, i, p)
           \/ \E i \in Invoice : OnionI2(w, i) \/ PasteI2(w, i)
           \/ RequestStep(w) \/ ArmFails(w) \/ PostFails(w) \/ StatementFails(w)
    PROVE  Shape'
  <1> USE DEF tables, history
  <1>0. request[w] \in Request /\ LocalShape(request[w])
    BY DEF Shape, TypeOK, RequestShape
  <1>t. now \in Nat /\ invoice \in [Invoice -> Row]
    BY Grin1Assumption DEF Shape, TypeOK
  <1>1. ASSUME NEW i \in Invoice, NEW p \in Offers, Create(w, i, p)
        PROVE  Shape'
    <2> DEFINE tab == [invoice EXCEPT ![i] = Created(p, DefaultMode, now)]
               r == [Idle EXCEPT !.pc = "issue", !.invoice = i]
    <2>1. tab \in [Invoice -> Row]
      BY <1>t, CreatedTyped, Grin1Assumption
    <2>2. invoice' \in [Invoice -> Row]
      BY <1>1, <1>t, <2>1, RowUpdatesTyped DEF Create
    <2>3. r \in Request /\ LocalShape(r)
      BY DEF Idle, Request, LocalShape
    <2>4. request' \in [Worker -> Request] /\ RequestShape'
      <3>1. CASE request' = request
        BY <3>1 DEF Shape, TypeOK, RequestShape
      <3> QED BY <1>1, <2>3, <3>1, RequestMove DEF Create
    <2> QED BY <1>1, <2>2, <2>4, SweepStands DEF Create, Shape, TypeOK
  <1>2. ASSUME NEW s \in Issuable, Issue(w, s)
        PROVE  Shape'
    <2> DEFINE r == [request[w] EXCEPT !.pc = "attach", !.slate = s]
    <2>1. r \in Request /\ LocalShape(r)
      BY <1>0, <1>2 DEF Request, LocalShape, Issue, At
    <2>2. request' = [request EXCEPT ![w] = r]
      BY <1>2 DEF Issue
    <2>3. request' \in [Worker -> Request] /\ RequestShape'
      BY <2>1, <2>2, RequestMove
    <2> QED BY <1>2, <2>3, SweepStands DEF Issue, Shape, TypeOK, Context
  <1>3. CASE Attach(w)
    <2>1. request[w].invoice \in Invoice /\ request[w].slate \in Issuable
      BY <1>0, <1>3 DEF Attach, At, LocalShape
    <2>2. slateOf' \in [Invoice -> Issuable \cup {NULL}]
          /\ \A i \in Invoice : slateOf[i] \in Issuable => slateOf'[i] \in Issuable
      BY <1>3, <2>1 DEF Attach, Shape, TypeOK
    <2>3. SweepShape'
      BY <1>3, <2>2 DEF Attach, Shape, TypeOK, Sweep, SweepShape
    <2>4. invoice' \in [Invoice -> Row]
      BY <1>3, <1>t, <2>1, RowUpdatesTyped DEF Attach
    <2> QED BY <1>3, <2>2, <2>3, <2>4, RequestFinish DEF Attach, Shape, TypeOK
  <1>4. ASSUME NEW i \in Invoice, NEW onion \in BOOLEAN, Returned(i), Begin(w, i, onion)
        PROVE  request' \in [Worker -> Request] /\ RequestShape'
    <2> DEFINE r == [pc |-> "finalize", invoice |-> i, slate |-> slateOf[i], onion |-> onion]
    <2>1. r \in Request /\ LocalShape(r)
      BY <1>4 DEF Returned, Request, LocalShape, Shape, TypeOK
    <2> QED BY <1>4, <2>1, RequestMove DEF Begin
  <1>5. ASSUME NEW i \in Invoice, OnionI2(w, i)
        PROVE  Shape'
    BY <1>4, <1>5, SweepStands DEF OnionI2, Shape, TypeOK
  <1>6. ASSUME NEW i \in Invoice, PasteI2(w, i)
        PROVE  Shape'
    <2>1. invoice' \in [Invoice -> Row]
      BY <1>6, <1>t, RowUpdatesTyped DEF PasteI2
    <2>2. request' \in [Worker -> Request] /\ RequestShape'
      <3>1. CASE UNCHANGED request
        BY <3>1 DEF Shape, TypeOK, RequestShape
      <3> QED BY <1>4, <1>6, <3>1 DEF PasteI2
    <2> QED BY <1>6, <2>1, <2>2, SweepStands DEF PasteI2, Shape, TypeOK
  <1>7. CASE Finalize(w)
    <2>1. context' \in [Issuable -> Context]
      BY <1>7 DEF Finalize, ContextUsed, Shape, TypeOK, Context
    <2>2. request' \in [Worker -> Request] /\ RequestShape'
      BY <1>7, RequestGoto, RequestFinish DEF Finalize, At, Using
    <2> QED BY <1>7, <2>1, <2>2, SweepStands DEF Finalize, Shape, TypeOK
  <1>8. CASE Post(w) \/ PostFails(w)
    <2>1. request' \in [Worker -> Request] /\ RequestShape'
      BY <1>8, RequestGoto, RequestFinish DEF Post, PostFails, AfterPostError, At, Using
    <2>2. posted' \in [Issuable -> Nat]
      BY <1>8 DEF Post, PostFails, Shape, TypeOK
    <2>3. faults' \in 0..MaxFaults
      BY <1>8, Grin1Assumption DEF Post, PostFails, Fault, Shape, TypeOK
    <2> QED BY <1>8, <2>1, <2>2, <2>3, SweepStands DEF Post, PostFails, Shape, TypeOK
  <1>9. CASE Lookup(w)
    <2>1. CASE Finish(w)
      BY <1>9, <2>1, RequestFinish, SweepStands DEF Lookup, Shape, TypeOK
    <2>2. ASSUME NEW i \in Invoice,
                 request' = [request EXCEPT ![w].pc = "insert", ![w].invoice = i]
          PROVE  Shape'
      <3> DEFINE r == [request[w] EXCEPT !.pc = "insert", !.invoice = i]
      <3>1. r \in Request /\ LocalShape(r)
        BY <1>0, <1>9 DEF Request, LocalShape, Lookup, At
      <3>2. request' = [request EXCEPT ![w] = r]
        BY <2>2
      <3>3. request' \in [Worker -> Request] /\ RequestShape'
        BY <3>1, <3>2, RequestMove
      <3> QED BY <1>9, <3>3, SweepStands DEF Lookup, Shape, TypeOK
    <2> QED BY <1>9, <2>1, <2>2 DEF Lookup
  <1>10. CASE Insert(w)
    <2>1. request[w].invoice \in Invoice
      BY <1>0, <1>10 DEF Insert, At, LocalShape
    <2>2. ledger' \in [Slate -> Invoice \cup {"absent"}]
      BY <1>10, <2>1 DEF Insert, Shape, TypeOK
    <2>3. request' \in [Worker -> Request] /\ RequestShape'
      BY <1>10, RequestGoto DEF Insert, At, Using
    <2> QED BY <1>10, <2>2, <2>3, SweepStands DEF Insert, Shape, TypeOK
  <1>11. CASE Pay(w)
    <2>1. request[w].invoice \in Invoice /\ request[w].slate \in Slate
      BY <1>0, <1>11, Grin1Assumption DEF Pay, At, LocalShape
    <2>2. invoice' \in [Invoice -> Row]
      BY <1>11, <1>t, <2>1, RowUpdatesTyped DEF Pay
    <2>3. request' \in [Worker -> Request] /\ RequestShape'
      BY <1>11, RequestGoto, RequestFinish DEF Pay, AfterMarkPaid, At, Using
    <2> QED BY <1>11, <2>2, <2>3, SweepStands DEF Pay, Shape, TypeOK
  <1>12. CASE Notify(w)
    <2>1. request[w].slate \in Issuable
      BY <1>0, <1>12 DEF Notify, At, LocalShape
    <2>2. told' \in [Issuable -> Nat]
      BY <1>12, <2>1 DEF Notify, Shape, TypeOK
    <2> QED BY <1>12, <2>2, RequestFinish, SweepStands DEF Notify, Shape, TypeOK
  <1>13. CASE ArmFails(w) \/ StatementFails(w)
    <2>1. request' \in [Worker -> Request] /\ RequestShape'
      BY <1>13, RequestGoto, RequestFinish DEF ArmFails, StatementFails, At, Using
    <2>2. faults' \in 0..MaxFaults
      BY <1>13, Grin1Assumption DEF ArmFails, StatementFails, Fault, Shape, TypeOK
    <2> QED BY <1>13, <2>1, <2>2, SweepStands DEF ArmFails, StatementFails, Shape, TypeOK
  <1> QED BY <1>1, <1>2, <1>3, <1>5, <1>6, <1>7, <1>8, <1>9, <1>10, <1>11, <1>12, <1>13
          DEF RequestStep

LEMMA SweepKeepsShape ==
    ASSUME Shape,
           \/ SweepRead \/ SweepExpire \/ SweepExpireFails
           \/ \E i \in Invoice : SweepCancel(i) \/ SweepCancelFails(i)
    PROVE  Shape'
  <1> USE DEF tables, history
  <1>0. sweep.work \subseteq Invoice /\ \A i \in sweep.work : slateOf[i] \in Issuable
    BY DEF Shape, TypeOK, Sweep, SweepShape
  <1>r. UNCHANGED request => RequestShape'
    BY DEF Shape, RequestShape
  <1>1. CASE SweepRead
    <2> DEFINE D == {i \in Invoice : /\ slateOf[i] # NULL
                                     /\ invoice[i].status = "open"
                                     /\ PastExpiry(invoice, i, now)}
    <2>1. D \in SUBSET Invoice /\ \A i \in D : slateOf'[i] \in Issuable
      BY <1>1 DEF SweepRead, Shape, TypeOK
    <2>2. sweep' = NextDue(D)
      BY <1>1 DEF SweepRead
    <2>3. sweep' \in Sweep /\ SweepShape'
      BY <2>1, <2>2, NextDueShape
    <2> QED BY <1>1, <1>r, <2>3 DEF SweepRead, Shape, TypeOK
  <1>2. ASSUME NEW i \in Invoice, SweepCancel(i)
        PROVE  Shape'
    <2>1. context' \in [Issuable -> Context]
      BY <1>2 DEF SweepCancel, Shape, TypeOK, Context
    <2>2. sweep' \in Sweep /\ SweepShape'
      <3>1. CASE sweep' = [pc |-> "expire", work |-> sweep.work \ {i}, target |-> i]
        BY <1>0, <1>2, <3>1 DEF SweepCancel, Sweep, SweepShape
      <3>2. CASE sweep' = NextDue(sweep.work \ {i})
        BY <1>0, <1>2, <3>2, NextDueShape DEF SweepCancel
      <3> QED BY <1>2, <3>1, <3>2 DEF SweepCancel
    <2> QED BY <1>2, <1>r, <2>1, <2>2 DEF SweepCancel, Shape, TypeOK
  <1>3. ASSUME NEW i \in Invoice, SweepCancelFails(i)
        PROVE  Shape'
    <2>1. sweep' \in Sweep /\ SweepShape'
      BY <1>0, <1>3, NextDueShape DEF SweepCancelFails, CancelRefused
    <2>2. faults' \in 0..MaxFaults
      BY <1>3, Grin1Assumption DEF SweepCancelFails, Fault, Shape, TypeOK
    <2> QED BY <1>3, <1>r, <2>1, <2>2 DEF SweepCancelFails, Shape, TypeOK
  <1>4. CASE SweepExpire
    <2>1. sweep' \in Sweep /\ SweepShape'
      BY <1>0, <1>4, NextDueShape DEF SweepExpire
    <2>2. invoice' \in [Invoice -> Row]
      <3> DEFINE r == [invoice[sweep.target] EXCEPT !.status = "expired"]
      <3>1. sweep.target \in Invoice /\ invoice \in [Invoice -> Row]
        BY <1>4 DEF SweepExpire, Shape, TypeOK, SweepShape
      <3>2. r \in Row
        BY <3>1 DEF Row, Status
      <3>3. invoice' = invoice \/ invoice' = [invoice EXCEPT ![sweep.target] = r]
        BY <1>4 DEF SweepExpire, MarkExpired
      <3> QED BY <3>1, <3>2, <3>3
    <2> QED BY <1>4, <1>r, <2>1, <2>2 DEF SweepExpire, Shape, TypeOK
  <1>5. CASE SweepExpireFails
    <2>1. sweep' \in Sweep /\ SweepShape'
      BY <1>0, <1>5, NextDueShape DEF SweepExpireFails
    <2>2. faults' \in 0..MaxFaults
      BY <1>5, Grin1Assumption DEF SweepExpireFails, Fault, Shape, TypeOK
    <2> QED BY <1>5, <1>r, <2>1, <2>2 DEF SweepExpireFails, Shape, TypeOK
  <1> QED BY <1>1, <1>2, <1>3, <1>4, <1>5

LEMMA ShapeInductive == Shape /\ [Next]_vars => Shape'
  <1> SUFFICES ASSUME Shape, [Next]_vars PROVE Shape'
    OBVIOUS
  <1> USE DEF tables, history
  <1>r. UNCHANGED request => RequestShape'
    BY DEF Shape, RequestShape
  <1>t. now \in Nat /\ invoice \in [Invoice -> Row]
    BY Grin1Assumption DEF Shape, TypeOK
  <1>1. ASSUME NEW i \in Invoice, View(i)
        PROVE  Shape'
    BY <1>1, <1>r, <1>t, RowUpdatesTyped, SweepStands DEF View, Shape, TypeOK
  <1>2. ASSUME NEW i \in Invoice, NEW s \in Slate, PlainPayment(i, s)
        PROVE  Shape'
    <2>1. invoice' \in [Invoice -> Row]
      BY <1>2, <1>t, RowUpdatesTyped DEF PlainPayment
    <2> QED BY <1>2, <1>r, <2>1, SweepStands DEF PlainPayment, Shape, TypeOK
  <1>3. ASSUME NEW s \in Slate, PollConfirms(s)
        PROVE  Shape'
    BY <1>3, <1>r, <1>t, RowUpdatesTyped, SweepStands DEF PollConfirms, Shape, TypeOK
  <1>4. CASE Crash
    <2>1. request' \in [Worker -> Request] /\ RequestShape'
      BY <1>4, IdleTyped DEF Crash, RequestShape
    <2>2. sweep' \in Sweep /\ SweepShape'
      BY <1>4, AsleepTyped DEF Crash, SweepShape
    <2>3. faults' \in 0..MaxFaults
      BY <1>4, Grin1Assumption DEF Crash, Fault, Shape, TypeOK
    <2> QED BY <1>4, <2>1, <2>2, <2>3 DEF Crash, Shape, TypeOK
  <1>5. CASE Tick
    BY <1>5, <1>r, SweepStands, Grin1Assumption DEF Tick, Shape, TypeOK
  <1>6. CASE UNCHANGED vars
    BY <1>6, <1>r, SweepStands DEF vars, Shape, TypeOK
  <1> QED BY <1>1, <1>2, <1>3, <1>4, <1>5, <1>6, RequestKeepsShape, SweepKeepsShape DEF Next

\* The tables, requests and sweep stay well formed through every race, failure
\* and restart.
THEOREM Grin1TypeCorrect == Spec => []TypeOK
  <1>1. Init => Shape
    BY InitShape
  <1>2. Shape /\ [Next]_vars => Shape'
    BY ShapeInductive
  <1>3. Shape => TypeOK
    BY DEF Shape
  <1> QED BY <1>1, <1>2, <1>3, PTL DEF Spec


-----------------------------------------------------------------------------
(* The safety of the grin1 rail: one I2 is posted once, an invoice is paid *)
(* by a slate only if that slate is its own and was posted, and the store  *)
(* hears once of the slate that won.                                       *)
(*                                                                         *)
(* The argument: the wallet's context of a slate is used by one request,   *)
(* and from then on that request is the only one to hold the slate.  What  *)
(* a step may do to one request is summed up in Advance; no proof after    *)
(* Advances looks at all actions for the sake of the requests again.       *)

\* An invoice gets at most one slate: one request arms it, once.
Armed ==
    /\ \A i \in Invoice : invoice[i].status = "absent" => slateOf[i] = NULL
    /\ \A w \in Worker : request[w].pc \in Arming =>
         /\ invoice[request[w].invoice].status # "absent"
         /\ slateOf[request[w].invoice] = NULL
    /\ \A v, w \in Worker :
         (v # w /\ request[v].pc \in Arming /\ request[w].pc \in Arming)
         => request[v].invoice # request[w].invoice

\* A context is used by one request, before anything is posted or announced.
UsedOnce ==
    /\ \A s \in Issuable : context[s] # "finalized" => posted[s] = 0 /\ told[s] = 0
    /\ \A w \in Worker : request[w].pc \in Using =>
         /\ context[request[w].slate] = "finalized"
         /\ told[request[w].slate] = 0
         /\ request[w].pc = "post" => posted[request[w].slate] = 0
    /\ \A v, w \in Worker :
         (v # w /\ request[v].pc \in Using /\ request[w].pc \in Using)
         => request[v].slate # request[w].slate

\* A request settles what it has posted, and an unsettled row has no payer.
Settled ==
    /\ \A w \in Worker :
         /\ request[w].pc \in Using \ {"post"} => posted[request[w].slate] > 0
         /\ request[w].pc \in Settling => slateOf[request[w].invoice] = request[w].slate
         /\ request[w].pc = "notify" =>
              invoice[request[w].invoice].paidBy = request[w].slate
    /\ \A i \in Invoice : Unsettled(invoice, i) => invoice[i].paidBy = NULL

Safe == PostedOnce /\ PaidByPosted /\ ToldOfTheWinner

-----------------------------------------------------------------------------
(* What a step may do to one request.                                      *)

Uses(w) == /\ request[w].pc = "finalize" /\ request'[w].pc = "post"
           /\ request'[w].slate = request[w].slate
           /\ context[request[w].slate] = "stored"
           /\ context' = [context EXCEPT ![request[w].slate] = "finalized"]
           /\ \A v \in Worker \ {w} : request'[v] = request[v]
Posts(w) == /\ request[w].pc = "post" /\ request'[w].pc = "lookup"
            /\ request'[w].slate = request[w].slate
            /\ posted' = [posted EXCEPT ![request[w].slate] = @ + 1]
Finds(w) == /\ request[w].pc = "lookup" /\ request'[w].pc = "insert"
            /\ request'[w].slate = request[w].slate
            /\ slateOf[request'[w].invoice] = request[w].slate
            /\ UNCHANGED slateOf
Holds(w) == /\ request'[w].slate = request[w].slate
            /\ request'[w].invoice = request[w].invoice
Records(w) == request[w].pc = "insert" /\ request'[w].pc = "pay" /\ Holds(w)
Wins(w) == /\ request[w].pc = "pay" /\ request'[w].pc = "notify" /\ Holds(w)
           /\ invoice'[request[w].invoice].paidBy = request[w].slate

Advance(w) == \/ request'[w] = request[w]
              \/ request'[w].pc \notin Using
              \/ Uses(w) \/ Posts(w) \/ Finds(w) \/ Records(w) \/ Wins(w)

LEMMA FinishAdvances ==
    ASSUME Shape, NEW w \in Worker, Finish(w) \/ UNCHANGED request
    PROVE  \A v \in Worker : Advance(v)
  BY DEF Finish, Idle, Using, Advance, Shape, TypeOK

\* A request that begins, or an invoice being armed, uses no context.
LEMMA BeginAdvances ==
    ASSUME Shape, NEW w \in Worker, NEW r \in Request, r.pc \notin Using,
           request' = [request EXCEPT ![w] = r]
    PROVE  \A v \in Worker : Advance(v)
  BY DEF Advance, Shape, TypeOK

LEMMA Advances ==
    ASSUME Shape, [Next]_vars
    PROVE  \A v \in Worker : Advance(v)
  <1>0. ASSUME NEW w \in Worker
        PROVE  request[w] \in Request /\ LocalShape(request[w])
    BY <1>0 DEF Shape, TypeOK, RequestShape
  <1>1. ASSUME NEW w \in Worker, NEW i \in Invoice, NEW p \in Offers, Create(w, i, p)
        PROVE  \A v \in Worker : Advance(v)
    <2> DEFINE r == [Idle EXCEPT !.pc = "issue", !.invoice = i]
    <2>1. r \in Request /\ r.pc \notin Using
      BY DEF Idle, Request, Using
    <2> QED BY <1>1, <2>1, BeginAdvances, FinishAdvances DEF Create
  <1>2. ASSUME NEW w \in Worker, NEW i \in Invoice, OnionI2(w, i) \/ PasteI2(w, i)
        PROVE  \A v \in Worker : Advance(v)
    <2>1. ASSUME NEW onion \in BOOLEAN, Begin(w, i, onion)
          PROVE  \A v \in Worker : Advance(v)
      <3> DEFINE r == [pc |-> "finalize", invoice |-> i, slate |-> slateOf[i],
                       onion |-> onion]
      <3>1. r \in Request /\ r.pc \notin Using
        BY DEF Request, Using, Shape, TypeOK
      <3> QED BY <2>1, <3>1, BeginAdvances DEF Begin
    <2> QED BY <1>2, <2>1, FinishAdvances DEF OnionI2, PasteI2
  <1>3. ASSUME NEW w \in Worker, NEW s \in Issuable, Issue(w, s)
        PROVE  \A v \in Worker : Advance(v)
    <2> DEFINE r == [request[w] EXCEPT !.pc = "attach", !.slate = s]
    <2>1. r \in Request /\ r.pc \notin Using
      BY <1>0 DEF Request, Using
    <2>2. request' = [request EXCEPT ![w] = r]
      BY <1>3 DEF Issue
    <2> QED BY <2>1, <2>2, BeginAdvances
  <1>4. ASSUME NEW w \in Worker, Finalize(w)
        PROVE  \A v \in Worker : Advance(v)
    <2>1. CASE context[request[w].slate] = "stored"
      <3>1. request' = [request EXCEPT ![w].pc = "post"]
        BY <1>4, <2>1 DEF Finalize, Goto
      <3>2. Uses(w)
        BY <1>4, <2>1, <3>1 DEF Finalize, At, ContextUsed, Uses, Shape, TypeOK, Request
      <3> QED BY <3>1, <3>2 DEF Advance, Shape, TypeOK
    <2> QED BY <1>4, <2>1, FinishAdvances DEF Finalize
  <1>5. ASSUME NEW w \in Worker, Post(w) \/ PostFails(w)
        PROVE  \A v \in Worker : Advance(v)
    <2>1. CASE Post(w)
      <3>1. request' = [request EXCEPT ![w].pc = "lookup"]
        BY <2>1 DEF Post, Goto
      <3>2. Posts(w)
        BY <2>1, <3>1 DEF Post, At, Posts, Shape, TypeOK, Request
      <3> QED BY <3>1, <3>2 DEF Advance, Shape, TypeOK
    <2> QED BY <1>5, <2>1, FinishAdvances DEF PostFails, AfterPostError
  <1>6. ASSUME NEW w \in Worker, Lookup(w)
        PROVE  \A v \in Worker : Advance(v)
    <2>1. ASSUME NEW i \in Invoice, slateOf[i] = request[w].slate,
                 request' = [request EXCEPT ![w].pc = "insert", ![w].invoice = i]
          PROVE  \A v \in Worker : Advance(v)
      <3>1. request'[w].pc = "insert" /\ request'[w].invoice = i
            /\ request'[w].slate = request[w].slate
        BY <1>0, <2>1 DEF Shape, TypeOK, Request
      <3>2. Finds(w)
        BY <1>6, <2>1, <3>1 DEF Lookup, At, Finds, tables
      <3> QED BY <2>1, <3>2 DEF Advance, Shape, TypeOK
    <2> QED BY <1>6, <2>1, FinishAdvances DEF Lookup
  <1>7. ASSUME NEW w \in Worker, Insert(w) \/ StatementFails(w)
        PROVE  \A v \in Worker : Advance(v)
    <2>1. CASE At(w, "insert") /\ Goto(w, "pay")
      <3>1. request' = [request EXCEPT ![w].pc = "pay"]
        BY <2>1 DEF Goto
      <3>2. Records(w)
        BY <1>0, <2>1, <3>1 DEF At, Records, Holds, Shape, TypeOK, Request
      <3> QED BY <3>1, <3>2 DEF Advance, Shape, TypeOK
    <2> QED BY <1>7, <2>1, FinishAdvances DEF Insert, StatementFails
  <1>8. ASSUME NEW w \in Worker, Pay(w)
        PROVE  \A v \in Worker : Advance(v)
    <2>1. CASE Goto(w, "notify") /\ invoice[request[w].invoice].status = "open"
      <3>1. request' = [request EXCEPT ![w].pc = "notify"]
        BY <2>1 DEF Goto
      <3>2. request[w].invoice \in Invoice /\ request[w].slate \in Slate
        BY <1>0, <1>8, Grin1Assumption DEF Pay, At, LocalShape
      <3>3. invoice'[request[w].invoice].paidBy = request[w].slate
        BY <1>8, <2>1, <3>2, PaidUpdate DEF Pay, Shape, TypeOK
      <3>4. Wins(w)
        BY <1>0, <1>8, <3>1, <3>3 DEF Pay, At, Wins, Holds, Shape, TypeOK, Request
      <3> QED BY <3>1, <3>4 DEF Advance, Shape, TypeOK
    <2> QED BY <1>8, <2>1, FinishAdvances DEF Pay, AfterMarkPaid
  <1>9. ASSUME NEW w \in Worker, Attach(w) \/ Notify(w) \/ ArmFails(w)
        PROVE  \A v \in Worker : Advance(v)
    BY <1>9, FinishAdvances DEF Attach, Notify, ArmFails
  <1>10. ASSUME UNCHANGED request
         PROVE  \A v \in Worker : Advance(v)
    BY <1>10 DEF Advance
  <1>11. CASE Crash
    BY <1>11 DEF Crash, Idle, Using, Advance
  <1> QED BY <1>1, <1>2, <1>3, <1>4, <1>5, <1>6, <1>7, <1>8, <1>9, <1>10, <1>11
          DEF Next, RequestStep, vars, SweepRead, SweepExpire, SweepExpireFails,
              SweepCancel, SweepCancelFails, View, PlainPayment, PollConfirms, Tick

-----------------------------------------------------------------------------
(* What a step may do to one row.                                          *)

PlainHere(i) == LET s == invoice'[i].paidBy
                IN  s \in Plain /\ ledger[s] = "absent" /\ ledger'[s] # "absent"
PaidHere(w, i) == /\ request[w].pc = "pay" /\ request[w].invoice = i
                  /\ invoice'[i].paidBy = request[w].slate

RowStep(i) ==
    /\ Unsettled(invoice', i) => Unsettled(invoice, i)
    /\ invoice'[i].status = "absent" => invoice[i].status = "absent"
    /\ \/ invoice'[i].paidBy = invoice[i].paidBy
       \/ /\ Unsettled(invoice, i) /\ ~Unsettled(invoice', i)
          /\ PlainHere(i) \/ \E w \in Worker : PaidHere(w, i)

LEMMA StatusRowStep ==
    ASSUME Shape, NEW j \in Invoice, NEW i \in Invoice,
           \/ invoice' = ExpireIfDue(invoice, j, now)
           \/ invoice' = MarkConfirmed(invoice, j)
           \/ UNCHANGED invoice
    PROVE  RowStep(i)
  <1>1. invoice \in [Invoice -> Row] /\ now \in Nat
    BY Grin1Assumption DEF Shape, TypeOK
  <1>2. CASE invoice' \in {ExpireIfDue(invoice, j, now), MarkConfirmed(invoice, j)}
    BY <1>1, <1>2, StatusUpdates DEF RowStep
  <1> QED BY <1>2 DEF RowStep, Unsettled

LEMMA RowSteps ==
    ASSUME Shape, Settled, [Next]_vars
    PROVE  \A i \in Invoice : RowStep(i)
  <1> SUFFICES ASSUME NEW i \in Invoice PROVE RowStep(i)
    OBVIOUS
  <1>t. invoice \in [Invoice -> Row] /\ now \in Nat
    BY Grin1Assumption DEF Shape, TypeOK
  <1>1. ASSUME NEW w \in Worker, NEW j \in Invoice, NEW p \in Offers, Create(w, j, p)
        PROVE  RowStep(i)
    <2> DEFINE tab == [invoice EXCEPT ![j] = Created(p, DefaultMode, now)]
    <2>1. tab \in [Invoice -> Row]
      BY <1>t, CreatedTyped, Grin1Assumption
    <2>2. tab[i] = IF i = j THEN Created(p, DefaultMode, now) ELSE invoice[i]
      BY <1>t
    <2>3. /\ invoice'[i].paidBy = tab[i].paidBy
          /\ Unsettled(invoice', i) => Unsettled(tab, i)
          /\ invoice'[i].status = "absent" <=> tab[i].status = "absent"
      <3>1. invoice' \in {ExpireIfDue(tab, j, now), MarkConfirmed(tab, j)}
        BY <1>1 DEF Create
      <3> HIDE DEF tab
      <3> QED BY <1>t, <2>1, <3>1, StatusUpdates
    <2>4. CASE i = j
      <3>1. invoice[i].status = "absent" /\ invoice[i].paidBy = NULL
        BY <1>1, <2>4 DEF Create, Settled, Unsettled
      <3>2. invoice'[i].paidBy = NULL
        BY <2>2, <2>3, <2>4 DEF Created
      <3> QED BY <3>1, <3>2 DEF RowStep, Unsettled
    <2>5. CASE i # j
      BY <2>2, <2>3, <2>5 DEF RowStep, Unsettled
    <2> QED BY <2>4, <2>5
  <1>2. ASSUME NEW w \in Worker, Attach(w)
        PROVE  RowStep(i)
    <2>1. request[w].invoice \in Invoice
      BY <1>2 DEF Attach, At, Shape, RequestShape, LocalShape
    <2> QED BY <1>2, <2>1, StatusRowStep DEF Attach
  <1>3. ASSUME NEW w \in Worker, NEW j \in Invoice, PasteI2(w, j)
        PROVE  RowStep(i)
    BY <1>3, StatusRowStep DEF PasteI2
  <1>4. ASSUME NEW w \in Worker, Pay(w)
        PROVE  RowStep(i)
    <2>1. /\ At(w, "pay") /\ request[w].invoice \in Invoice /\ request[w].slate \in Slate
          /\ invoice' = MarkPaid(invoice, request[w].invoice, request[w].slate)
      BY <1>4, Grin1Assumption DEF Pay, At, Shape, RequestShape, LocalShape
    <2>2. CASE i = request[w].invoice /\ invoice[i].status = "open"
      <3>1. invoice'[i].paidBy = request[w].slate /\ invoice'[i].status = "paid"
        BY <1>t, <2>1, <2>2, PaidUpdate
      <3>2. PaidHere(w, i)
        BY <2>1, <2>2, <3>1 DEF PaidHere, At
      <3> QED BY <2>2, <3>1, <3>2 DEF RowStep, Unsettled
    <2>3. CASE ~(i = request[w].invoice /\ invoice[i].status = "open")
      <3>1. invoice'[i] = invoice[i]
        BY <1>t, <2>1, <2>3, PaidUpdate
      <3> QED BY <3>1 DEF RowStep, Unsettled
    <2> QED BY <2>2, <2>3
  <1>5. ASSUME NEW j \in Invoice, NEW s \in Slate, PlainPayment(j, s)
        PROVE  RowStep(i)
    <2>1. /\ invoice' = MarkPaid(invoice, j, s) /\ s \in Plain
          /\ ledger[s] = "absent" /\ ledger'[s] # "absent"
      BY <1>5, Grin1Assumption DEF PlainPayment, Shape, TypeOK
    <2>2. CASE i = j /\ invoice[i].status = "open"
      <3>1. invoice'[i].paidBy = s /\ invoice'[i].status = "paid"
        BY <1>t, <2>1, <2>2, PaidUpdate
      <3> QED BY <2>1, <2>2, <3>1 DEF RowStep, PlainHere, Unsettled
    <2>3. CASE ~(i = j /\ invoice[i].status = "open")
      <3>1. invoice'[i] = invoice[i]
        BY <1>t, <2>1, <2>3, PaidUpdate
      <3> QED BY <3>1 DEF RowStep, Unsettled
    <2> QED BY <2>2, <2>3
  <1>6. CASE SweepExpire
    <2>1. sweep.target \in Invoice
      BY <1>6 DEF SweepExpire, Shape, SweepShape
    <2>2. invoice' = invoice \/ /\ invoice[sweep.target].status = "open"
                                /\ invoice' = [invoice EXCEPT ![sweep.target].status = "expired"]
      BY <1>6 DEF SweepExpire, MarkExpired
    <2>3. /\ invoice'[i].paidBy = invoice[i].paidBy
          /\ invoice'[i].status \in {invoice[i].status, "expired"}
      BY <1>t, <2>1, <2>2 DEF Row
    <2> QED BY <2>3 DEF RowStep, Unsettled
  <1>7. ASSUME NEW j \in Invoice, View(j)
        PROVE  RowStep(i)
    BY <1>7, StatusRowStep DEF View
  <1>8. ASSUME NEW s \in Slate, PollConfirms(s)
        PROVE  RowStep(i)
    BY <1>8, StatusRowStep DEF PollConfirms
  <1>9. ASSUME UNCHANGED invoice
        PROVE  RowStep(i)
    BY <1>9 DEF RowStep, Unsettled
  <1> QED BY <1>1, <1>2, <1>3, <1>4, <1>5, <1>6, <1>7, <1>8, <1>9
          DEF Next, RequestStep, vars, tables, Issue, OnionI2, Finalize, Post, PostFails,
              Lookup, Insert, Notify, ArmFails, StatementFails, SweepRead, SweepExpireFails,
              SweepCancel, SweepCancelFails, Crash, Tick

-----------------------------------------------------------------------------
(* An invoice is armed once.                                               *)

Continues(w) == request[w].pc \in Arming /\ request'[w].invoice = request[w].invoice
Begins(w) == \E i \in Invoice, p \in Offers : Create(w, i, p) /\ request'[w].invoice = i

LEMMA ArmingSteps ==
    ASSUME Shape, [Next]_vars, NEW w \in Worker, request'[w].pc \in Arming
    PROVE  Continues(w) \/ Begins(w)
  <1>0. /\ request \in [Worker -> Request]
        /\ Idle.pc \notin Arming /\ Arming \cap Using = {}
    BY DEF Shape, TypeOK, Idle, Arming, Using
  <1>f. ASSUME NEW v \in Worker, Finish(v) \/ UNCHANGED request
        PROVE  Continues(w)
    BY <1>0, <1>f DEF Finish, Continues
  <1>g. ASSUME NEW v \in Worker, NEW pc \in Using, Goto(v, pc)
        PROVE  Continues(w)
    BY <1>0, <1>g DEF Goto, Continues, Request
  <1>1. ASSUME NEW v \in Worker, NEW i \in Invoice, NEW p \in Offers, Create(v, i, p)
        PROVE  Continues(w) \/ Begins(w)
    <2>1. CASE UNCHANGED request
      BY <1>f, <2>1
    <2>2. CASE request' = [request EXCEPT ![v] = [Idle EXCEPT !.pc = "issue", !.invoice = i]]
      <3>1. CASE w = v
        <4>1. request'[w].invoice = i
          BY <1>0, <2>2, <3>1 DEF Idle
        <4> QED BY <1>1, <3>1, <4>1 DEF Begins
      <3> QED BY <1>0, <2>2, <3>1 DEF Continues
    <2> QED BY <1>1, <2>1, <2>2 DEF Create
  <1>2. ASSUME NEW v \in Worker, NEW i \in Invoice, OnionI2(v, i) \/ PasteI2(v, i)
        PROVE  Continues(w)
    <2>1. ASSUME NEW onion \in BOOLEAN, Begin(v, i, onion)
          PROVE  Continues(w)
      BY <1>0, <2>1 DEF Begin, Continues, Arming
    <2> QED BY <1>2, <1>f, <2>1 DEF OnionI2, PasteI2
  <1>3. ASSUME NEW v \in Worker, NEW s \in Issuable, Issue(v, s)
        PROVE  Continues(w)
    BY <1>0, <1>3 DEF Issue, At, Continues, Arming, Request
  <1>4. ASSUME NEW v \in Worker, Lookup(v)
        PROVE  Continues(w)
    <2>1. ASSUME NEW i \in Invoice,
                 request' = [request EXCEPT ![v].pc = "insert", ![v].invoice = i]
          PROVE  Continues(w)
      BY <1>0, <2>1 DEF Continues, Arming, Request
    <2> QED BY <1>4, <1>f, <2>1 DEF Lookup
  <1>5. ASSUME NEW v \in Worker,
               \/ Attach(v) \/ Finalize(v) \/ Post(v) \/ Insert(v) \/ Pay(v) \/ Notify(v)
               \/ ArmFails(v) \/ PostFails(v) \/ StatementFails(v)
        PROVE  Continues(w)
    BY <1>5, <1>f, <1>g
    DEF Attach, Finalize, Post, Insert, Pay, Notify, ArmFails, PostFails, StatementFails,
        AfterPostError, AfterMarkPaid, Using
  <1>6. CASE UNCHANGED request
    BY <1>f, <1>6
  <1>7. CASE Crash
    BY <1>0, <1>7 DEF Crash
  <1> QED BY <1>1, <1>2, <1>3, <1>4, <1>5, <1>6, <1>7
          DEF Next, RequestStep, vars, SweepRead, SweepExpire, SweepExpireFails,
              SweepCancel, SweepCancelFails, View, PlainPayment, PollConfirms, Tick

\* slateOf is written by the one request that arms the invoice.
Attaches(w) == /\ Attach(w)
               /\ slateOf' = [slateOf EXCEPT ![request[w].invoice] = request[w].slate]

LEMMA SlateOfSteps ==
    ASSUME [Next]_vars
    PROVE  UNCHANGED slateOf \/ \E w \in Worker : Attaches(w)
  BY DEF Next, RequestStep, vars, tables, Attaches, Attach, Create, OnionI2, PasteI2, Issue,
         Finalize, Post, PostFails, Lookup, Insert, Pay, Notify, ArmFails, StatementFails,
         SweepRead, SweepExpire, SweepExpireFails, SweepCancel, SweepCancelFails, View,
         PlainPayment, PollConfirms, Crash, Tick

\* What is attached stays attached.
LEMMA SlateOfStands ==
    ASSUME Shape, Armed, [Next]_vars, NEW i \in Invoice, slateOf[i] # NULL
    PROVE  slateOf'[i] = slateOf[i]
  <1>1. ASSUME NEW w \in Worker, Attaches(w)
        PROVE  slateOf[request[w].invoice] = NULL
    BY <1>1 DEF Attaches, Attach, At, Armed, Arming
  <1> QED BY <1>1, SlateOfSteps DEF Attaches, Shape, TypeOK

LEMMA ArmedStep ==
    ASSUME Shape, Armed, Settled, [Next]_vars
    PROVE  Armed'
  <1>0. \A w \in Worker : request[w].pc \in Arming => request[w].invoice \in Invoice
    BY DEF Shape, RequestShape, LocalShape, Arming
  <1>1. \A i \in Invoice : invoice'[i].status = "absent" => invoice[i].status = "absent"
    BY RowSteps DEF RowStep
  <1>2. ASSUME NEW w \in Worker, Attaches(w)
        PROVE  /\ request[w].invoice \in Invoice
               /\ invoice[request[w].invoice].status # "absent"
               /\ request'[w].pc \notin Arming
               /\ \A i \in Invoice : i # request[w].invoice => slateOf'[i] = slateOf[i]
    BY <1>0, <1>2 DEF Attaches, Attach, At, Armed, Arming, Finish, Idle, Shape, TypeOK
  <1>3. ASSUME NEW w \in Worker, Begins(w)
        PROVE  /\ request'[w].invoice \in Invoice
               /\ invoice[request'[w].invoice].status = "absent"
               /\ invoice'[request'[w].invoice].status # "absent"
               /\ UNCHANGED slateOf
               /\ \A v \in Worker \ {w} : request'[v] = request[v]
    <2>1. PICK i \in Invoice, p \in Offers : Create(w, i, p) /\ request'[w].invoice = i
      BY <1>3 DEF Begins
    <2>2. invoice[i].status = "absent" /\ UNCHANGED slateOf
          /\ \A v \in Worker \ {w} : request'[v] = request[v]
      BY <2>1 DEF Create, Shape, TypeOK
    <2>3. invoice'[i].status # "absent"
      <3> DEFINE tab == [invoice EXCEPT ![i] = Created(p, DefaultMode, now)]
      <3>1. tab \in [Invoice -> Row] /\ tab[i].status = "open" /\ now \in Nat
        BY CreatedTyped, Grin1Assumption DEF Shape, TypeOK, Created
      <3>2. invoice' \in {ExpireIfDue(tab, i, now), MarkConfirmed(tab, i)}
        BY <2>1 DEF Create
      <3> HIDE DEF tab
      <3> QED BY <3>1, <3>2, StatusUpdates
    <2> QED BY <2>1, <2>2, <2>3
  <1>4. ASSUME NEW i \in Invoice, invoice'[i].status = "absent"
        PROVE  slateOf'[i] = NULL
    BY <1>1, <1>2, <1>4, SlateOfSteps DEF Armed
  <1>5. ASSUME NEW w \in Worker, request'[w].pc \in Arming
        PROVE  /\ invoice'[request'[w].invoice].status # "absent"
               /\ slateOf'[request'[w].invoice] = NULL
    <2>1. CASE Continues(w)
      <3>1. invoice'[request'[w].invoice].status # "absent"
        BY <1>0, <1>1, <2>1 DEF Continues, Armed
      <3>2. slateOf'[request'[w].invoice] = NULL
        BY <1>0, <1>2, <1>5, <2>1, SlateOfSteps DEF Continues, Armed, Attaches, Attach, At, Arming
      <3> QED BY <3>1, <3>2
    <2>2. CASE Begins(w)
      BY <1>3, <2>2 DEF Armed
    <2> QED BY <1>5, <2>1, <2>2, ArmingSteps
  <1>6. ASSUME NEW v \in Worker, NEW w \in Worker, v # w,
               request'[v].pc \in Arming, request'[w].pc \in Arming
        PROVE  request'[v].invoice # request'[w].invoice
    <2>1. CASE Continues(v) /\ Continues(w)
      BY <1>6, <2>1 DEF Continues, Armed
    <2>2. ASSUME NEW a \in Worker, NEW b \in Worker, a # b, Begins(a),
                 request'[b].pc \in Arming
          PROVE  request'[a].invoice # request'[b].invoice
      BY <1>0, <1>3, <2>2 DEF Armed
    <2> QED BY <1>6, <2>1, <2>2, ArmingSteps
  <1> QED BY <1>4, <1>5, <1>6 DEF Armed

-----------------------------------------------------------------------------
(* A context is used once.                                                 *)

Reaches(w) == /\ request[w].pc = "post" /\ request'[w].pc # "post"
              /\ \E n \in {0, 1} : posted' = [posted EXCEPT ![request[w].slate] = @ + n]
Announces(w) == /\ request[w].pc = "notify" /\ request'[w].pc \notin Using
                /\ told' = [told EXCEPT ![request[w].slate] = @ + 1]

LEMMA HistorySteps ==
    ASSUME Shape, [Next]_vars
    PROVE  /\ UNCHANGED posted \/ \E w \in Worker : Reaches(w)
           /\ UNCHANGED told \/ \E w \in Worker : Announces(w)
  <1>1. ASSUME NEW w \in Worker, Post(w)
        PROVE  Reaches(w) /\ UNCHANGED told
    BY <1>1 DEF Post, At, Goto, Reaches, Shape, TypeOK, Request
  <1>2. ASSUME NEW w \in Worker, PostFails(w)
        PROVE  Reaches(w) /\ UNCHANGED told
    BY <1>2 DEF PostFails, AfterPostError, At, Finish, Idle, Reaches, Shape, TypeOK
  <1>3. ASSUME NEW w \in Worker, Notify(w)
        PROVE  Announces(w) /\ UNCHANGED posted
    BY <1>3 DEF Notify, At, Finish, Idle, Using, Announces, Shape, TypeOK
  <1> QED BY <1>1, <1>2, <1>3
      DEF Next, RequestStep, vars, history, Attach, Create, OnionI2, PasteI2, Issue,
          Finalize, Lookup, Insert, Pay, ArmFails, StatementFails, SweepRead, SweepExpire,
          SweepExpireFails, SweepCancel, SweepCancelFails, View, PlainPayment,
          PollConfirms, Crash, Tick

\* A context that was used stays used.
LEMMA ContextSteps ==
    ASSUME Shape, [Next]_vars, NEW s \in Issuable, context[s] = "finalized"
    PROVE  context'[s] = "finalized"
  <1>1. ASSUME NEW w \in Worker, NEW t \in Issuable, Issue(w, t)
        PROVE  context'[s] = "finalized"
    BY <1>1 DEF Issue, Shape, TypeOK
  <1>2. ASSUME NEW w \in Worker, Finalize(w)
        PROVE  context'[s] = "finalized"
    BY <1>2 DEF Finalize, ContextUsed, Shape, TypeOK
  <1>3. ASSUME NEW i \in Invoice, SweepCancel(i)
        PROVE  context'[s] = "finalized"
    BY <1>3 DEF SweepCancel, Shape, TypeOK
  <1> QED BY <1>1, <1>2, <1>3
      DEF Next, RequestStep, vars, Attach, Create, OnionI2, PasteI2, Post, PostFails,
          Notify, Lookup, Insert, Pay, ArmFails, StatementFails, SweepRead, SweepExpire,
          SweepExpireFails, SweepCancelFails, View, PlainPayment, PollConfirms, Crash, Tick

\* A request that uses a slate did so before, or takes its context now.
Keeps(w) == request[w].pc \in Using /\ request'[w].slate = request[w].slate

LEMMA UsersKeep ==
    ASSUME Shape, [Next]_vars, NEW w \in Worker, request'[w].pc \in Using
    PROVE  Keeps(w) \/ Uses(w)
  BY Advances DEF Advance, Keeps, Posts, Finds, Records, Wins, Holds, Using

LEMMA UsedOnceStep ==
    ASSUME Shape, UsedOnce, PostedOnce, [Next]_vars
    PROVE  UsedOnce' /\ PostedOnce'
  <1>0. \A w \in Worker : request[w].pc \in Using \cup {"finalize"} => request[w].slate \in Issuable
    BY DEF Shape, RequestShape, LocalShape, Using
  <1>1. ASSUME NEW s \in Issuable, \A w \in Worker : Reaches(w) => request[w].slate # s
        PROVE  posted'[s] = posted[s]
    BY <1>1, HistorySteps DEF Reaches, Shape, TypeOK
  <1>2. ASSUME NEW s \in Issuable, \A w \in Worker : Announces(w) => request[w].slate # s
        PROVE  told'[s] = told[s]
    BY <1>2, HistorySteps DEF Announces, Shape, TypeOK
  <1>3. \A w \in Worker : Reaches(w) \/ Announces(w) =>
          request[w].pc \in Using /\ context[request[w].slate] = "finalized"
    BY DEF Reaches, Announces, Using, UsedOnce
  <1>4. ASSUME NEW s \in Issuable, context[s] # "finalized"
        PROVE  posted'[s] = 0 /\ told'[s] = 0
    BY <1>1, <1>2, <1>3, <1>4 DEF UsedOnce
  <1>5. ASSUME NEW w \in Worker, request'[w].pc \in Using
        PROVE  /\ context'[request'[w].slate] = "finalized"
               /\ told'[request'[w].slate] = 0
               /\ request'[w].pc = "post" => posted'[request'[w].slate] = 0
    <2>1. CASE Uses(w)
      <3>1. context'[request[w].slate] = "finalized"
        BY <1>0, <2>1 DEF Uses, Shape, TypeOK
      <3> QED BY <1>0, <1>4, <2>1, <3>1 DEF Uses
    <2>2. CASE Keeps(w) /\ ~Uses(w)
      <3> DEFINE s == request[w].slate
      <3>1. s \in Issuable /\ request'[w].slate = s /\ request[w].pc \in Using
        BY <1>0, <2>2 DEF Keeps
      <3>2. context'[s] = "finalized"
        BY <3>1, ContextSteps DEF UsedOnce
      <3>3. \A v \in Worker : Announces(v) => request[v].slate # s
        BY <1>3, <1>5, <3>1 DEF Announces, UsedOnce
      <3>4. told'[s] = 0
        BY <1>2, <3>1, <3>3 DEF UsedOnce
      <3>5. ASSUME request'[w].pc = "post" PROVE posted'[s] = 0
        <4>1. request[w].pc = "post"
          BY <1>5, <2>2, <3>5, Advances DEF Advance, Posts, Finds, Records, Wins
        <4>2. \A v \in Worker : Reaches(v) => request[v].slate # s
          BY <1>3, <3>1, <3>5 DEF Reaches, UsedOnce
        <4> QED BY <1>1, <3>1, <4>1, <4>2 DEF UsedOnce
      <3> QED BY <3>1, <3>2, <3>4, <3>5
    <2> QED BY <1>5, <2>1, <2>2, UsersKeep
  <1>6. ASSUME NEW v \in Worker, NEW w \in Worker, v # w,
               request'[v].pc \in Using, request'[w].pc \in Using
        PROVE  request'[v].slate # request'[w].slate
    <2>1. CASE Keeps(v) /\ Keeps(w)
      BY <1>6, <2>1 DEF Keeps, UsedOnce
    <2>2. ASSUME NEW a \in Worker, NEW b \in Worker, a # b, Uses(a),
                 request'[b].pc \in Using
          PROVE  request'[a].slate # request'[b].slate
      <3>1. request'[b] = request[b] /\ context[request'[a].slate] = "stored"
        BY <2>2 DEF Uses
      <3> QED BY <2>2, <3>1 DEF UsedOnce
    <2> QED BY <1>6, <2>1, <2>2, UsersKeep
  <1>7. ASSUME NEW s \in Issuable PROVE posted'[s] <= 1
    <2>1. CASE \E w \in Worker : Reaches(w) /\ request[w].slate = s
      <3>1. posted[s] = 0
        BY <2>1 DEF Reaches, Using, UsedOnce
      <3> QED BY <2>1, <3>1 DEF Reaches, Shape, TypeOK
    <2>2. CASE ~ \E w \in Worker : Reaches(w) /\ request[w].slate = s
      BY <1>1, <2>2 DEF PostedOnce
    <2> QED BY <2>1, <2>2
  <1>8. \A s \in Issuable : context'[s] # "finalized" => context[s] # "finalized"
    BY ContextSteps
  <1> QED BY <1>4, <1>5, <1>6, <1>7, <1>8 DEF UsedOnce, PostedOnce

-----------------------------------------------------------------------------
(* What is settled was posted, and stays settled.                          *)

Inv == Shape /\ Armed /\ UsedOnce /\ Settled /\ Safe

\* A payer, once written, is never replaced.
LEMMA PayerStands ==
    ASSUME Shape, Settled, [Next]_vars, NEW i \in Invoice, invoice[i].paidBy # NULL
    PROVE  invoice'[i].paidBy = invoice[i].paidBy
  BY RowSteps DEF RowStep, Settled

LEMMA PostedGrows ==
    ASSUME Shape, [Next]_vars, NEW s \in Issuable, posted[s] > 0
    PROVE  posted'[s] > 0
  BY HistorySteps DEF Reaches, Shape, TypeOK

LEMMA SettledStep ==
    ASSUME Inv, [Next]_vars
    PROVE  Settled'
  <1> USE DEF Inv
  <1>0. \A w \in Worker : request[w].pc \in Using =>
          /\ request[w].slate \in Issuable /\ request[w].slate # NULL
          /\ request[w].invoice \in Invoice
    BY TableAssumption, Grin1Assumption DEF Shape, RequestShape, LocalShape, Using
  <1>1. ASSUME NEW w \in Worker, request'[w].pc \in Using \ {"post"}
        PROVE  posted'[request'[w].slate] > 0
    <2>1. CASE Posts(w)
      BY <1>0, <2>1 DEF Posts, Using, Shape, TypeOK
    <2>2. CASE request'[w] = request[w] \/ Finds(w) \/ Records(w) \/ Wins(w)
      <3>1. request[w].pc \in Using \ {"post"} /\ request'[w].slate = request[w].slate
        BY <1>1, <2>2 DEF Finds, Records, Wins, Holds, Using
      <3> QED BY <1>0, <3>1, PostedGrows DEF Settled
    <2> QED BY <1>1, <2>1, <2>2, Advances DEF Advance, Uses
  <1>2. ASSUME NEW w \in Worker, request'[w].pc \in Settling
        PROVE  slateOf'[request'[w].invoice] = request'[w].slate
    <2>1. CASE Finds(w)
      BY <2>1 DEF Finds
    <2>2. CASE request'[w] = request[w] \/ Records(w) \/ Wins(w)
      <3>1. /\ request[w].pc \in Settling
            /\ request'[w].slate = request[w].slate
            /\ request'[w].invoice = request[w].invoice
        BY <1>2, <2>2 DEF Records, Wins, Holds, Settling
      <3>2. slateOf[request[w].invoice] = request[w].slate
        BY <3>1 DEF Settled
      <3> QED BY <1>0, <3>1, <3>2, SlateOfStands DEF Settling, Using
    <2> QED BY <1>2, <2>1, <2>2, Advances DEF Advance, Uses, Posts, Settling, Using
  <1>3. ASSUME NEW w \in Worker, request'[w].pc = "notify"
        PROVE  invoice'[request'[w].invoice].paidBy = request'[w].slate
    <2>1. CASE Wins(w)
      BY <2>1 DEF Wins, Holds
    <2>2. CASE request'[w] = request[w]
      <3>1. invoice[request[w].invoice].paidBy = request[w].slate
        BY <1>3, <2>2 DEF Settled
      <3> QED BY <1>0, <1>3, <2>2, <3>1, PayerStands DEF Using
    <2> QED BY <1>3, <2>1, <2>2, Advances DEF Advance, Uses, Posts, Finds, Records, Using
  <1>4. ASSUME NEW i \in Invoice, Unsettled(invoice', i)
        PROVE  invoice'[i].paidBy = NULL
    BY <1>4, RowSteps DEF RowStep, Settled
  <1> QED BY <1>1, <1>2, <1>3, <1>4 DEF Settled, Unsettled

LEMMA SafeStep ==
    ASSUME Inv, [Next]_vars
    PROVE  Safe'
  <1> USE DEF Inv
  <1>n. NULL \notin Issuable /\ Plain \cap Issuable = {}
    BY TableAssumption, Grin1Assumption DEF Plain
  <1>0. \A w \in Worker : request[w].pc \in Using =>
          request[w].slate \in Issuable /\ request[w].invoice \in Invoice
    BY DEF Shape, RequestShape, LocalShape, Using
  <1>1. PostedOnce'
    BY UsedOnceStep DEF Safe
  <1>2. ASSUME NEW i \in Invoice, invoice'[i].paidBy \in Issuable
        PROVE  posted'[invoice'[i].paidBy] > 0 /\ slateOf'[i] = invoice'[i].paidBy
    <2> DEFINE s == invoice'[i].paidBy
    <2>1. posted[s] > 0 /\ slateOf[i] = s
      <3>1. CASE invoice'[i].paidBy = invoice[i].paidBy
        BY <1>2, <3>1 DEF Safe, PaidByPosted
      <3>2. ASSUME NEW w \in Worker, PaidHere(w, i)
            PROVE  posted[s] > 0 /\ slateOf[i] = s
        BY <3>2 DEF PaidHere, Settled, Using, Settling
      <3> QED BY <1>n, <1>2, <3>1, <3>2, RowSteps DEF RowStep, PlainHere
    <2> QED BY <1>n, <1>2, <2>1, PostedGrows, SlateOfStands
  <1>3. ASSUME NEW s \in Issuable, told'[s] > 0
        PROVE  told'[s] = 1 /\ \E i \in Invoice : invoice'[i].paidBy = s
    <2>1. told'[s] = 1 /\ \E i \in Invoice : invoice[i].paidBy = s
      <3>1. ASSUME NEW w \in Worker, Announces(w), request[w].slate = s
            PROVE  told'[s] = 1 /\ \E i \in Invoice : invoice[i].paidBy = s
        <4>1. request[w].pc = "notify" /\ request[w].invoice \in Invoice
          BY <1>0, <3>1 DEF Announces, Using
        <4>2. told[s] = 0
          BY <3>1, <4>1 DEF UsedOnce, Using
        <4>3. told'[s] = 1
          BY <3>1, <4>2 DEF Announces, Shape, TypeOK
        <4>4. invoice[request[w].invoice].paidBy = s
          BY <3>1, <4>1 DEF Settled
        <4> QED BY <4>1, <4>3, <4>4
      <3>2. CASE told'[s] = told[s]
        BY <1>3, <3>2 DEF Safe, ToldOfTheWinner
      <3> QED BY <3>1, <3>2, HistorySteps DEF Announces, Shape, TypeOK
    <2> QED BY <1>n, <2>1, PayerStands
  <1> QED BY <1>1, <1>2, <1>3 DEF Safe, PaidByPosted, ToldOfTheWinner

LEMMA InitInv == Init => Inv
  <1> SUFFICES ASSUME Init PROVE Inv
    OBVIOUS
  <1>1. Shape
    BY InitShape
  <1>2. \A w \in Worker : request[w].pc = "idle"
    BY DEF Init, Idle
  <1>3. NULL \notin Issuable
    BY TableAssumption, Grin1Assumption
  <1>4. Armed /\ UsedOnce /\ Settled
    BY <1>2 DEF Init, Armed, UsedOnce, Settled, Arming, Using, Settling, AbsentRow
  <1>5. Safe
    BY <1>3 DEF Init, Safe, PostedOnce, PaidByPosted, ToldOfTheWinner, AbsentRow
  <1> QED BY <1>1, <1>4, <1>5 DEF Inv

\* For any number of workers, invoices, failures and restarts: an I2 through
\* both doors is posted once (checkout.rs, manual_slatepack), an invoice is
\* paid by its own slate only when that was posted, and settle_finalized tells
\* the store once, of the slate that won.
THEOREM Grin1Safe == Spec => [](PostedOnce /\ PaidByPosted /\ ToldOfTheWinner)
  <1>1. Inv /\ [Next]_vars => Inv'
    BY ShapeInductive, ArmedStep, UsedOnceStep, SettledStep, SafeStep DEF Inv, Safe
  <1>2. Inv => PostedOnce /\ PaidByPosted /\ ToldOfTheWinner
    BY DEF Inv, Safe
  <1> QED BY <1>1, <1>2, InitInv, PTL DEF Spec

\* An invoice's own slate pays it only when the transaction went out: what a
\* merchant reads as paid by this rail is on its way to the chain.
THEOREM PaidIsPosted == Spec => []PaidByPosted
  BY Grin1Safe, PTL

-----------------------------------------------------------------------------
(* One invoice, one slate.                                                 *)

\* A fresh context goes to one invoice: `issue` draws an unused slate id.
OneSlate ==
    /\ \A i \in Invoice : slateOf[i] # NULL => context[slateOf[i]] # "none"
    /\ \A w \in Worker : request[w].pc = "attach" =>
         /\ context[request[w].slate] # "none"
         /\ \A i \in Invoice : slateOf[i] # request[w].slate
    /\ \A v, w \in Worker :
         (v # w /\ request[v].pc = "attach" /\ request[w].pc = "attach")
         => request[v].slate # request[w].slate
    /\ \A i, j \in Invoice : slateOf[i] # NULL /\ slateOf[i] = slateOf[j] => i = j

\* A context that exists is never drawn again, and comes from one request.
LEMMA ContextDrawn ==
    ASSUME Shape, [Next]_vars
    PROVE  /\ \A s \in Issuable : /\ context[s] # "none" => context'[s] # "none"
                                  /\ context[s] \in {"finalized", "cancelled"}
                                       => context'[s] \in {"finalized", "cancelled"}
           /\ \A s \in Issuable : context[s] = "none" /\ context'[s] # "none" =>
                \E w \in Worker : Issue(w, s)
  <1> DEFINE Goal == \A s \in Issuable :
                       /\ context[s] # "none" => context'[s] # "none"
                       /\ context[s] \in {"finalized", "cancelled"}
                            => context'[s] \in {"finalized", "cancelled"}
                       /\ context[s] = "none" /\ context'[s] # "none" =>
                            \E w \in Worker : Issue(w, s)
  <1>0. context \in [Issuable -> Context] /\ sweep.work \subseteq Invoice
        /\ \A i \in sweep.work : slateOf[i] \in Issuable
    BY DEF Shape, TypeOK, SweepShape, Sweep
  <1>1. ASSUME NEW w \in Worker, NEW t \in Issuable, Issue(w, t)
        PROVE  Goal
    BY <1>0, <1>1 DEF Issue
  <1>2. ASSUME NEW w \in Worker, Finalize(w)
        PROVE  Goal
    BY <1>0, <1>2 DEF Finalize, ContextUsed
  <1>3. ASSUME NEW i \in Invoice, SweepCancel(i)
        PROVE  Goal
    BY <1>0, <1>3 DEF SweepCancel
  <1>4. CASE UNCHANGED context
    BY <1>4
  <1>5. \/ \E w \in Worker, t \in Issuable : Issue(w, t)
        \/ \E w \in Worker : Finalize(w)
        \/ \E i \in Invoice : SweepCancel(i)
        \/ UNCHANGED context
    BY DEF Next, RequestStep, vars, Attach, Create, OnionI2, PasteI2, Post, PostFails,
        Notify, Lookup, Insert, Pay, ArmFails, StatementFails, SweepRead, SweepExpire,
        SweepExpireFails, SweepCancelFails, View, PlainPayment, PollConfirms, Crash, Tick
  <1> QED BY <1>1, <1>2, <1>3, <1>4, <1>5

\* A request that is to attach a slate waited before, or has just drawn it.
LEMMA AttachingSteps ==
    ASSUME Shape, [Next]_vars, NEW w \in Worker, request'[w].pc = "attach"
    PROVE  \/ request'[w] = request[w]
           \/ /\ Issue(w, request'[w].slate) /\ request'[w].slate \in Issuable
              /\ \A v \in Worker \ {w} : request'[v] = request[v]
  <1>0. request \in [Worker -> Request] /\ Idle.pc # "attach"
    BY DEF Shape, TypeOK, Idle
  <1>f. ASSUME NEW v \in Worker, Finish(v) \/ UNCHANGED request
        PROVE  request'[w] = request[w]
    BY <1>0, <1>f DEF Finish
  <1>g. ASSUME NEW v \in Worker, NEW pc \in Using, Goto(v, pc)
        PROVE  request'[w] = request[w]
    BY <1>0, <1>g DEF Goto, Using, Request
  <1>1. ASSUME NEW v \in Worker, NEW i \in Invoice, NEW p \in Offers, Create(v, i, p)
        PROVE  request'[w] = request[w]
    <2>1. CASE request' = [request EXCEPT ![v] = [Idle EXCEPT !.pc = "issue", !.invoice = i]]
      BY <1>0, <2>1 DEF Idle
    <2> QED BY <1>1, <1>f, <2>1 DEF Create
  <1>2. ASSUME NEW v \in Worker, NEW i \in Invoice, OnionI2(v, i) \/ PasteI2(v, i)
        PROVE  request'[w] = request[w]
    <2>1. ASSUME NEW onion \in BOOLEAN, Begin(v, i, onion)
          PROVE  request'[w] = request[w]
      BY <1>0, <2>1 DEF Begin
    <2> QED BY <1>2, <1>f, <2>1 DEF OnionI2, PasteI2
  <1>3. ASSUME NEW v \in Worker, NEW s \in Issuable, Issue(v, s)
        PROVE  \/ request'[w] = request[w]
               \/ /\ Issue(w, request'[w].slate) /\ request'[w].slate \in Issuable
                  /\ \A u \in Worker \ {w} : request'[u] = request[u]
    <2>1. request' = [request EXCEPT ![v].pc = "attach", ![v].slate = s]
      BY <1>3 DEF Issue
    <2>2. CASE v = w
      <3>1. request'[w].slate = s
        BY <1>0, <2>1, <2>2 DEF Request
      <3>2. \A u \in Worker \ {w} : request'[u] = request[u]
        BY <1>0, <2>1, <2>2
      <3> QED BY <1>3, <2>2, <3>1, <3>2
    <2>3. CASE v # w
      BY <1>0, <2>1, <2>3
    <2> QED BY <2>2, <2>3
  <1>4. ASSUME NEW v \in Worker, Lookup(v)
        PROVE  request'[w] = request[w]
    <2>1. ASSUME NEW i \in Invoice,
                 request' = [request EXCEPT ![v].pc = "insert", ![v].invoice = i]
          PROVE  request'[w] = request[w]
      BY <1>0, <2>1 DEF Request
    <2> QED BY <1>4, <1>f, <2>1 DEF Lookup
  <1>5. ASSUME NEW v \in Worker,
               \/ Attach(v) \/ Finalize(v) \/ Post(v) \/ Insert(v) \/ Pay(v) \/ Notify(v)
               \/ ArmFails(v) \/ PostFails(v) \/ StatementFails(v)
        PROVE  request'[w] = request[w]
    BY <1>5, <1>f, <1>g
    DEF Attach, Finalize, Post, Insert, Pay, Notify, ArmFails, PostFails, StatementFails,
        AfterPostError, AfterMarkPaid, Using
  <1>6. CASE UNCHANGED request
    BY <1>f, <1>6
  <1>7. ~Crash
    BY <1>0 DEF Crash
  <1> QED BY <1>1, <1>2, <1>3, <1>4, <1>5, <1>6, <1>7
          DEF Next, RequestStep, vars, SweepRead, SweepExpire, SweepExpireFails,
              SweepCancel, SweepCancelFails, View, PlainPayment, PollConfirms, Tick

LEMMA OneSlateStep ==
    ASSUME Shape, Armed, OneSlate, [Next]_vars
    PROVE  OneSlate'
  <1>0. /\ NULL \notin Issuable /\ slateOf \in [Invoice -> Issuable \cup {NULL}]
        /\ \A w \in Worker : request[w].pc = "attach" =>
             request[w].slate \in Issuable /\ request[w].invoice \in Invoice
    BY TableAssumption, Grin1Assumption DEF Shape, TypeOK, RequestShape, LocalShape
  <1>1. ASSUME NEW w \in Worker, Attaches(w)
        PROVE  /\ request[w].pc = "attach" /\ request'[w].pc # "attach"
               /\ \A i \in Invoice : slateOf'[i] = slateOf[i]
                                     \/ (i = request[w].invoice /\ slateOf'[i] = request[w].slate)
    BY <1>0, <1>1 DEF Attaches, Attach, At, Finish, Idle, Shape, TypeOK
  <1>2. ASSUME NEW i \in Invoice, slateOf'[i] # NULL
        PROVE  /\ slateOf'[i] \in Issuable /\ context[slateOf'[i]] # "none"
               /\ \/ slateOf'[i] = slateOf[i]
                  \/ \E w \in Worker : /\ request[w].pc = "attach" /\ request'[w].pc # "attach"
                                       /\ i = request[w].invoice
                                       /\ slateOf'[i] = request[w].slate
                                       /\ \A k \in Invoice \ {i} : slateOf'[k] = slateOf[k]
    BY <1>0, <1>1, <1>2, SlateOfSteps DEF OneSlate
  <1>3. ASSUME NEW w \in Worker, request'[w].pc = "attach"
        PROVE  /\ context'[request'[w].slate] # "none"
               /\ \A i \in Invoice : slateOf'[i] # request'[w].slate
    <2>1. CASE request'[w] = request[w]
      <3>1. request[w].pc = "attach" /\ request[w].slate \in Issuable
        BY <1>0, <1>3, <2>1
      <3>2. context'[request[w].slate] # "none"
        BY <3>1, ContextDrawn DEF OneSlate
      <3>3. ASSUME NEW i \in Invoice PROVE slateOf'[i] # request[w].slate
        BY <1>0, <1>2, <1>3, <3>1 DEF OneSlate
      <3> QED BY <2>1, <3>2, <3>3
    <2>2. CASE Issue(w, request'[w].slate) /\ request'[w].slate \in Issuable
      <3>1. context[request'[w].slate] = "none" /\ context'[request'[w].slate] # "none"
        BY <2>2 DEF Issue, Shape, TypeOK
      <3> QED BY <1>0, <1>2, <2>2, <3>1
    <2> QED BY <1>3, <2>1, <2>2, AttachingSteps
  <1>4. ASSUME NEW v \in Worker, NEW w \in Worker, v # w,
               request'[v].pc = "attach", request'[w].pc = "attach"
        PROVE  request'[v].slate # request'[w].slate
    <2>1. CASE request'[v] = request[v] /\ request'[w] = request[w]
      BY <1>4, <2>1 DEF OneSlate
    <2>2. ASSUME NEW a \in Worker, NEW b \in Worker, request'[a].pc = "attach",
                 request'[b] = request[b], request[b].pc = "attach", Issue(a, request'[a].slate)
          PROVE  request'[a].slate # request'[b].slate
      BY <2>2 DEF Issue, OneSlate
    <2> QED BY <1>4, <2>1, <2>2, AttachingSteps
  <1>5. ASSUME NEW i \in Invoice, NEW j \in Invoice, slateOf'[i] # NULL, slateOf'[i] = slateOf'[j]
        PROVE  i = j
    BY <1>0, <1>2, <1>5 DEF OneSlate
  <1>6. ASSUME NEW i \in Invoice, slateOf'[i] # NULL
        PROVE  context'[slateOf'[i]] # "none"
    BY <1>2, <1>6, ContextDrawn
  <1> QED BY <1>3, <1>4, <1>5, <1>6 DEF OneSlate

-----------------------------------------------------------------------------
(* The sweep.                                                              *)

\* The row the sweep is about to expire has lost its context already.
CancelledFirst ==
    sweep.pc = "expire" =>
        /\ slateOf[sweep.target] \in Issuable
        /\ context[slateOf[sweep.target]] \in {"finalized", "cancelled"}

LEMMA NextDueRests == \A W : NextDue(W).pc # "expire"
  BY DEF NextDue, Asleep

LEMMA CancelledFirstStep ==
    ASSUME Shape, Armed, OneSlate, CancelledFirst, [Next]_vars
    PROVE  CancelledFirst'
  <1>0. NULL \notin Issuable /\ context \in [Issuable -> Context]
    BY TableAssumption, Grin1Assumption DEF Shape, TypeOK
  <1>1. CASE UNCHANGED sweep
    <2> SUFFICES ASSUME sweep.pc = "expire"
                 PROVE  /\ slateOf'[sweep.target] \in Issuable
                        /\ context'[slateOf'[sweep.target]] \in {"finalized", "cancelled"}
      BY <1>1 DEF CancelledFirst
    <2>1. sweep.target \in Invoice /\ slateOf[sweep.target] \in Issuable
      BY DEF CancelledFirst, Shape, SweepShape
    <2>2. slateOf'[sweep.target] = slateOf[sweep.target]
      BY <1>0, <2>1, SlateOfStands
    <2> QED BY <2>1, <2>2, ContextDrawn DEF CancelledFirst
  <1>2. ASSUME NEW i \in Invoice, SweepCancel(i)
        PROVE  CancelledFirst'
    <2>1. slateOf[i] \in Issuable /\ context[slateOf[i]] # "none" /\ UNCHANGED slateOf
      BY <1>0, <1>2 DEF SweepCancel, tables, Shape, SweepShape, OneSlate
    <2>2. context'[slateOf[i]] \in {"finalized", "cancelled"}
      BY <1>0, <1>2, <2>1 DEF SweepCancel, Context
    <2>3. sweep'.pc = "expire" => sweep'.target = i
      BY <1>2, NextDueRests DEF SweepCancel
    <2> QED BY <2>1, <2>2, <2>3 DEF CancelledFirst
  <1>3. CASE sweep' = Asleep \/ \E W : sweep' = NextDue(W)
    BY <1>3, NextDueRests DEF Asleep, CancelledFirst
  <1> QED BY <1>1, <1>2, <1>3
          DEF Next, RequestStep, vars, Attach, Create, OnionI2, PasteI2, Issue, Finalize,
              Post, PostFails, Notify, Lookup, Insert, Pay, ArmFails, StatementFails,
              SweepRead, SweepExpire, SweepExpireFails, SweepCancelFails, CancelRefused,
              View, PlainPayment, PollConfirms, Crash, Tick

\* What the rail keeps, and what its sweep and its invoices rest on.
Kept == Inv /\ OneSlate /\ CancelledFirst

LEMMA KeptStep == Kept /\ [Next]_vars => Kept'
  <1>1. Inv /\ [Next]_vars => Inv'
    BY ShapeInductive, ArmedStep, UsedOnceStep, SettledStep, SafeStep DEF Inv, Safe
  <1> QED BY <1>1, OneSlateStep, CancelledFirstStep DEF Kept, Inv

LEMMA InitKept == Init => Kept
  <1> SUFFICES ASSUME Init PROVE Kept
    OBVIOUS
  <1>1. OneSlate /\ CancelledFirst
    BY DEF Init, Idle, Asleep, OneSlate, CancelledFirst
  <1> QED BY <1>1, InitInv DEF Kept

\* "only expire the invoice once its context is gone" (spawn_expiry_cancel):
\* the sweep reads the due rows, cancels one and expires it in three steps, and
\* no step of others in between makes its slate finalizable again.
THEOREM SweepCancelsFirst == Spec => SweptIsCancelled
  <1>1. ASSUME Kept, [Next]_vars
        PROVE  [\A i \in Invoice :
                  (invoice[i].status = "open" /\ invoice'[i].status = "expired"
                   /\ sweep' # sweep) => ~Finalizable(i)]_vars
    <2> SUFFICES ASSUME NEW i \in Invoice, invoice[i].status = "open",
                        invoice'[i].status = "expired", sweep' # sweep
                 PROVE  ~Finalizable(i)
      OBVIOUS
    <2>1. SweepExpire
      BY <1>1 DEF Next, RequestStep, vars, tables, Attach, Create, OnionI2, PasteI2, Issue, Finalize,
             Post, PostFails, Notify, Lookup, Insert, Pay, ArmFails, StatementFails,
             SweepRead, SweepExpireFails, SweepCancel, SweepCancelFails,
             View, PlainPayment, PollConfirms, Crash, Tick
    <2>2. sweep.pc = "expire" /\ sweep.target \in Invoice /\ invoice \in [Invoice -> Row]
      BY <1>1, <2>1 DEF SweepExpire, Kept, Inv, Shape, SweepShape, TypeOK
    <2>3. i = sweep.target
      BY <2>1, <2>2 DEF SweepExpire, MarkExpired
    <2> QED BY <1>1, <2>2, <2>3 DEF Kept, CancelledFirst, Finalizable
  <1> QED BY <1>1, InitKept, KeptStep, PTL DEF Spec, SweptIsCancelled

-----------------------------------------------------------------------------
(* The refinement.                                                         *)

\* A payment of another rail that settled an invoice has its row.
PlainOnce ==
    \A i \in Invoice : invoice[i].paidBy \in Plain => ledger[invoice[i].paidBy] # "absent"

\* A payment row is inserted once and stays.
LEMMA LedgerStands ==
    ASSUME Shape, [Next]_vars, NEW s \in Slate, ledger[s] # "absent"
    PROVE  ledger'[s] # "absent"
  <1>0. ledger \in [Slate -> Invoice \cup {"absent"}] /\ "absent" \notin Invoice
    BY Grin1Assumption DEF Shape, TypeOK
  <1>1. ASSUME NEW w \in Worker, Insert(w)
        PROVE  ledger'[s] # "absent"
    BY <1>0, <1>1 DEF Insert
  <1>2. ASSUME NEW i \in Invoice, NEW t \in Slate, PlainPayment(i, t)
        PROVE  ledger'[s] # "absent"
    BY <1>0, <1>2 DEF PlainPayment
  <1>3. CASE UNCHANGED ledger
    BY <1>3
  <1>4. \/ \E w \in Worker : Insert(w)
        \/ \E i \in Invoice, t \in Slate : PlainPayment(i, t)
        \/ UNCHANGED ledger
    BY DEF Next, RequestStep, vars, tables, Attach, Create, OnionI2, PasteI2, Issue, Finalize,
           Post, PostFails, Notify, Lookup, Pay, ArmFails, StatementFails, SweepRead,
           SweepExpire, SweepExpireFails, SweepCancel, SweepCancelFails, View,
           PollConfirms, Crash, Tick
  <1> QED BY <1>1, <1>2, <1>3, <1>4

LEMMA PlainOnceStep ==
    ASSUME Inv, PlainOnce, [Next]_vars
    PROVE  PlainOnce'
  <1> SUFFICES ASSUME NEW i \in Invoice, invoice'[i].paidBy \in Plain
               PROVE  ledger'[invoice'[i].paidBy] # "absent"
    BY DEF PlainOnce, Plain
  <1>1. CASE invoice'[i].paidBy = invoice[i].paidBy
    BY <1>1, LedgerStands DEF PlainOnce, Inv, Plain
  <1>2. ASSUME NEW w \in Worker, PaidHere(w, i)
        PROVE  FALSE
    BY <1>2 DEF PaidHere, Inv, Shape, RequestShape, LocalShape, Plain
  <1> QED BY <1>1, <1>2, RowSteps DEF RowStep, PlainHere, Inv

\* The statements on the invoice table, one row each.
Expires(i) == /\ invoice[i].status = "open"
              /\ invoice' = [invoice EXCEPT ![i].status = "expired"]
Opens(i) == /\ invoice[i].status = "absent"
            /\ \E p \in Offers, st \in {"open", "expired"} :
                 invoice' = [invoice EXCEPT ![i] = [Created(p, DefaultMode, now) EXCEPT !.status = st]]
Pays(i, s) == /\ invoice[i].status = "open"
              /\ invoice' = [invoice EXCEPT ![i] = [@ EXCEPT !.status = "paid", !.paidBy = s]]
              /\ \/ s \in Plain /\ ledger[s] = "absent"
                 \/ \E w \in Worker : /\ request[w].pc = "pay"
                                      /\ i = request[w].invoice /\ s = request[w].slate
Confirms(i) == /\ invoice[i].status = "paid"
               /\ invoice' = [invoice EXCEPT ![i].status = "confirmed"]

TableStep == \/ UNCHANGED invoice
             \/ \E i \in Invoice : \/ Expires(i) \/ Opens(i) \/ Confirms(i)
                                   \/ \E s \in Slate : Pays(i, s)

LEMMA ExpiryStep ==
    ASSUME NEW i \in Invoice, invoice' = ExpireIfDue(invoice, i, now)
    PROVE  TableStep
  BY DEF ExpireIfDue, TableStep, Expires

LEMMA TableSteps ==
    ASSUME Shape, [Next]_vars
    PROVE  TableStep
  <1>0. invoice \in [Invoice -> Row]
    BY DEF Shape, TypeOK
  <1>1. ASSUME NEW w \in Worker, NEW i \in Invoice, NEW p \in Offers, Create(w, i, p)
        PROVE  TableStep
    <2> DEFINE r == Created(p, DefaultMode, now)
               tab == [invoice EXCEPT ![i] = r]
    <2>1. invoice' = ExpireIfDue(tab, i, now) /\ invoice[i].status = "absent"
      BY <1>1 DEF Create
    <2>2. r = [r EXCEPT !.status = "open"]
      BY DEF Created
    <2>3. tab[i] = r
      BY <1>0
    <2>4. invoice' = tab \/ invoice' = [tab EXCEPT ![i].status = "expired"]
      BY <2>1 DEF ExpireIfDue
    <2>5. [tab EXCEPT ![i].status = "expired"]
            = [invoice EXCEPT ![i] = [r EXCEPT !.status = "expired"]]
      BY <2>3
    <2>6. \E st \in {"open", "expired"} :
            invoice' = [invoice EXCEPT ![i] = [r EXCEPT !.status = st]]
      BY <2>2, <2>4, <2>5
    <2> QED BY <2>1, <2>6 DEF TableStep, Opens
  <1>2. ASSUME NEW w \in Worker, Attach(w)
        PROVE  TableStep
    <2>1. request[w].invoice \in Invoice
      BY <1>2 DEF Attach, At, Shape, RequestShape, LocalShape
    <2> QED BY <1>2, <2>1, ExpiryStep DEF Attach
  <1>3. ASSUME NEW i \in Invoice, View(i) \/ \E w \in Worker : PasteI2(w, i)
        PROVE  TableStep
    BY <1>3, ExpiryStep DEF View, PasteI2
  <1>4. ASSUME NEW w \in Worker, Pay(w)
        PROVE  TableStep
    <2>1. /\ request[w].pc = "pay" /\ request[w].invoice \in Invoice
          /\ request[w].slate \in Slate
          /\ invoice' = MarkPaid(invoice, request[w].invoice, request[w].slate)
      BY <1>4, Grin1Assumption DEF Pay, At, Shape, RequestShape, LocalShape
    <2>2. PICK i \in Invoice, s \in Slate : i = request[w].invoice /\ s = request[w].slate
      BY <2>1
    <2>3. UNCHANGED invoice \/ Pays(i, s)
      BY <2>1, <2>2 DEF MarkPaid, Pays
    <2> QED BY <2>3 DEF TableStep
  <1>5. ASSUME NEW i \in Invoice, NEW s \in Slate, PlainPayment(i, s)
        PROVE  TableStep
    BY <1>5 DEF PlainPayment, MarkPaid, Pays, TableStep
  <1>6. CASE SweepExpire
    BY <1>6 DEF SweepExpire, MarkExpired, Expires, TableStep, Shape, SweepShape
  <1>7. ASSUME NEW s \in Slate, PollConfirms(s)
        PROVE  TableStep
    BY <1>7 DEF PollConfirms, MarkConfirmed, MayConfirm, Confirms, TableStep
  <1>8. CASE UNCHANGED invoice
    BY <1>8 DEF TableStep
  <1> QED BY <1>1, <1>2, <1>3, <1>4, <1>5, <1>6, <1>7, <1>8
          DEF Next, RequestStep, vars, tables, Issue, OnionI2, Finalize, Post, PostFails,
              Lookup, Insert, Notify, ArmFails, StatementFails, SweepRead, SweepExpireFails,
              SweepCancel, SweepCancelFails, Crash, Tick

\* A payment settles one invoice: a slate has one invoice, a row one link.
LEMMA PaysOnce ==
    ASSUME Kept, PlainOnce, NEW i \in Invoice, NEW s \in Slate, Pays(i, s), NEW j \in Invoice
    PROVE  invoice[j].paidBy # s
  <1>1. CASE s \in Plain /\ ledger[s] = "absent"
    BY <1>1 DEF PlainOnce
  <1>2. ASSUME NEW w \in Worker, request[w].pc = "pay", i = request[w].invoice,
               s = request[w].slate, invoice[j].paidBy = s
        PROVE  FALSE
    <2>1. s \in Issuable /\ s # NULL /\ slateOf[i] = s
      BY <1>2, TableAssumption, Grin1Assumption
      DEF Kept, Inv, Shape, RequestShape, LocalShape, Settled, Settling
    <2>2. slateOf[j] = s
      BY <1>2, <2>1 DEF Kept, Inv, Safe, PaidByPosted
    <2>3. j = i
      BY <2>1, <2>2 DEF Kept, OneSlate
    <2>4. invoice[i].paidBy = NULL
      BY DEF Pays, Kept, Inv, Settled, Unsettled
    <2> QED BY <1>2, <2>1, <2>3, <2>4
  <1> QED BY <1>1, <1>2 DEF Pays

LEMMA LifecycleStep ==
    ASSUME Kept, PlainOnce, [Next]_vars
    PROVE  [Lifecycle!Next]_(Lifecycle!vars)
  <1>0. invoice \in [Invoice -> Row] /\ Shape
    BY DEF Kept, Inv, Shape, TypeOK
  <1>1. CASE UNCHANGED invoice
    BY <1>1 DEF Lifecycle!vars
  <1>2. ASSUME NEW i \in Invoice, Expires(i)
        PROVE  Lifecycle!Next
    <2>1. Lifecycle!Expire(i)
      BY <1>0, <1>2 DEF Expires, Lifecycle!Expire, Row
    <2> QED BY <2>1 DEF Lifecycle!Next
  <1>3. ASSUME NEW i \in Invoice, Opens(i)
        PROVE  Lifecycle!Next
    <2>1. PICK p \in Offers, st \in {"open", "expired"} :
            invoice' = [invoice EXCEPT ![i] = [Created(p, DefaultMode, now) EXCEPT !.status = st]]
      BY <1>3 DEF Opens
    <2>2. invoice[i].paidBy = NULL
      BY <1>3 DEF Opens, Kept, Inv, Settled, Unsettled
    <2> DEFINE r == [Created(p, DefaultMode, now) EXCEPT !.status = st]
               a == IF p.expected = NULL THEN NULL ELSE "asked"
    <2>3. r.status = st /\ r.expected = p.expected /\ r.paidBy = NULL
      BY DEF Created
    <2> HIDE DEF r
    <2>4. invoice' = [invoice EXCEPT ![i] = r]
      BY <2>1 DEF r
    <2>5. Lifecycle!Open(i, a)
      BY <1>0, <1>3, <2>2, <2>3, <2>4 DEF Opens, Lifecycle!Open
    <2>6. a \in {"asked"} \cup {NULL}
      OBVIOUS
    <2> QED BY <2>5, <2>6 DEF Lifecycle!Next
  <1>4. ASSUME NEW i \in Invoice, NEW s \in Slate, Pays(i, s)
        PROVE  Lifecycle!Next
    <2>1. \A j \in Invoice : invoice[j].paidBy # s
      BY <1>4, PaysOnce
    <2>2. invoice' = [invoice EXCEPT ![i] = [invoice[i] EXCEPT !.status = "paid", !.paidBy = s]]
      BY <1>4 DEF Pays
    <2> DEFINE r == [invoice[i] EXCEPT !.status = "paid", !.paidBy = s]
    <2>3. r.status = "paid" /\ r.paidBy = s /\ r.expected = invoice[i].expected
      BY <1>0 DEF Row
    <2>4. invoice' = [invoice EXCEPT ![i] = r]
      BY <2>2
    <2> HIDE DEF r
    <2>5. /\ \A j \in Invoice \ {i} : invoice'[j] = invoice[j]
          /\ invoice'[i] = r
      BY <1>0, <2>4
    <2>6. [j \in Invoice |-> invoice'[j].status]
            = [[j \in Invoice |-> invoice[j].status] EXCEPT ![i] = "paid"]
      BY <2>3, <2>5
    <2>7. [j \in Invoice |-> invoice'[j].paidBy]
            = [[j \in Invoice |-> invoice[j].paidBy] EXCEPT ![i] = s]
      BY <2>3, <2>5
    <2>8. [j \in Invoice |-> IF invoice'[j].expected = NULL THEN NULL ELSE "asked"]
            = [j \in Invoice |-> IF invoice[j].expected = NULL THEN NULL ELSE "asked"]
      BY <2>3, <2>5
    <2>9. invoice[i].status = "open"
      BY <1>4 DEF Pays
    <2>10. Lifecycle!Pay(i, s)
      BY <2>1, <2>6, <2>7, <2>8, <2>9 DEF Lifecycle!Pay
    <2> QED BY <2>10 DEF Lifecycle!Next
  <1>5. ASSUME NEW i \in Invoice, Confirms(i)
        PROVE  Lifecycle!Next
    <2>1. Lifecycle!Confirm(i)
      BY <1>0, <1>5 DEF Confirms, Lifecycle!Confirm, Row
    <2> QED BY <2>1 DEF Lifecycle!Next
  <1> QED BY <1>0, <1>1, <1>2, <1>3, <1>4, <1>5, TableSteps DEF TableStep

\* Two doors for the same answer, a sweep, lazy expiry, the other rails and
\* restarts together: an invoice is still opened once, paid once by one payment
\* that pays nothing else, confirmed last and never re-opened.
THEOREM RailKeepsThePromise == Spec => ImplementsLifecycle
  <1>1. Kept /\ PlainOnce /\ [Next]_vars
          => (Kept /\ PlainOnce)' /\ [Lifecycle!Next]_(Lifecycle!vars)
    BY KeptStep, PlainOnceStep, LifecycleStep DEF Kept
  <1>2. Init => PlainOnce /\ Lifecycle!Init
    <2>1. NULL \notin Plain
      BY TableAssumption DEF Plain
    <2> QED BY <2>1 DEF Init, AbsentRow, PlainOnce, Lifecycle!Init
  <1> QED BY <1>1, <1>2, InitKept, PTL DEF Spec, ImplementsLifecycle, Lifecycle!Spec

=============================================================================
