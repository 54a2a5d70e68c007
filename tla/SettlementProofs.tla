-------------------------- MODULE SettlementProofs --------------------------
(***************************************************************************)
(* Theorems about Settlement, for every value of its constants: the types, *)
(* the inductive invariant of the money path, and the safety theorems that *)
(* follow from it.                                                         *)
(***************************************************************************)
EXTENDS SettlementProperties, InvoiceTableProofs

BusyPC == {"insert", "derived", "memo", "amount", "delete", "paid", "link",
           "notify", "reply", "mark", "remark"}

\* A handler holds a slate exactly while it works on one, and only the Nostr
\* loop reconciles.
LocalShape(w, h) ==
    /\ h.pc \in BusyPC <=> h.slate \in Slate
    /\ h.pc = "paid" => h.inv \in Invoice
    /\ h.pc \in {"boot", "resend", "remark"} => w = NostrLoop

HandlerShape == \A w \in Handler : LocalShape(w, handler[w])

\* The poll holds a work item exactly while it writes one down.
PollShape ==
    /\ poll.pc \in {"update", "finalize", "notify"} => poll.slate \in Slate
    /\ poll.pc \in {"finalize", "notify"} => poll.inv \in Invoice

Shape == TypeOK /\ HandlerShape /\ PollShape

-----------------------------------------------------------------------------

LEMMA WatchSetTyped == WatchSet(invoices) \subseteq Key
  BY DEF WatchSet, Key, RecipientOf, OpenInMode

LEMMA IdleTyped ==
    /\ Idle \in HandlerState
    /\ \A pc \in {"idle", "boot", "resend"} : [Idle EXCEPT !.pc = pc] \in HandlerState
    /\ AllIdle \in [Handler -> HandlerState]
    /\ Idle.slate \notin Slate
  BY TableAssumption DEF Idle, HandlerState, AllIdle

LEMMA InitShape == Init => Shape
  <1> SUFFICES ASSUME Init PROVE Shape
    OBVIOUS
  <1>1. TypeOK
    BY IdleTyped, SettlementAssumption, TableAssumption
    DEF Init, TypeOK, Row, Payment, AbsentRow, AbsentPayment, PollState, IdlePoll
  <1>2. HandlerShape
    BY TableAssumption DEF Init, HandlerShape, LocalShape, AllIdle, Idle, BusyPC, Handler
  <1>3. PollShape
    BY DEF Init, PollShape, IdlePoll
  <1> QED BY <1>1, <1>2, <1>3 DEF Shape

LEMMA IdleShape ==
    /\ \A w \in Handler : LocalShape(w, Idle) /\ LocalShape(w, AllIdle[w])
    /\ \A pc \in {"boot", "resend"} : LocalShape(NostrLoop, [Idle EXCEPT !.pc = pc])
  BY TableAssumption DEF Idle, AllIdle, LocalShape, BusyPC

\* One handler moves to a well-formed state: the others are as they were.
LEMMA HandlerMove ==
    ASSUME HandlerShape, handler \in [Handler -> HandlerState],
           NEW w \in Handler, NEW h \in HandlerState, LocalShape(w, h),
           handler' = [handler EXCEPT ![w] = h]
    PROVE  handler' \in [Handler -> HandlerState] /\ HandlerShape'
  BY DEF HandlerShape, LocalShape

\* A busy handler moves on with its slate.
LEMMA HandlerGoto ==
    ASSUME HandlerShape, handler \in [Handler -> HandlerState],
           NEW w \in Handler, handler[w].pc \in BusyPC,
           NEW pc \in BusyPC \ {"paid", "remark"}, Goto(w, pc)
    PROVE  handler' \in [Handler -> HandlerState] /\ HandlerShape'
  <1> DEFINE h == [handler[w] EXCEPT !.pc = pc]
  <1>1. h \in HandlerState
    BY DEF HandlerState, BusyPC
  <1>2. LocalShape(w, h)
    BY DEF HandlerShape, LocalShape, HandlerState, BusyPC
  <1>3. handler' = [handler EXCEPT ![w] = h]
    BY DEF Goto
  <1> QED BY <1>1, <1>2, <1>3, HandlerMove

LEMMA RequestKeepsShape ==
    ASSUME Shape, Request
    PROVE  Shape'
  <1> USE DEF Shape
  <1>1. ASSUME NEW i \in Invoice, ViewInvoice(i)
        PROVE  Shape'
    BY <1>1, RowUpdatesTyped DEF ViewInvoice, TypeOK, HandlerShape, PollShape, world, history
  <1>2. ASSUME NEW i \in Invoice, NEW p \in Offers, CreateInvoice(i, p)
        PROVE  Shape'
    <2>1. [invoices EXCEPT ![i] = Created(p, DefaultMode, now)] \in [Invoice -> Row]
      BY CreatedTyped, SettlementAssumption DEF TypeOK
    <2>2. invoices' \in [Invoice -> Row]
      BY <1>2, <2>1, RowUpdatesTyped DEF CreateInvoice, TypeOK
    <2> QED BY <1>2, <2>2 DEF CreateInvoice, TypeOK, HandlerShape, PollShape, world, history
  <1>3. ASSUME NEW w \in Handler, NEW rail \in {"nostr", "paste", "foreign"},
               NEW s \in Slate, NEW key \in Key \cup {NULL}, NEW memo \in Ref \cup {NULL},
               Receive(w, rail, s, key, memo), invoices' \in [Invoice -> Row]
        PROVE  Shape'
    <2> DEFINE h == [pc |-> "insert", rail |-> rail, slate |-> s,
                     key |-> key, memo |-> memo, inv |-> NULL]
    <2>1. h \in HandlerState /\ LocalShape(w, h)
      BY DEF HandlerState, LocalShape, BusyPC
    <2>2. handler' \in [Handler -> HandlerState] /\ HandlerShape'
      BY <1>3, <2>1, HandlerMove DEF Receive, TypeOK
    <2>3. wallet' \subseteq Slate
      BY <1>3 DEF Receive, TypeOK
    <2> QED BY <1>3, <2>2, <2>3 DEF Receive, TypeOK, PollShape, world, history
  <1>4. ASSUME NEW s \in Slate, NEW key \in Key, NEW memo \in Ref \cup {NULL},
               ReceiveNostr(s, key, memo)
        PROVE  Shape'
    BY <1>3, <1>4 DEF ReceiveNostr, Handler, TypeOK
  <1>5. ASSUME NEW s \in Slate, NEW w \in HttpWorkers, ReceiveForeign(w, s)
        PROVE  Shape'
    BY <1>3, <1>5 DEF ReceiveForeign, Handler, TypeOK
  <1>6. ASSUME NEW s \in Slate, NEW w \in HttpWorkers, NEW i \in Invoice,
               ReceivePaste(w, s, i)
        PROVE  Shape'
    <2>1. RecipientOf(invoices, i) \in Key \cup {NULL}
      BY DEF RecipientOf, Key
    <2>2. invoices[i].ref \in Ref \cup {NULL}
      BY DEF TypeOK, Row
    <2>3. invoices' \in [Invoice -> Row]
      BY <1>6, RowUpdatesTyped DEF ReceivePaste, TypeOK
    <2> QED BY <1>3, <1>6, <2>1, <2>2, <2>3 DEF ReceivePaste, Handler
  <1> QED BY <1>1, <1>2, <1>4, <1>5, <1>6 DEF Request

LEMMA EnvironmentKeepsShape ==
    ASSUME Shape, Environment
    PROVE  Shape'
  <1> USE DEF Shape
  <1>1. CASE Tick
    BY <1>1 DEF Tick, TypeOK, HandlerShape, PollShape, db, history
  <1>2. CASE RefreshDirectory
    BY <1>2, WatchSetTyped
    DEF RefreshDirectory, TypeOK, HandlerShape, PollShape, db, world, history
  <1>3. ASSUME NEW S \in SUBSET Slate, Block(S)
        PROVE  Shape'
    <2>1. depth' \in [Slate -> 0..Required]
      <3> SUFFICES ASSUME NEW s \in S \cup Shallow
                   PROVE  depth[s] + 1 \in 0..Required
        BY <1>3 DEF Block, TypeOK, Shallow
      <3>1. depth[s] \in 0..(Required - 1)
        BY <1>3, SettlementAssumption DEF Block, Shallow, TypeOK
      <3> QED BY <3>1, SettlementAssumption
    <2>2. poll' \in PollState /\ PollShape'
      <3>1. poll'.pc = poll.pc /\ poll'.slate = poll.slate /\ poll'.inv = poll.inv
        BY <1>3 DEF Block, TypeOK, PollState
      <3>2. poll' \in PollState
        BY <1>3 DEF Block, TypeOK, PollState
      <3> QED BY <3>1, <3>2 DEF PollShape
    <2> QED BY <1>3, <2>1, <2>2 DEF Block, TypeOK, HandlerShape, db, history
  <1> QED BY <1>1, <1>2, <1>3 DEF Environment

LEMMA NewRowTyped ==
    ASSUME Shape, NEW w \in Handler, handler[w].slate \in Slate
    PROVE  Inserted(handler[w]) \in Payment
  <1>1. NewRow(handler[w]) \in Payment
    <2>1. handler[w].key \in Key \cup {NULL}
      BY DEF Shape, TypeOK, HandlerState
    <2>2. \A b \in BOOLEAN, k \in Key \cup {NULL} :
            [status |-> "received", payer |-> b, key |-> k,
             inv |-> NULL, conf |-> 0] \in Payment
      BY SettlementAssumption DEF Payment
    <2>3. (handler[w].rail = "nostr") \in BOOLEAN
      OBVIOUS
    <2> QED BY <2>1, <2>2, <2>3, Zenon DEF NewRow
  <1>2. payments[handler[w].slate] \in Payment
    BY DEF Shape, TypeOK
  <1> QED BY <1>1, <1>2 DEF Inserted

LEMMA RowsTyped ==
    ASSUME Shape, NEW s \in Slate
    PROVE  /\ AbsentPayment \in Payment
           /\ [payments[s] EXCEPT !.status = "replied"] \in Payment
           /\ \A i \in Invoice \cup {NULL} : [payments[s] EXCEPT !.inv = i] \in Payment
           /\ OnChain(payments[s], poll.conf) \in Payment
  <1>1. AbsentPayment \in Payment
    BY SettlementAssumption DEF AbsentPayment, Payment
  <1>2. payments[s] \in Payment /\ poll.conf \in 0..Required
    BY DEF Shape, TypeOK, PollState
  <1> QED BY <1>1, <1>2 DEF Payment, OnChain

LEMMA HandlerStepKeepsShape ==
    ASSUME Shape, NEW w \in Handler, HandlerStep(w)
    PROVE  Shape'
  <1> USE DEF Shape
  <1> DEFINE s == handler[w].slate
  <1> handler \in [Handler -> HandlerState] /\ handler[w] \in HandlerState
    BY DEF TypeOK
  <1>a. ASSUME handler[w].pc \in BusyPC
        PROVE  s \in Slate
    BY <1>a DEF HandlerShape, LocalShape
  <1>b. ASSUME handler' = [handler EXCEPT ![w] = Idle]
        PROVE  handler' \in [Handler -> HandlerState] /\ HandlerShape'
    BY <1>b, HandlerMove, IdleTyped, IdleShape
  <1>1. CASE InsertPayment(w)
    <2>1. payments' \in [Slate -> Payment]
      BY <1>1, <1>a, NewRowTyped DEF InsertPayment, At, BusyPC, TypeOK
    <2>2. handler' \in [Handler -> HandlerState] /\ HandlerShape'
      BY <1>1, HandlerGoto DEF InsertPayment, At, BusyPC
    <2> QED BY <1>1, <2>1, <2>2 DEF InsertPayment, TypeOK, PollShape, world, history
  <1>2. ASSUME NEW hits \in SUBSET Invoice, NEW otherwise \in {"memo", "amount", "link"},
               handler[w].pc \in BusyPC, Resolve(w, hits, otherwise)
        PROVE  Shape'
    <2>1. handler' \in [Handler -> HandlerState] /\ HandlerShape'
      <3>1. CASE Goto(w, otherwise)
        BY <1>2, <3>1, HandlerGoto DEF BusyPC
      <3>2. CASE Goto(w, "delete")
        BY <1>2, <3>2, HandlerGoto DEF BusyPC
      <3>3. ASSUME NEW i \in Invoice,
                   handler' = [handler EXCEPT ![w].pc = "paid", ![w].inv = i]
            PROVE  handler' \in [Handler -> HandlerState] /\ HandlerShape'
        <4> DEFINE h == [handler[w] EXCEPT !.pc = "paid", !.inv = i]
        <4>1. h \in HandlerState
          BY DEF HandlerState
        <4>2. LocalShape(w, h)
          BY <1>2, <1>a DEF LocalShape, HandlerState, BusyPC
        <4>3. handler' = [handler EXCEPT ![w] = h]
          BY <3>3
        <4> QED BY <4>1, <4>2, <4>3, HandlerMove
      <3> QED BY <1>2, <3>1, <3>2, <3>3 DEF Resolve, Resolved, Refuse
    <2>2. rejected' \subseteq Slate
      BY <1>2, <1>a DEF Resolve, Resolved, Refuse, TypeOK
    <2> QED BY <1>2, <2>1, <2>2 DEF Resolve, TypeOK, PollShape, db, world
  <1>3. CASE ResolveDerived(w)
    BY <1>2, <1>3 DEF ResolveDerived, At, BusyPC, DerivedHits, Oldest, OpenInMode
  <1>4. CASE ResolveMemo(w)
    BY <1>2, <1>4 DEF ResolveMemo, At, BusyPC, MemoHits, Oldest, OpenInMode
  <1>5. CASE ResolveAmount(w)
    BY <1>2, <1>5 DEF ResolveAmount, At, BusyPC, AmountHits, Oldest, OpenInMode
  <1>6. CASE DeleteRejected(w)
    <2>1. s \in Slate
      BY <1>6, <1>a DEF DeleteRejected, At, BusyPC
    <2>2. payments' \in [Slate -> Payment]
      BY <1>6, <2>1, RowsTyped DEF DeleteRejected, TypeOK
    <2>3. CASE handler' = [handler EXCEPT ![w].pc = "reply"]
      BY <1>6, <2>2, <2>3, HandlerGoto
      DEF DeleteRejected, At, BusyPC, Goto, TypeOK, PollShape, world, history
    <2>4. CASE handler' = [handler EXCEPT ![w] = Idle]
      BY <1>6, <1>b, <2>2, <2>4
      DEF DeleteRejected, TypeOK, PollShape, world, history
    <2> QED BY <1>6, <2>3, <2>4 DEF DeleteRejected, AfterRefusal
  <1>7. CASE PayInvoice(w)
    <2>1. handler[w].inv \in Invoice /\ s \in Slate
      BY <1>7, <1>a DEF PayInvoice, At, HandlerShape, LocalShape, BusyPC
    <2>2. invoices' \in [Invoice -> Row]
      BY <1>7, <2>1, RowUpdatesTyped DEF PayInvoice, TypeOK
    <2>3. handler' \in [Handler -> HandlerState] /\ HandlerShape'
      BY <1>7, HandlerGoto DEF PayInvoice, At, BusyPC
    <2> QED BY <1>7, <2>2, <2>3 DEF PayInvoice, TypeOK, PollShape, world, history
  <1>8. CASE LinkPayment(w)
    <2>1. s \in Slate /\ handler[w].inv \in Invoice \cup {NULL}
      BY <1>8, <1>a DEF LinkPayment, At, BusyPC, HandlerState
    <2>2. payments' \in [Slate -> Payment]
      BY <1>8, <2>1, RowsTyped DEF LinkPayment, TypeOK
    <2>3. handler' \in [Handler -> HandlerState] /\ HandlerShape'
      BY <1>8, HandlerGoto DEF LinkPayment, At, BusyPC
    <2> QED BY <1>8, <2>2, <2>3 DEF LinkPayment, TypeOK, PollShape, world, history
  <1>9. CASE NotifyReceived(w)
    <2>1. handler[w].inv \in Invoice \cup {NULL}
      BY DEF HandlerState
    <2>2. invoices' \in [Invoice -> Row]
      BY <1>9, <2>1, RowUpdatesTyped DEF NotifyReceived, TypeOK
    <2>3. receivedHook' \in [Slate -> Nat]
      <3>1. receivedHook[s] \in Nat
        BY <1>9, <1>a DEF NotifyReceived, At, BusyPC, TypeOK
      <3>2. receivedHook' = [receivedHook EXCEPT ![s] = receivedHook[s] + 1]
        BY <1>9 DEF NotifyReceived
      <3>3. receivedHook \in [Slate -> Nat] /\ receivedHook[s] + 1 \in Nat
        BY <3>1 DEF TypeOK
      <3> HIDE DEF s
      <3> QED BY <3>2, <3>3
    <2>4. handler' \in [Handler -> HandlerState] /\ HandlerShape'
      BY <1>9, HandlerGoto DEF NotifyReceived, At, BusyPC
    <2> QED BY <1>9, <2>2, <2>3, <2>4 DEF NotifyReceived, TypeOK, PollShape, world, history
  <1>10. CASE Reply(w)
    <2>1. s2' \subseteq Slate
      BY <1>10, <1>a DEF Reply, Deliver, At, BusyPC, TypeOK
    <2>2. handler' \in [Handler -> HandlerState] /\ HandlerShape'
      <3>1. CASE Goto(w, "mark")
        BY <1>10, <3>1, HandlerGoto DEF Reply, At, BusyPC
      <3> QED BY <1>10, <1>b, <3>1 DEF Reply, Deliver
    <2> QED BY <1>10, <2>1, <2>2 DEF Reply, Deliver, TypeOK, PollShape, db, history
  <1>11. CASE MarkReplied(w)
    <2>1. s \in Slate
      BY <1>11, <1>a DEF MarkReplied, At, BusyPC
    <2>2. payments' \in [Slate -> Payment]
      BY <1>11, <2>1, RowsTyped DEF MarkReplied, SetReplied, TypeOK
    <2> QED BY <1>11, <1>b, <2>2 DEF MarkReplied, TypeOK, PollShape, world, history
  <1> QED BY <1>1, <1>3, <1>4, <1>5, <1>6, <1>7, <1>8, <1>9, <1>10, <1>11 DEF HandlerStep

LEMMA BootStepKeepsShape ==
    ASSUME Shape, BootStep
    PROVE  Shape'
  <1> USE DEF Shape
  <1> DEFINE loop == handler[NostrLoop]
  <1>a. NostrLoop \in Handler
    BY DEF Handler
  <1>b. handler \in [Handler -> HandlerState] /\ loop \in HandlerState
    BY <1>a DEF TypeOK
  <1>c. ASSUME NEW pc \in {"idle", "boot", "resend"},
               handler' = [handler EXCEPT ![NostrLoop] = [Idle EXCEPT !.pc = pc]]
        PROVE  handler' \in [Handler -> HandlerState] /\ HandlerShape'
    <2>1. LocalShape(NostrLoop, [Idle EXCEPT !.pc = pc])
      BY IdleShape, <1>a DEF Idle
    <2> QED BY <1>a, <1>b, <1>c, <2>1, IdleTyped, HandlerMove
  <1>1. CASE BootReconcile
    <2> DEFINE h == [loop EXCEPT !.pc = "resend"]
    <2>1. h \in HandlerState
      BY <1>b DEF HandlerState
    <2>2. LocalShape(NostrLoop, h)
      BY <1>1, <1>a, <1>b DEF BootReconcile, At, HandlerShape, LocalShape, HandlerState, BusyPC
    <2>3. handler' \in [Handler -> HandlerState] /\ HandlerShape'
      BY <1>1, <1>a, <1>b, <2>1, <2>2, HandlerMove DEF BootReconcile, Goto
    <2> QED BY <1>1, <2>3 DEF BootReconcile, TypeOK, PollShape, db, world, history
  <1>2. ASSUME NEW s \in Slate, Resend(s)
        PROVE  Shape'
    <2>1. handler' \in [Handler -> HandlerState] /\ HandlerShape'
      <3> DEFINE h == [Idle EXCEPT !.pc = "remark", !.slate = s]
      <3>1. h \in HandlerState
        BY IdleTyped DEF Idle, HandlerState
      <3>2. LocalShape(NostrLoop, h)
        BY DEF LocalShape, Idle, BusyPC
      <3>3. CASE handler' = [handler EXCEPT ![NostrLoop] = h]
        BY <1>a, <1>b, <3>1, <3>2, <3>3, HandlerMove
      <3>4. CASE UNCHANGED handler
        BY <3>4, <1>b DEF HandlerShape
      <3> QED BY <1>2, <3>3, <3>4 DEF Resend
    <2>2. s2' \subseteq Slate /\ todo' \subseteq Slate
      BY <1>2 DEF Resend, TypeOK
    <2> QED BY <1>2, <2>1, <2>2 DEF Resend, TypeOK, PollShape, db, history
  <1>3. CASE Remark
    <2>1. loop.slate \in Slate
      BY <1>3, <1>a DEF Remark, At, HandlerShape, LocalShape, BusyPC
    <2>2. payments' \in [Slate -> Payment]
      BY <1>3, <2>1, RowsTyped DEF Remark, SetReplied, TypeOK
    <2> QED BY <1>3, <1>c, <2>2 DEF Remark, TypeOK, PollShape, world, history
  <1>4. CASE ResendDone
    <2>1. Idle = [Idle EXCEPT !.pc = "idle"]
      BY DEF Idle
    <2> QED BY <1>4, <1>c, <2>1 DEF ResendDone, TypeOK, PollShape, db, world, history
  <1> QED BY <1>1, <1>2, <1>3, <1>4 DEF BootStep

LEMMA NextItemShape ==
    ASSUME Shape, poll' = NextItem
    PROVE  poll' \in PollState /\ PollShape'
  <1>1. poll.work \in SUBSET WorkItem /\ poll.blocks \in Nat /\ 0 \in 0..Required
    BY SettlementAssumption DEF Shape, TypeOK, PollState
  <1>2. poll' = [pc |-> "next", work |-> poll.work, slate |-> NULL, inv |-> NULL,
                 conf |-> 0, blocks |-> poll.blocks]
    BY DEF NextItem, IdlePoll
  <1> QED BY <1>1, <1>2 DEF PollState, PollShape

LEMMA PollStepKeepsShape ==
    ASSUME Shape, PollStep
    PROVE  Shape'
  <1> USE DEF Shape
  <1> poll \in PollState
    BY DEF TypeOK
  <1>1. CASE PollStart
    <2>1. Pending \subseteq WorkItem
      BY DEF Pending, WorkItem, TypeOK, Payment
    <2>2. poll' \in PollState /\ PollShape'
      <3>1. poll' = [pc |-> "next", work |-> Pending, slate |-> NULL, inv |-> NULL,
                     conf |-> 0, blocks |-> 0]
        BY <1>1 DEF PollStart, IdlePoll
      <3> QED BY <2>1, <3>1, SettlementAssumption DEF PollState, PollShape
    <2> QED BY <1>1, <2>2 DEF PollStart, TypeOK, HandlerShape, db, world, history
  <1>2. CASE PollUpdate
    <2>1. poll.slate \in Slate
      BY <1>2 DEF PollUpdate, PollShape
    <2>2. payments' \in [Slate -> Payment]
      BY <1>2, <2>1, RowsTyped DEF PollUpdate, TypeOK
    <2>3. poll' \in PollState /\ PollShape'
      <3>1. CASE poll' = NextItem
        BY <3>1, NextItemShape
      <3>2. CASE poll.inv # NULL /\ poll' = [poll EXCEPT !.pc = "finalize"]
        BY <2>1, <3>2 DEF PollState, PollShape
      <3> QED BY <1>2, <3>1, <3>2 DEF PollUpdate
    <2> QED BY <1>2, <2>2, <2>3 DEF PollUpdate, TypeOK, HandlerShape, world, history
  <1>3. CASE PollFinalize
    <2>1. poll.inv \in Invoice /\ poll.slate \in Slate
      BY <1>3 DEF PollFinalize, PollShape
    <2>2. invoices' \in [Invoice -> Row]
      BY <1>3, <2>1, RowUpdatesTyped DEF PollFinalize, TypeOK
    <2>3. poll' \in PollState /\ PollShape'
      <3>1. CASE poll' = NextItem
        BY <3>1, NextItemShape
      <3>2. CASE poll' = [poll EXCEPT !.pc = "notify"]
        BY <2>1, <3>2 DEF PollState, PollShape
      <3> QED BY <1>3, <3>1, <3>2 DEF PollFinalize
    <2> QED BY <1>3, <2>2, <2>3 DEF PollFinalize, TypeOK, HandlerShape, world, history
  <1>4. CASE PollNotify
    <2>1. confirmedHook' \in [Invoice -> Nat]
      BY <1>4 DEF PollNotify, PollShape, TypeOK
    <2>2. poll' \in PollState /\ PollShape'
      BY <1>4, NextItemShape DEF PollNotify
    <2> QED BY <1>4, <2>1, <2>2 DEF PollNotify, TypeOK, HandlerShape, world, history
  <1>5. CASE PollDone
    <2>1. poll' \in PollState /\ PollShape'
      BY <1>5, SettlementAssumption DEF PollDone, PollState, PollShape, IdlePoll
    <2> QED BY <1>5, <2>1 DEF PollDone, TypeOK, HandlerShape, db, world, history
  <1>6. ASSUME NEW item \in poll.work, PollRead(item)
        PROVE  Shape'
    <2>1. item.slate \in Slate /\ item.inv \in Invoice \cup {NULL}
      BY DEF PollState, WorkItem
    <2>2. depth[item.slate] \in 0..Required
      BY <2>1 DEF TypeOK
    <2>3. poll' \in PollState /\ PollShape'
      BY <1>6, <2>1, <2>2 DEF PollRead, PollState, PollShape
    <2> QED BY <1>6, <2>3 DEF PollRead, TypeOK, HandlerShape, db, world, history
  <1> QED BY <1>1, <1>2, <1>3, <1>4, <1>5, <1>6 DEF PollStep

LEMMA FailureKeepsShape ==
    ASSUME Shape, Failure
    PROVE  Shape'
  <1> USE DEF Shape, Fault
  <1>1. CASE RefreshDirectoryFails
    BY <1>1 DEF RefreshDirectoryFails, TypeOK, HandlerShape, PollShape, db, world
  <1>2. CASE PollStatementFails
    BY <1>2, NextItemShape DEF PollStatementFails, TypeOK, HandlerShape, db, world
  <1>3. CASE Crash
    <2>1. handler' \in [Handler -> HandlerState] /\ HandlerShape'
      BY <1>3, IdleTyped, IdleShape DEF Crash, HandlerShape
    <2>2. poll' \in PollState /\ PollShape'
      BY <1>3, SettlementAssumption DEF Crash, PollState, PollShape, IdlePoll
    <2>3. faults' \in Nat
      BY <1>3 DEF Crash, TypeOK
    <2> QED BY <1>3, <2>1, <2>2, <2>3, WatchSetTyped DEF Crash, TypeOK, db, world
  <1>4. ASSUME NEW w \in Handler, ReplyFails(w)
        PROVE  Shape'
    <2>1. handler[w].slate \in Slate
      BY <1>4 DEF ReplyFails, At, HandlerShape, LocalShape, BusyPC
    <2>2. s2' \subseteq Slate
      BY <1>4, <2>1 DEF ReplyFails, TypeOK
    <2>3. handler' \in [Handler -> HandlerState] /\ HandlerShape'
      BY <1>4, HandlerMove, IdleTyped, IdleShape DEF ReplyFails, TypeOK
    <2> QED BY <1>4, <2>2, <2>3 DEF ReplyFails, TypeOK, PollShape, db
  <1>5. ASSUME NEW w \in Handler, StatementFails(w)
        PROVE  Shape'
    <2> DEFINE hd == handler[w]
    <2>1. hd \in HandlerState /\ LocalShape(w, hd) /\ hd.pc \in BusyPC
      BY <1>5 DEF StatementFails, TypeOK, HandlerShape, BusyPC
    <2>2. AfterFailure(hd) \in HandlerState /\ LocalShape(w, AfterFailure(hd))
      <3>1. \A pc \in {"derived", "reply"} :
              /\ [hd EXCEPT !.pc = pc] \in HandlerState
              /\ LocalShape(w, [hd EXCEPT !.pc = pc])
        BY <2>1 DEF HandlerState, LocalShape, BusyPC
      <3>2. /\ [hd EXCEPT !.pc = "notify", !.inv = NULL] \in HandlerState
            /\ LocalShape(w, [hd EXCEPT !.pc = "notify", !.inv = NULL])
        BY <2>1 DEF HandlerState, LocalShape, BusyPC
      <3>3. hd.pc = "remark" => LocalShape(w, [Idle EXCEPT !.pc = "resend"])
        BY <2>1, IdleShape DEF LocalShape
      <3>4. Idle \in HandlerState /\ LocalShape(w, Idle)
        BY IdleTyped, IdleShape
      <3> QED BY <3>1, <3>2, <3>3, <3>4, IdleTyped DEF AfterFailure, AfterRefusal
    <2>3. handler' \in [Handler -> HandlerState] /\ HandlerShape'
      BY <1>5, <2>2, HandlerMove DEF StatementFails, TypeOK
    <2> QED BY <1>5, <2>3 DEF StatementFails, TypeOK, PollShape, db, world
  <1>6. ASSUME NEW w \in Handler, NEW s \in Slate, WalletFailsAfterCommit(w, s)
        PROVE  Shape'
    BY <1>6 DEF WalletFailsAfterCommit, TypeOK, HandlerShape, PollShape, db, world
  <1>7. ASSUME NEW s \in Slate, ResendFails(s)
        PROVE  Shape'
    BY <1>7 DEF ResendFails, TypeOK, HandlerShape, PollShape, db, history
  <1>8. ASSUME NEW s \in Slate, Reorg(s)
        PROVE  Shape'
    <2>1. depth' \in [Slate -> 0..Required]
      BY <1>8, SettlementAssumption DEF Reorg, TypeOK
    <2> QED BY <1>8, <2>1 DEF Reorg, TypeOK, HandlerShape, PollShape, db
  <1>9. ASSUME NEW item \in poll.work, PollNodeFails(item)
        PROVE  Shape'
    <2>1. poll' \in PollState /\ PollShape'
      BY <1>9 DEF PollNodeFails, TypeOK, PollState, PollShape
    <2> QED BY <1>9, <2>1 DEF PollNodeFails, TypeOK, HandlerShape, db, world
  <1> QED BY <1>1, <1>2, <1>3, <1>4, <1>5, <1>6, <1>7, <1>8, <1>9 DEF Failure

LEMMA ShapeInductive == Shape /\ [Next]_vars => Shape'
  <1> SUFFICES ASSUME Shape, [Next]_vars PROVE Shape'
    OBVIOUS
  <1>1. CASE Next
    BY <1>1, RequestKeepsShape, EnvironmentKeepsShape, FailureKeepsShape,
       BootStepKeepsShape, PollStepKeepsShape, HandlerStepKeepsShape
    DEF Next
  <1>2. CASE UNCHANGED vars
    BY <1>2 DEF vars, db, world, history, Shape, TypeOK, HandlerShape, PollShape
  <1> QED BY <1>1, <1>2

\* In every reachable state each variable holds a value of its kind, a handler
\* holds a slate exactly while it works on one (persist_and_match, reconcile),
\* and the poll an item exactly while it writes one down (confirm_pending).
THEOREM TypeCorrect == Spec => [](TypeOK /\ HandlerShape /\ PollShape)
  <1>1. Shape => TypeOK /\ HandlerShape /\ PollShape
    BY DEF Shape
  <1> QED BY <1>1, InitShape, ShapeInductive, PTL DEF Spec

-----------------------------------------------------------------------------
(* The inductive invariant of the money path.                              *)

\* An invoice id is followed by an amount that satisfies it from the moment a
\* handler resolves it, and through the payment row and the invoice itself.
ResolvedExactly ==
    \A w \in Handler : handler[w].inv # NULL =>
        /\ invoices[handler[w].inv].status # "absent"
        /\ Satisfies(invoices, handler[w].inv, AmountOf[handler[w].slate])

AmountBinding == ResolvedExactly /\ PaidExactly /\ LinkedExactly

-----------------------------------------------------------------------------

Unlinking == {"insert", "derived", "memo", "amount", "delete", "paid", "link"}
Unpaying == Unlinking \ {"link"}

\* Nothing is known of a slate the wallet has not taken.
WalletKnows ==
    /\ \A w \in Handler : handler[w].slate \in Slate => handler[w].slate \in wallet
    /\ \A s \in Slate : s \notin wallet => payments[s] = AbsentPayment
    /\ \A i \in Invoice : invoices[i].paidBy \in Slate => invoices[i].paidBy \in wallet

\* An absent row is blank, and only the Nostr loop touches rows with a payer.
RowOwners ==
    /\ \A s \in Slate : ~Present(s) => payments[s] = AbsentPayment
    /\ \A w \in HttpWorkers : /\ handler[w].rail # "nostr"
                              /\ handler[w].slate \in Slate => ~payments[handler[w].slate].payer
    /\ \A s \in todo : payments[s].payer /\ handler[NostrLoop].pc \in {"resend", "remark"}

\* A payment is linked once, and pays one invoice once.
OneLink ==
    \A w \in Handler :
        /\ handler[w].pc \in Unlinking => payments[handler[w].slate].inv = NULL
        /\ handler[w].pc \in Unpaying => \A i \in Invoice : invoices[i].paidBy # handler[w].slate

OnePayment ==
    /\ \A i \in Invoice : invoices[i].paidBy # NULL <=> Settled(i)
    /\ \A i, j \in Invoice : invoices[i].paidBy = invoices[j].paidBy /\ Settled(i) => i = j

\* The poll's work list: one item per payment, of an unfinal row, whose invoice
\* is the row's once it has one.
WorkList ==
    /\ \A x \in poll.work : /\ payments[x.slate].conf < Required
                            /\ x.inv # NULL => payments[x.slate].inv = x.inv
                            /\ x.slate # poll.slate
    /\ \A x, y \in poll.work : x.slate = y.slate => x = y
    /\ poll.slate # NULL => /\ poll.inv # NULL => payments[poll.slate].inv = poll.inv
                            /\ poll.pc = "update" => payments[poll.slate].conf < Required
    /\ poll.pc = "idle" => poll.work = {}
    /\ poll.pc \in {"idle", "next"} => poll.slate = NULL
    /\ poll.pc \in {"finalize", "notify"} => payments[poll.slate].conf = Required
    /\ poll.pc = "notify" => /\ invoices[poll.inv].status = "confirmed"
                             /\ confirmedHook[poll.inv] = 0

Ownership == WalletKnows /\ RowOwners /\ SingleWriter /\ OneLink /\ OnePayment

Finality == WorkList /\ ConfirmedHasDepth /\ ConfirmedOnce

-----------------------------------------------------------------------------
(* What a step may do to the invoice table.                                *)

Expires(i) == /\ invoices[i].status = "open"
              /\ invoices' = [invoices EXCEPT ![i].status = "expired"]
Opens(i) == /\ invoices[i].status = "absent"
            /\ \E p \in Offers, st \in {"open", "expired"} :
                 invoices' = [invoices EXCEPT ![i] =
                                [Created(p, DefaultMode, now) EXCEPT !.status = st]]
Pays(w) == /\ PayInvoice(w) /\ handler[w].inv \in Invoice /\ handler[w].slate \in Slate
           /\ invoices[handler[w].inv].status = "open"
           /\ invoices' = [invoices EXCEPT ![handler[w].inv] =
                             [@ EXCEPT !.status = "paid", !.paidBy = handler[w].slate]]
Confirms == /\ PollFinalize /\ poll.inv \in Invoice
            /\ invoices[poll.inv].status = "paid"
            /\ invoices' = [invoices EXCEPT ![poll.inv].status = "confirmed"]

TableStep == \/ UNCHANGED invoices
             \/ \E i \in Invoice : Expires(i) \/ Opens(i)
             \/ \E w \in Handler : Pays(w)
             \/ Confirms

LEMMA ExpiryStep ==
    ASSUME NEW i \in Invoice, invoices' = ExpireIfDue(invoices, i, now)
    PROVE  TableStep
  BY DEF ExpireIfDue, TableStep, Expires

LEMMA TableSteps ==
    ASSUME Shape, [Next]_vars
    PROVE  TableStep
  <1>1. CASE Request
    <2>1. ASSUME NEW i \in Invoice, ViewInvoice(i)
          PROVE  TableStep
      BY <2>1, ExpiryStep DEF ViewInvoice
    <2>2. ASSUME NEW i \in Invoice, NEW p \in Offers, CreateInvoice(i, p)
          PROVE  TableStep
      <3> DEFINE r == Created(p, DefaultMode, now)
                 tab == [invoices EXCEPT ![i] = r]
      <3>1. invoices' = ExpireIfDue(tab, i, now) /\ invoices[i].status = "absent"
        BY <2>2 DEF CreateInvoice
      <3>2. r = [r EXCEPT !.status = "open"] /\ r.status = "open"
        BY DEF Created
      <3>3. tab[i] = r
        BY DEF Shape, TypeOK
      <3>4. invoices' = tab \/ invoices' = [tab EXCEPT ![i].status = "expired"]
        BY <3>1 DEF ExpireIfDue
      <3>5. [tab EXCEPT ![i].status = "expired"]
              = [invoices EXCEPT ![i] = [r EXCEPT !.status = "expired"]]
        BY <3>3
      <3>6. \E st \in {"open", "expired"} :
              invoices' = [invoices EXCEPT ![i] = [r EXCEPT !.status = st]]
        BY <3>2, <3>4, <3>5
      <3> QED BY <3>1, <3>6 DEF TableStep, Opens
    <2>3. ASSUME NEW s \in Slate, NEW w \in HttpWorkers, NEW i \in Invoice,
                 ReceivePaste(w, s, i)
          PROVE  TableStep
      BY <2>3, ExpiryStep DEF ReceivePaste
    <2> QED BY <1>1, <2>1, <2>2, <2>3 DEF Request, ReceiveNostr, ReceiveForeign, TableStep
  <1>2. ASSUME NEW w \in Handler, HandlerStep(w)
        PROVE  TableStep
    <2>1. CASE PayInvoice(w)
      <3>1. handler[w].inv \in Invoice /\ handler[w].slate \in Slate
        BY <2>1 DEF PayInvoice, At, Shape, HandlerShape, LocalShape, BusyPC
      <3>2. CASE invoices[handler[w].inv].status = "open"
        BY <2>1, <3>1, <3>2 DEF PayInvoice, MarkPaid, TableStep, Pays
      <3> QED BY <2>1, <3>2 DEF PayInvoice, MarkPaid, TableStep
    <2>2. CASE NotifyReceived(w)
      <3>1. handler[w].inv \in Invoice \cup {NULL}
        BY DEF Shape, TypeOK, HandlerState
      <3> QED BY <2>2, <3>1, ExpiryStep DEF NotifyReceived, TableStep
    <2> QED BY <1>2, <2>1, <2>2
        DEF HandlerStep, InsertPayment, ResolveDerived, ResolveMemo, ResolveAmount, Resolve,
            DeleteRejected, LinkPayment, Reply, Deliver, MarkReplied, TableStep, db
  <1>3. CASE PollFinalize
    BY <1>3 DEF PollFinalize, MarkConfirmed, MayConfirm, TableStep, Confirms, Shape, PollShape
  <1>4. CASE BootStep
    BY <1>4 DEF BootStep, BootReconcile, Resend, Remark, ResendDone, TableStep, db
  <1>5. CASE PollStep
    BY <1>3, <1>5 DEF PollStep, PollStart, PollUpdate, PollNotify, PollDone, PollRead,
                      TableStep, db
  <1>6. CASE Environment
    BY <1>6 DEF Environment, Tick, RefreshDirectory, Block, TableStep, db
  <1>7. CASE Failure
    BY <1>7 DEF Failure, RefreshDirectoryFails, PollStatementFails, Crash, ReplyFails,
                StatementFails, WalletFailsAfterCommit, ResendFails, Reorg, PollNodeFails,
                TableStep, db
  <1>8. CASE UNCHANGED vars
    BY <1>8 DEF vars, db, TableStep
  <1> QED BY <1>1, <1>2, <1>4, <1>5, <1>6, <1>7, <1>8 DEF Next

-----------------------------------------------------------------------------
(* What a step may do to the payment table.                                *)

Inserts(w) == /\ InsertPayment(w) /\ handler[w].slate \in Slate
              /\ ~Present(handler[w].slate)
              /\ payments' = [payments EXCEPT ![handler[w].slate] = NewRow(handler[w])]
Links(w) == /\ LinkPayment(w) /\ handler[w].slate \in Slate
            /\ Present(handler[w].slate)
            /\ payments' = [payments EXCEPT ![handler[w].slate].inv = handler[w].inv]
Deletes(w) == /\ DeleteRejected(w) /\ handler[w].slate \in Slate
              /\ payments' = [payments EXCEPT ![handler[w].slate] = AbsentPayment]
Replies(s) == /\ Present(s)
              /\ payments' = [payments EXCEPT ![s].status = "replied"]
Deepens == /\ PollUpdate /\ poll.slate \in Slate /\ Present(poll.slate)
           /\ payments' = [payments EXCEPT ![poll.slate] = OnChain(@, poll.conf)]

LedgerStep == \/ UNCHANGED payments
              \/ \E w \in Handler : Inserts(w) \/ Links(w) \/ Deletes(w)
              \/ \E s \in Slate : Replies(s)
              \/ Deepens

LEMMA LedgerSteps ==
    ASSUME Shape, [Next]_vars
    PROVE  LedgerStep
  <1>a. ASSUME NEW w \in Handler, handler[w].pc \in BusyPC
        PROVE  handler[w].slate \in Slate
    BY <1>a DEF Shape, HandlerShape, LocalShape
  <1>1. CASE Request
    BY <1>1 DEF Request, ViewInvoice, CreateInvoice, ReceiveNostr, ReceivePaste,
                ReceiveForeign, Receive, LedgerStep
  <1>2. ASSUME NEW w \in Handler, HandlerStep(w)
        PROVE  LedgerStep
    <2>1. CASE InsertPayment(w)
      <3>1. handler[w].slate \in Slate
        BY <1>a, <2>1 DEF InsertPayment, At, BusyPC
      <3>2. CASE Present(handler[w].slate)
        BY <2>1, <3>1, <3>2 DEF InsertPayment, Inserted, LedgerStep, Shape, TypeOK
      <3> QED BY <2>1, <3>1, <3>2 DEF InsertPayment, Inserted, LedgerStep, Inserts
    <2>2. CASE LinkPayment(w)
      BY <1>a, <2>2 DEF LinkPayment, At, BusyPC, LedgerStep, Links
    <2>3. CASE DeleteRejected(w)
      BY <1>a, <2>3 DEF DeleteRejected, At, BusyPC, LedgerStep, Deletes
    <2>4. CASE MarkReplied(w)
      BY <1>a, <2>4 DEF MarkReplied, SetReplied, At, BusyPC, LedgerStep, Replies
    <2> QED BY <1>2, <2>1, <2>2, <2>3, <2>4
        DEF HandlerStep, ResolveDerived, ResolveMemo, ResolveAmount, Resolve, PayInvoice,
            NotifyReceived, Reply, Deliver, LedgerStep, db
  <1>3. CASE Remark
    <2>1. handler[NostrLoop].slate \in Slate
      BY <1>a, <1>3 DEF Remark, At, BusyPC, Handler
    <2> QED BY <1>3, <2>1 DEF Remark, SetReplied, LedgerStep, Replies
  <1>4. CASE BootStep
    BY <1>3, <1>4 DEF BootStep, BootReconcile, Resend, ResendDone, LedgerStep, db
  <1>5. CASE PollStep
    <2>1. CASE PollUpdate
      BY <2>1 DEF PollUpdate, LedgerStep, Deepens, Shape, PollShape
    <2> QED BY <1>5, <2>1 DEF PollStep, PollStart, PollFinalize, PollNotify, PollDone,
                              PollRead, LedgerStep, db
  <1>6. CASE Environment
    BY <1>6 DEF Environment, Tick, RefreshDirectory, Block, LedgerStep, db
  <1>7. CASE Failure
    BY <1>7 DEF Failure, RefreshDirectoryFails, PollStatementFails, Crash, ReplyFails,
                StatementFails, WalletFailsAfterCommit, ResendFails, Reorg, PollNodeFails,
                LedgerStep, db
  <1>8. CASE UNCHANGED vars
    BY <1>8 DEF vars, db, LedgerStep
  <1> QED BY <1>1, <1>2, <1>4, <1>5, <1>6, <1>7, <1>8 DEF Next

-----------------------------------------------------------------------------
(* What a step may do to the handlers.                                     *)

\* w moves on with its slate, keeping its invoice or letting go of it.
Advances(w) == \E h \in HandlerState :
    /\ handler' = [handler EXCEPT ![w] = h]
    /\ h.slate = handler[w].slate /\ h.rail = handler[w].rail
    /\ h.inv \in {NULL, handler[w].inv}
    /\ h.pc \in Unlinking => handler[w].pc \in Unlinking
    /\ h.pc \in Unpaying => handler[w].pc \in Unpaying

Resolves(w) == \E i \in Invoice :
    /\ handler' = [handler EXCEPT ![w].pc = "paid", ![w].inv = i]
    /\ handler[w].pc \in {"derived", "memo", "amount"}
    /\ invoices[i].status = "open"
    /\ Satisfies(invoices, i, AmountOf[handler[w].slate])

Releases(w) == \E pc \in {"idle", "resend"} :
    handler' = [handler EXCEPT ![w] = [Idle EXCEPT !.pc = pc]]

Takes(w) == \E h \in HandlerState :
    /\ handler' = [handler EXCEPT ![w] = h]
    /\ h.pc = "insert" /\ h.inv = NULL
    /\ h.slate \in Slate \ wallet /\ wallet' = wallet \cup {h.slate}
    /\ h.rail = "nostr" => w = NostrLoop
    /\ UNCHANGED payments

Resends(s) == /\ Resend(s)
              /\ handler' = [handler EXCEPT ![NostrLoop] =
                               [Idle EXCEPT !.pc = "remark", !.slate = s]]

HandlersStep == \/ UNCHANGED handler
                \/ \E w \in Handler : Advances(w) \/ Resolves(w) \/ Releases(w) \/ Takes(w)
                \/ \E s \in Slate : Resends(s)
                \/ handler' = AllIdle

LEMMA GotoAdvances ==
    ASSUME Shape, NEW w \in Handler, Shape', NEW pc, Goto(w, pc),
           pc \in Unlinking => handler[w].pc \in Unlinking,
           pc \in Unpaying => handler[w].pc \in Unpaying
    PROVE  Advances(w)
  <1> DEFINE h == [handler[w] EXCEPT !.pc = pc]
  <1>1. handler' = [handler EXCEPT ![w] = h]
    BY DEF Goto
  <1>2. h = handler'[w] /\ h \in HandlerState
    BY <1>1 DEF Shape, TypeOK
  <1>3. handler[w] \in HandlerState
    BY DEF Shape, TypeOK
  <1>4. h.slate = handler[w].slate /\ h.rail = handler[w].rail /\ h.inv = handler[w].inv
        /\ h.pc = pc
    BY <1>3 DEF HandlerState
  <1> HIDE DEF h
  <1> QED BY <1>1, <1>2, <1>4 DEF Advances

LEMMA IdleReleases ==
    ASSUME NEW w \in Handler, handler' = [handler EXCEPT ![w] = Idle]
    PROVE  Releases(w)
  <1>1. Idle = [Idle EXCEPT !.pc = "idle"]
    BY DEF Idle
  <1> QED BY <1>1 DEF Releases

LEMMA HandlerStepMoves ==
    ASSUME Shape, Shape', NEW w \in Handler, HandlerStep(w)
    PROVE  HandlersStep
  <1> SUFFICES Advances(w) \/ Resolves(w) \/ Releases(w)
    BY DEF HandlersStep
  <1> USE DEF Unlinking, Unpaying
  <1>1. CASE InsertPayment(w)
    BY <1>1, GotoAdvances DEF InsertPayment, At
  <1>2. ASSUME NEW hits \in SUBSET Invoice, NEW otherwise \in {"memo", "amount", "link"},
               \A i \in hits : invoices[i].status = "open",
               handler[w].pc \in {"derived", "memo", "amount"},
               Resolve(w, hits, otherwise)
        PROVE  Advances(w) \/ Resolves(w) \/ Releases(w)
    <2>1. CASE Goto(w, otherwise) \/ Goto(w, "delete")
      BY <1>2, <2>1, GotoAdvances
    <2>2. ASSUME NEW i \in hits,
                 Satisfies(invoices, i, AmountOf[handler[w].slate]),
                 handler' = [handler EXCEPT ![w].pc = "paid", ![w].inv = i]
          PROVE  Resolves(w)
      BY <1>2, <2>2 DEF Resolves
    <2> QED BY <1>2, <2>1, <2>2 DEF Resolve, Resolved, Refuse
  <1>3. CASE ResolveDerived(w)
    BY <1>2, <1>3 DEF ResolveDerived, At, DerivedHits, Oldest, OpenInMode
  <1>4. CASE ResolveMemo(w)
    BY <1>2, <1>4 DEF ResolveMemo, At, MemoHits, Oldest, OpenInMode
  <1>5. CASE ResolveAmount(w)
    BY <1>2, <1>5 DEF ResolveAmount, At, AmountHits, Oldest, OpenInMode
  <1>6. CASE DeleteRejected(w)
    <2>1. CASE Goto(w, "reply")
      BY <2>1, GotoAdvances
    <2>2. CASE handler' = [handler EXCEPT ![w] = Idle]
      BY <2>2, IdleReleases
    <2> QED BY <1>6, <2>1, <2>2 DEF DeleteRejected, AfterRefusal, Goto
  <1>7. CASE PayInvoice(w)
    BY <1>7, GotoAdvances DEF PayInvoice, At
  <1>8. CASE LinkPayment(w)
    BY <1>8, GotoAdvances DEF LinkPayment, At
  <1>9. CASE NotifyReceived(w)
    BY <1>9, GotoAdvances DEF NotifyReceived, At
  <1>10. CASE Reply(w)
    BY <1>10, GotoAdvances, IdleReleases DEF Reply, Deliver
  <1>11. CASE MarkReplied(w)
    BY <1>11, IdleReleases DEF MarkReplied
  <1> QED BY <1>1, <1>3, <1>4, <1>5, <1>6, <1>7, <1>8, <1>9, <1>10, <1>11 DEF HandlerStep

LEMMA HandlersSteps ==
    ASSUME Shape, Shape', [Next]_vars
    PROVE  HandlersStep
  <1>1. CASE Request
    <2>1. ASSUME NEW w \in Handler, NEW rail \in {"nostr", "paste", "foreign"},
                 NEW s \in Slate, NEW key, NEW memo, Receive(w, rail, s, key, memo),
                 rail = "nostr" => w = NostrLoop
          PROVE  HandlersStep
      <3> DEFINE h == [pc |-> "insert", rail |-> rail, slate |-> s,
                       key |-> key, memo |-> memo, inv |-> NULL]
      <3>1. handler' = [handler EXCEPT ![w] = h] /\ s \notin wallet /\ wallet' = wallet \cup {s}
            /\ UNCHANGED payments
        BY <2>1 DEF Receive, Fresh
      <3>2. h \in HandlerState
        <4>1. h = handler'[w]
          BY <3>1 DEF Shape, TypeOK
        <4> QED BY <4>1 DEF Shape, TypeOK
      <3>3. h.pc = "insert" /\ h.inv = NULL /\ h.slate = s /\ h.rail = rail
        OBVIOUS
      <3> HIDE DEF h
      <3>4. Takes(w)
        BY <2>1, <3>1, <3>2, <3>3 DEF Takes
      <3> QED BY <3>4 DEF HandlersStep
    <2> QED BY <1>1, <2>1
        DEF Request, ViewInvoice, CreateInvoice, ReceiveNostr, ReceivePaste,
            ReceiveForeign, HandlersStep, Handler
  <1>2. ASSUME NEW w \in Handler, HandlerStep(w)
        PROVE  HandlersStep
    BY <1>2, HandlerStepMoves
  <1>3. CASE BootStep
    <2> NostrLoop \in Handler
      BY DEF Handler
    <2>1. CASE BootReconcile
      <3>1. Advances(NostrLoop)
        BY <2>1, GotoAdvances DEF BootReconcile, At, Unlinking, Unpaying
      <3> QED BY <3>1 DEF HandlersStep
    <2>2. CASE Remark
      BY <2>2 DEF Remark, HandlersStep, Releases
    <2>3. CASE ResendDone
      BY <2>3, IdleReleases DEF ResendDone, HandlersStep
    <2>4. ASSUME NEW s \in Slate, Resend(s)
          PROVE  HandlersStep
      <3>1. CASE payments[s].key \in watched \cup {Master}
        BY <2>4, <3>1 DEF Resend, Resends, HandlersStep
      <3> QED BY <2>4, <3>1 DEF Resend, HandlersStep
    <2> QED BY <1>3, <2>1, <2>2, <2>3, <2>4 DEF BootStep
  <1>4. CASE PollStep
    BY <1>4 DEF PollStep, PollStart, PollUpdate, PollFinalize, PollNotify, PollDone,
                PollRead, HandlersStep
  <1>5. CASE Environment
    BY <1>5 DEF Environment, Tick, RefreshDirectory, Block, HandlersStep
  <1>6. CASE Failure
    <2>1. ASSUME NEW w \in Handler, StatementFails(w)
          PROVE  HandlersStep
      <3> DEFINE h == AfterFailure(handler[w])
      <3>1. handler' = [handler EXCEPT ![w] = h] /\ handler[w] \in HandlerState
        BY <2>1 DEF StatementFails, Shape, TypeOK
      <3>2. h \in HandlerState
        <4>1. h = handler'[w]
          BY <3>1 DEF Shape, TypeOK
        <4> QED BY <4>1 DEF Shape, TypeOK
      <3>3. CASE h = Idle \/ h = [Idle EXCEPT !.pc = "resend"]
        BY <3>1, <3>3, IdleReleases DEF Releases, HandlersStep
      <3>4. CASE /\ h.slate = handler[w].slate /\ h.rail = handler[w].rail
                 /\ h.inv \in {NULL, handler[w].inv}
                 /\ h.pc \in Unlinking => handler[w].pc \in Unlinking
                 /\ h.pc \in Unpaying => handler[w].pc \in Unpaying
        BY <3>1, <3>2, <3>4 DEF Advances, HandlersStep
      <3> QED BY <2>1, <3>1, <3>3, <3>4
          DEF StatementFails, AfterFailure, AfterRefusal, HandlerState, Unlinking, Unpaying
    <2>2. ASSUME NEW w \in Handler, ReplyFails(w)
          PROVE  HandlersStep
      BY <2>2, IdleReleases DEF ReplyFails, HandlersStep
    <2>3. CASE Crash
      BY <2>3 DEF Crash, HandlersStep
    <2> QED BY <1>6, <2>1, <2>2, <2>3
        DEF Failure, RefreshDirectoryFails, PollStatementFails, WalletFailsAfterCommit,
            ResendFails, Reorg, PollNodeFails, HandlersStep
  <1>7. CASE UNCHANGED vars
    BY <1>7 DEF vars, HandlersStep
  <1> QED BY <1>1, <1>2, <1>3, <1>4, <1>5, <1>6, <1>7 DEF Next

-----------------------------------------------------------------------------
(* Amount binding.                                                         *)

Bound(tab, i, s) == tab[i].status # "absent" /\ Satisfies(tab, i, AmountOf[s])

\* What an inserted invoice asks for never changes, and it stays inserted.
LEMMA TermsStand ==
    ASSUME Shape, [Next]_vars, NEW i \in Invoice, invoices[i].status # "absent"
    PROVE  /\ invoices'[i].status # "absent"
           /\ \A a : Satisfies(invoices, i, a) <=> Satisfies(invoices', i, a)
  <1> DEFINE Stands == /\ invoices'[i].status # "absent"
                       /\ invoices'[i].expected = invoices[i].expected
  <1> invoices \in [Invoice -> Row]
    BY DEF Shape, TypeOK
  <1>1. ASSUME NEW j \in Invoice, Expires(j) PROVE Stands
    BY <1>1 DEF Expires, Row
  <1>2. ASSUME NEW j \in Invoice, Opens(j) PROVE Stands
    BY <1>2 DEF Opens
  <1>3. ASSUME NEW w \in Handler, Pays(w) PROVE Stands
    BY <1>3 DEF Pays, Row
  <1>4. ASSUME Confirms PROVE Stands
    BY <1>4 DEF Confirms, Row
  <1>5. Stands
    BY <1>1, <1>2, <1>3, <1>4, TableSteps DEF TableStep
  <1> QED BY <1>5 DEF Satisfies

LEMMA BoundStands ==
    ASSUME Shape, [Next]_vars, NEW i \in Invoice, NEW s, Bound(invoices, i, s)
    PROVE  Bound(invoices', i, s)
  BY TermsStand DEF Bound

LEMMA ResolvedStep ==
    ASSUME Shape, Shape', ResolvedExactly, [Next]_vars
    PROVE  ResolvedExactly'
  <1> SUFFICES ASSUME NEW v \in Handler, handler'[v].inv # NULL
               PROVE  Bound(invoices', handler'[v].inv, handler'[v].slate)
    BY DEF ResolvedExactly, Bound
  <1> handler \in [Handler -> HandlerState] /\ handler'[v].inv \in Invoice
    BY DEF Shape, TypeOK, HandlerState
  <1> DEFINE Goal == Bound(invoices', handler'[v].inv, handler'[v].slate)
  <1>1. ASSUME handler'[v].inv = handler[v].inv, handler'[v].slate = handler[v].slate
        PROVE  Goal
    BY <1>1, BoundStands DEF ResolvedExactly, Bound
  <1>2. CASE UNCHANGED handler
    BY <1>1, <1>2
  <1>3. ASSUME NEW w \in Handler, Advances(w)
        PROVE  Goal
    BY <1>1, <1>3 DEF Advances
  <1>4. ASSUME NEW w \in Handler, Resolves(w)
        PROVE  Goal
    <2>1. CASE v # w
      BY <1>1, <1>4, <2>1 DEF Resolves
    <2>2. CASE v = w
      <3>1. Bound(invoices, handler'[v].inv, handler[v].slate) /\ handler'[v].slate = handler[v].slate
        BY <1>4, <2>2 DEF Resolves, Bound, HandlerState
      <3> QED BY <3>1, BoundStands
    <2> QED BY <2>1, <2>2
  <1>5. ASSUME NEW w \in Handler, Releases(w) \/ Takes(w)
        PROVE  Goal
    BY <1>1, <1>5 DEF Releases, Takes, Idle
  <1>6. ASSUME NEW s \in Slate, Resends(s)
        PROVE  Goal
    BY <1>1, <1>6 DEF Resends, Idle
  <1>7. handler' # AllIdle
    BY DEF AllIdle, Idle
  <1> QED BY <1>2, <1>3, <1>4, <1>5, <1>6, <1>7, HandlersSteps DEF HandlersStep

LEMMA PaidStep ==
    ASSUME Shape, ResolvedExactly, PaidExactly, [Next]_vars
    PROVE  PaidExactly'
  <1> SUFFICES ASSUME NEW i \in Invoice, Settled(i)'
               PROVE  /\ invoices'[i].paidBy \in Slate
                      /\ Satisfies(invoices', i, AmountOf[invoices'[i].paidBy])
    BY DEF PaidExactly
  <1> DEFINE Goal == /\ invoices'[i].paidBy \in Slate
                     /\ Satisfies(invoices', i, AmountOf[invoices'[i].paidBy])
  <1> invoices \in [Invoice -> Row]
    BY DEF Shape, TypeOK
  <1>1. ASSUME Settled(i), invoices'[i].paidBy = invoices[i].paidBy
        PROVE  Goal
    BY <1>1, TermsStand DEF PaidExactly, Settled
  <1>2. CASE UNCHANGED invoices
    BY <1>1, <1>2 DEF Settled
  <1>3. ASSUME NEW j \in Invoice, Expires(j)
        PROVE  Goal
    BY <1>1, <1>3 DEF Expires, Settled, Row
  <1>4. ASSUME NEW j \in Invoice, Opens(j)
        PROVE  Goal
    BY <1>1, <1>4 DEF Opens, Created, Settled
  <1>5. ASSUME NEW w \in Handler, Pays(w)
        PROVE  Goal
    <2>1. CASE i # handler[w].inv
      BY <1>1, <1>5, <2>1 DEF Pays, Settled
    <2>2. CASE i = handler[w].inv
      <3>1. invoices'[i].paidBy = handler[w].slate /\ handler[w].slate \in Slate
        BY <1>5, <2>2 DEF Pays, Row
      <3>2. i # NULL
        BY TableAssumption
      <3> QED BY <2>2, <3>1, <3>2, TermsStand DEF ResolvedExactly
    <2> QED BY <2>1, <2>2
  <1>6. CASE Confirms
    BY <1>1, <1>6 DEF Confirms, Settled, Row
  <1> QED BY <1>2, <1>3, <1>4, <1>5, <1>6, TableSteps DEF TableStep

LEMMA LinkedStep ==
    ASSUME Shape, Shape', ResolvedExactly, LinkedExactly, [Next]_vars
    PROVE  LinkedExactly'
  <1> SUFFICES ASSUME NEW s \in Slate, payments'[s].inv # NULL
               PROVE  Bound(invoices', payments'[s].inv, s)
    BY DEF LinkedExactly, Bound
  <1> payments \in [Slate -> Payment] /\ payments'[s].inv \in Invoice
    BY DEF Shape, TypeOK, Payment
  <1> DEFINE Goal == Bound(invoices', payments'[s].inv, s)
  <1>1. ASSUME payments'[s].inv = payments[s].inv
        PROVE  Goal
    BY <1>1, BoundStands DEF LinkedExactly, Bound
  <1>2. CASE UNCHANGED payments
    BY <1>1, <1>2
  <1>3. ASSUME NEW w \in Handler, Inserts(w) \/ Deletes(w)
        PROVE  Goal
    BY <1>1, <1>3 DEF Inserts, Deletes, NewRow, AbsentPayment
  <1>4. ASSUME NEW w \in Handler, Links(w)
        PROVE  Goal
    <2>1. CASE s # handler[w].slate
      BY <1>1, <1>4, <2>1 DEF Links
    <2>2. CASE s = handler[w].slate
      <3>1. payments'[s].inv = handler[w].inv
        BY <1>4, <2>2 DEF Links, Payment
      <3> QED BY <2>2, <3>1, BoundStands DEF ResolvedExactly, Bound
    <2> QED BY <2>1, <2>2
  <1>5. ASSUME NEW r \in Slate, Replies(r)
        PROVE  Goal
    BY <1>1, <1>5 DEF Replies, Payment
  <1>6. CASE Deepens
    BY <1>1, <1>6 DEF Deepens, OnChain, Payment
  <1> QED BY <1>2, <1>3, <1>4, <1>5, <1>6, LedgerSteps DEF LedgerStep

LEMMA InitAmountBinding == Init => AmountBinding
  BY TableAssumption
  DEF Init, AmountBinding, ResolvedExactly, PaidExactly, LinkedExactly, Settled,
      AllIdle, Idle, AbsentRow, AbsentPayment

\* Whatever the amounts, the invoices, the number of concurrent requests and
\* the faults: an invoice is only ever settled by, and a payment only ever
\* linked to, an exact amount (match_payment, mark_paid).
THEOREM AmountsAreBound == Spec => [](PaidExactly /\ LinkedExactly)
  <1>1. Shape /\ AmountBinding /\ [Next]_vars => (Shape /\ AmountBinding)'
    BY ShapeInductive, ResolvedStep, PaidStep, LinkedStep DEF AmountBinding
  <1>2. AmountBinding => PaidExactly /\ LinkedExactly
    BY DEF AmountBinding
  <1> QED BY <1>1, <1>2, InitShape, InitAmountBinding, PTL DEF Spec


-----------------------------------------------------------------------------
(* Who may touch a payment, and what `confirmed` means.                    *)

LEMMA WalletGrows ==
    ASSUME Shape, [Next]_vars
    PROVE  wallet \subseteq wallet'
  <1>1. CASE Request
    BY <1>1 DEF Request, ViewInvoice, CreateInvoice, ReceiveNostr, ReceivePaste,
                ReceiveForeign, Receive
  <1>2. ASSUME NEW w \in Handler, HandlerStep(w)
        PROVE  wallet \subseteq wallet'
    BY <1>2 DEF HandlerStep, InsertPayment, ResolveDerived, ResolveMemo, ResolveAmount,
                Resolve, DeleteRejected, PayInvoice, LinkPayment, NotifyReceived, Reply,
                Deliver, MarkReplied
  <1>3. CASE BootStep
    BY <1>3 DEF BootStep, BootReconcile, Resend, Remark, ResendDone
  <1>4. CASE PollStep
    BY <1>4 DEF PollStep, PollStart, PollUpdate, PollFinalize, PollNotify, PollDone, PollRead
  <1>5. CASE Environment
    BY <1>5 DEF Environment, Tick, RefreshDirectory, Block
  <1>6. CASE Failure
    BY <1>6 DEF Failure, RefreshDirectoryFails, PollStatementFails, Crash, ReplyFails,
                StatementFails, WalletFailsAfterCommit, ResendFails, Reorg, PollNodeFails
  <1>7. CASE UNCHANGED vars
    BY <1>7 DEF vars
  <1> QED BY <1>1, <1>2, <1>3, <1>4, <1>5, <1>6, <1>7 DEF Next

\* The reconcile list is filled at boot, from rows with a payer, and the loop
\* does nothing else before it is empty.
LEMMA TodoSteps ==
    ASSUME Shape, RowOwners, [Next]_vars, NEW s \in todo'
    PROVE  /\ payments[s].payer
           /\ handler'[NostrLoop].pc \in {"resend", "remark"}
           /\ s \in todo \/ UNCHANGED payments
  <1> NostrLoop \in Handler /\ handler \in [Handler -> HandlerState]
    BY DEF Handler, Shape, TypeOK
  <1> DEFINE Goal == /\ payments[s].payer
                     /\ handler'[NostrLoop].pc \in {"resend", "remark"}
                     /\ s \in todo \/ UNCHANGED payments
  <1>1. ASSUME s \in todo, UNCHANGED handler
        PROVE  Goal
    BY <1>1 DEF RowOwners
  <1>2. ASSUME NEW w \in Handler, s \in todo,
               handler[w].pc \notin {"resend", "remark"},
               NEW h, handler' = [handler EXCEPT ![w] = h]
        PROVE  Goal
    BY <1>2 DEF RowOwners
  <1>3. CASE Request
    <2>1. ASSUME NEW w \in Handler, NEW rail, NEW r, NEW key, NEW memo,
                 Receive(w, rail, r, key, memo)
          PROVE  Goal
      BY <1>2, <2>1 DEF Receive, At
    <2> QED BY <1>1, <1>3, <2>1 DEF Request, ViewInvoice, CreateInvoice, ReceiveNostr,
                                    ReceivePaste, ReceiveForeign, Handler
  <1>4. ASSUME NEW w \in Handler, HandlerStep(w)
        PROVE  Goal
    <2>1. s \in todo /\ handler[w].pc \notin {"resend", "remark"}
      BY <1>4 DEF HandlerStep, InsertPayment, ResolveDerived, ResolveMemo, ResolveAmount,
                  Resolve, DeleteRejected, PayInvoice, LinkPayment, NotifyReceived, Reply,
                  Deliver, MarkReplied, At
    <2>2. \E h : handler' = [handler EXCEPT ![w] = h]
      BY <1>4 DEF HandlerStep, InsertPayment, ResolveDerived, ResolveMemo, ResolveAmount,
                  Resolve, Resolved, Refuse, DeleteRejected, PayInvoice, LinkPayment,
                  NotifyReceived, Reply, Deliver, MarkReplied, Goto
    <2> QED BY <1>2, <2>1, <2>2
  <1>5. CASE BootStep
    <2>1. CASE BootReconcile
      BY <2>1 DEF BootReconcile, Goto, db
    <2>2. ASSUME NEW r \in Slate, Resend(r)
          PROVE  Goal
      <3>1. s \in todo
        BY <2>2 DEF Resend
      <3>2. CASE handler' = [handler EXCEPT ![NostrLoop] =
                               [Idle EXCEPT !.pc = "remark", !.slate = r]]
        BY <3>1, <3>2 DEF RowOwners, Idle
      <3> QED BY <1>1, <2>2, <3>1, <3>2 DEF Resend
    <2>3. CASE Remark
      BY <2>3 DEF Remark, RowOwners, Idle
    <2>4. CASE ResendDone
      BY <2>4 DEF ResendDone
    <2> QED BY <1>5, <2>1, <2>2, <2>3, <2>4 DEF BootStep
  <1>6. CASE PollStep
    BY <1>1, <1>6 DEF PollStep, PollStart, PollUpdate, PollFinalize, PollNotify, PollDone,
                      PollRead
  <1>7. CASE Environment
    BY <1>1, <1>7 DEF Environment, Tick, RefreshDirectory, Block
  <1>8. CASE Failure
    <2>1. ASSUME NEW w \in Handler, StatementFails(w)
          PROVE  Goal
      <3>1. CASE handler[w].pc = "remark"
        BY <2>1, <3>1 DEF StatementFails, AfterFailure, Idle, RowOwners, Shape,
                          HandlerShape, LocalShape
      <3>2. CASE handler[w].pc # "remark"
        BY <1>2, <2>1, <3>2 DEF StatementFails
      <3> QED BY <3>1, <3>2
    <2>2. ASSUME NEW w \in Handler, ReplyFails(w)
          PROVE  Goal
      BY <1>2, <2>2 DEF ReplyFails, At
    <2>3. ASSUME NEW r \in Slate, ResendFails(r)
          PROVE  Goal
      BY <1>1, <2>3 DEF ResendFails
    <2> QED BY <1>1, <1>8, <2>1, <2>2, <2>3
        DEF Failure, RefreshDirectoryFails, PollStatementFails, Crash,
            WalletFailsAfterCommit, Reorg, PollNodeFails
  <1>9. CASE UNCHANGED vars
    BY <1>1, <1>9 DEF vars
  <1> QED BY <1>3, <1>4, <1>5, <1>6, <1>7, <1>8, <1>9 DEF Next

-----------------------------------------------------------------------------
(* Ownership: what each conjunct needs of the step.                        *)

\* Facts of the current state used throughout.
LEMMA Owned ==
    ASSUME Shape, Ownership
    PROVE  /\ \A v \in Handler : handler[v].slate \in Slate => handler[v].slate \in wallet
           /\ AbsentPayment.payer = FALSE /\ AbsentPayment.inv = NULL /\ AbsentPayment.conf = 0
           /\ \A v, w \in Handler :
                handler[v].slate = handler[w].slate /\ handler[v].slate \in Slate => v = w
           /\ NULL \notin Slate /\ NULL \notin Invoice
           /\ handler \in [Handler -> HandlerState] /\ payments \in [Slate -> Payment]
           /\ invoices \in [Invoice -> Row]
           /\ Handler = {NostrLoop} \cup HttpWorkers /\ NostrLoop \notin HttpWorkers
  <1>1. NULL \notin Slate /\ NULL \notin Invoice
    BY TableAssumption
  <1>2. \A v, w \in Handler :
          handler[v].slate = handler[w].slate /\ handler[v].slate \in Slate => v = w
    BY <1>1 DEF Ownership, SingleWriter
  <1>3. AbsentPayment.payer = FALSE /\ AbsentPayment.inv = NULL /\ AbsentPayment.conf = 0
    BY DEF AbsentPayment
  <1> QED BY <1>1, <1>2, <1>3, SettlementAssumption
          DEF Ownership, WalletKnows, Shape, TypeOK, Handler

LEMMA WalletKnowsStep ==
    ASSUME Shape, Shape', Ownership, [Next]_vars
    PROVE  WalletKnows'
  <1> USE Owned, WalletGrows
  <1>1. ASSUME NEW v \in Handler, handler'[v].slate \in Slate
        PROVE  handler'[v].slate \in wallet'
    <2>1. ASSUME handler'[v].slate = handler[v].slate PROVE handler'[v].slate \in wallet'
      BY <1>1, <2>1 DEF Ownership, WalletKnows
    <2>2. ASSUME NEW w \in Handler, Advances(w) \/ Resolves(w) \/ Releases(w) \/ Takes(w)
          PROVE  handler'[v].slate \in wallet'
      BY <1>1, <2>1, <2>2 DEF Advances, Resolves, Releases, Takes, HandlerState, Idle
    <2>3. ASSUME NEW s \in Slate, Resends(s)
          PROVE  handler'[v].slate \in wallet'
      <3>1. s \in wallet
        BY <2>3 DEF Resends, Resend, Ownership, RowOwners, WalletKnows
      <3> QED BY <2>1, <2>3, <3>1 DEF Resends, Idle
    <2>4. handler' # AllIdle
      BY <1>1 DEF AllIdle, Idle
    <2> QED BY <2>1, <2>2, <2>3, <2>4, HandlersSteps DEF HandlersStep
  <1>2. ASSUME NEW s \in Slate, s \notin wallet'
        PROVE  payments'[s] = AbsentPayment
    <2>1. s \notin wallet /\ payments[s] = AbsentPayment
      BY <1>2 DEF Ownership, WalletKnows
    <2>2. ~Present(s)
      BY <2>1 DEF Present, AbsentPayment
    <2> QED BY <2>1, <2>2, LedgerSteps
        DEF LedgerStep, Inserts, Links, Deletes, Replies, Deepens
  <1>3. ASSUME NEW i \in Invoice, invoices'[i].paidBy \in Slate
        PROVE  invoices'[i].paidBy \in wallet'
    <2>1. ASSUME invoices'[i].paidBy = invoices[i].paidBy
          PROVE  invoices'[i].paidBy \in wallet'
      BY <1>3, <2>1 DEF Ownership, WalletKnows
    <2>2. ASSUME NEW j \in Invoice, Expires(j)
          PROVE  invoices'[i].paidBy \in wallet'
      BY <2>1, <2>2 DEF Expires, Row
    <2>3. ASSUME NEW j \in Invoice, Opens(j)
          PROVE  invoices'[i].paidBy \in wallet'
      BY <1>3, <2>1, <2>3 DEF Opens, Created
    <2>4. ASSUME NEW w \in Handler, Pays(w)
          PROVE  invoices'[i].paidBy \in wallet'
      BY <2>1, <2>4 DEF Pays, Row
    <2>5. ASSUME Confirms
          PROVE  invoices'[i].paidBy \in wallet'
      BY <2>1, <2>5 DEF Confirms, Row
    <2> QED BY <2>1, <2>2, <2>3, <2>4, <2>5, TableSteps DEF TableStep
  <1> QED BY <1>1, <1>2, <1>3 DEF WalletKnows

\* A payment's payer is set when its row is inserted, by the Nostr loop.
LEMMA PayerStep ==
    ASSUME Shape, Ownership, [Next]_vars, NEW s \in Slate
    PROVE  \/ payments'[s].payer = payments[s].payer
           \/ \E w \in Handler : Inserts(w) /\ handler[w].slate = s
           \/ \E w \in Handler : Deletes(w) /\ handler[w].slate = s
  <1> USE Owned
  <1>1. CASE UNCHANGED payments
    BY <1>1
  <1>2. ASSUME NEW w \in Handler, Inserts(w) \/ Deletes(w), handler[w].slate # s
        PROVE  payments'[s].payer = payments[s].payer
    BY <1>2 DEF Inserts, Deletes
  <1>3. ASSUME NEW w \in Handler, Links(w)
        PROVE  payments'[s].payer = payments[s].payer
    BY <1>3 DEF Links, Payment
  <1>4. ASSUME NEW r \in Slate, Replies(r)
        PROVE  payments'[s].payer = payments[s].payer
    BY <1>4 DEF Replies, Payment
  <1>5. CASE Deepens
    BY <1>5 DEF Deepens, OnChain, Payment
  <1> QED BY <1>1, <1>2, <1>3, <1>4, <1>5, LedgerSteps DEF LedgerStep

LEMMA RowOwnersStep ==
    ASSUME Shape, Shape', Ownership, [Next]_vars
    PROVE  RowOwners'
  <1> USE Owned
  <1>1. ASSUME NEW s \in Slate, payments'[s].status = "absent"
        PROVE  payments'[s] = AbsentPayment
    <2>1. CASE UNCHANGED payments
      BY <1>1, <2>1 DEF Ownership, RowOwners, Present
    <2>2. ASSUME NEW w \in Handler, handler[w].slate # s, Inserts(w) \/ Deletes(w)
          PROVE  payments'[s] = AbsentPayment
      <3>1. payments'[s] = payments[s]
        BY <2>2 DEF Inserts, Deletes
      <3> QED BY <1>1, <3>1 DEF Present, Ownership, RowOwners
    <2>6. ASSUME NEW w \in Handler, handler[w].slate = s, Inserts(w)
          PROVE  payments'[s] = AbsentPayment
      <3>1. payments'[s].status = "received"
        BY <2>6 DEF Inserts, NewRow
      <3> QED BY <1>1, <3>1
    <2>7. ASSUME NEW w \in Handler, handler[w].slate = s, Deletes(w)
          PROVE  payments'[s] = AbsentPayment
      BY <2>7 DEF Deletes
    <2>5. ASSUME NEW w \in Handler, Links(w)
          PROVE  payments'[s] = AbsentPayment
      BY <1>1, <2>5 DEF Links, Present, Payment, Ownership, RowOwners
    <2>3. ASSUME NEW r \in Slate, Replies(r)
          PROVE  payments'[s] = AbsentPayment
      BY <1>1, <2>3 DEF Replies, Present, Payment, Ownership, RowOwners
    <2>4. CASE Deepens
      BY <1>1, <2>4 DEF Deepens, OnChain, Present, Payment, Ownership, RowOwners
    <2> QED BY <2>1, <2>2, <2>3, <2>4, <2>5, <2>6, <2>7, LedgerSteps DEF LedgerStep
  <1>2. ASSUME NEW v \in HttpWorkers
        PROVE  /\ handler'[v].rail # "nostr"
               /\ handler'[v].slate \in Slate => ~payments'[handler'[v].slate].payer
    <2> DEFINE Goal == /\ handler'[v].rail # "nostr"
                       /\ handler'[v].slate \in Slate => ~payments'[handler'[v].slate].payer
    <2>1. ASSUME handler'[v].rail = handler[v].rail, handler'[v].slate = handler[v].slate
          PROVE  Goal
      <3> DEFINE s == handler[v].slate
      <3>1. handler'[v].rail # "nostr"
        BY <2>1 DEF Ownership, RowOwners
      <3>2. CASE s \notin Slate
        BY <2>1, <3>1, <3>2
      <3>3. CASE s \in Slate
        <4>1. ~payments[s].payer /\ handler[v].rail # "nostr"
          BY <3>3 DEF Ownership, RowOwners
        <4>2. ASSUME NEW w \in Handler, Inserts(w), handler[w].slate = s
              PROVE  ~payments'[s].payer
          <5>1. w = v
            BY <3>3, <4>2
          <5> QED BY <3>3, <4>1, <4>2, <5>1 DEF Inserts, NewRow
        <4>3. ASSUME NEW w \in Handler, Deletes(w), handler[w].slate = s
              PROVE  ~payments'[s].payer
          BY <3>3, <4>3 DEF Deletes
        <4>4. ~payments'[s].payer
          BY <3>3, <4>1, <4>2, <4>3, PayerStep
        <4> QED BY <2>1, <3>1, <4>4
      <3> QED BY <3>2, <3>3
    <2>2. ASSUME handler'[v].rail # "nostr", handler'[v].slate \notin Slate
          PROVE  Goal
      BY <2>2
    <2>3. ASSUME NEW w \in Handler, Advances(w) \/ Resolves(w)
          PROVE  Goal
      BY <2>1, <2>3 DEF Advances, Resolves, HandlerState
    <2>4. ASSUME NEW w \in Handler, Releases(w)
          PROVE  Goal
      BY <2>1, <2>2, <2>4, SettlementAssumption DEF Releases, Idle
    <2>5. ASSUME NEW w \in Handler, Takes(w)
          PROVE  Goal
      <3>1. CASE v # w
        BY <2>1, <2>5, <3>1 DEF Takes
      <3>2. CASE v = w
        <4>1. handler'[v].slate \in Slate \ wallet /\ handler'[v].rail # "nostr"
          BY <2>5, <3>2 DEF Takes
        <4> QED BY <2>5, <4>1 DEF Takes, Ownership, WalletKnows
      <3> QED BY <3>1, <3>2
    <2>6. ASSUME NEW s \in Slate, Resends(s)
          PROVE  Goal
      BY <2>1, <2>6 DEF Resends
    <2>7. CASE handler' = AllIdle
      BY <2>2, <2>7, SettlementAssumption DEF AllIdle, Idle
    <2> QED BY <2>1, <2>3, <2>4, <2>5, <2>6, <2>7, HandlersSteps DEF HandlersStep
  <1>3. ASSUME NEW s \in todo'
        PROVE  payments'[s].payer /\ handler'[NostrLoop].pc \in {"resend", "remark"}
    <2>1. /\ payments[s].payer /\ handler'[NostrLoop].pc \in {"resend", "remark"}
          /\ s \in todo \/ UNCHANGED payments
      BY TodoSteps DEF Ownership
    <2>2. CASE UNCHANGED payments
      BY <2>1, <2>2
    <2>3. CASE s \in todo
      <3>0. s \in Slate
        BY <2>3 DEF Shape, TypeOK
      <3>1. ASSUME NEW w \in Handler, Inserts(w) \/ Deletes(w), handler[w].slate = s
            PROVE  FALSE
        <4>1. handler[w].pc \in {"insert", "delete"}
          BY <3>1 DEF Inserts, Deletes, InsertPayment, DeleteRejected, At
        <4>2. w # NostrLoop
          BY <2>3, <4>1 DEF Ownership, RowOwners
        <4> QED BY <2>1, <3>0, <3>1, <4>2 DEF Ownership, RowOwners
      <3> QED BY <2>1, <3>0, <3>1, PayerStep
    <2> QED BY <2>1, <2>2, <2>3
  <1> QED BY <1>1, <1>2, <1>3 DEF RowOwners, Present

LEMMA SingleWriterStep ==
    ASSUME Shape, Shape', Ownership, [Next]_vars
    PROVE  SingleWriter'
  <1> USE Owned
  <1> SUFFICES ASSUME NEW v \in Handler, NEW w \in Handler, v # w,
                      handler'[v].slate # NULL, handler'[v].slate = handler'[w].slate
               PROVE  FALSE
    BY DEF SingleWriter
  <1>0. handler'[v].slate \in Slate
    BY DEF Shape, TypeOK, HandlerState
  <1>1. ASSUME handler'[v].slate = handler[v].slate, handler'[w].slate = handler[w].slate
        PROVE  FALSE
    BY <1>0, <1>1
  <1>2. ASSUME NEW u \in Handler, Advances(u) \/ Resolves(u)
        PROVE  FALSE
    BY <1>1, <1>2 DEF Advances, Resolves, HandlerState
  <1>3. ASSUME NEW u \in Handler, Releases(u)
        PROVE  FALSE
    BY <1>0, <1>1, <1>3 DEF Releases, Idle
  <1>4. ASSUME NEW u \in Handler, Takes(u)
        PROVE  FALSE
    BY <1>0, <1>1, <1>4 DEF Takes
  <1>5. ASSUME NEW s \in Slate, Resends(s)
        PROVE  FALSE
    <2>1. payments[s].payer
      BY <1>5 DEF Resends, Resend, Ownership, RowOwners
    <2>2. \A u \in HttpWorkers : handler[u].slate # s
      BY <2>1 DEF Ownership, RowOwners
    <2> QED BY <1>0, <1>1, <1>5, <2>2 DEF Resends, Idle
  <1>6. handler' # AllIdle
    BY <1>0 DEF AllIdle, Idle
  <1> QED BY <1>1, <1>2, <1>3, <1>4, <1>5, <1>6, HandlersSteps DEF HandlersStep

\* A row's link changes where LinkPayment writes it, or a new row starts.
LEMMA LinkStep ==
    ASSUME Shape, Ownership, [Next]_vars, NEW s \in Slate
    PROVE  \/ payments'[s].inv = payments[s].inv
           \/ payments'[s].inv = NULL /\ payments[s].inv = NULL
           \/ \E w \in Handler : Links(w) /\ handler[w].slate = s
  <1> USE Owned
  <1>1. CASE UNCHANGED payments
    BY <1>1
  <1>2. ASSUME NEW w \in Handler, Inserts(w)
        PROVE  \/ payments'[s].inv = payments[s].inv
               \/ payments'[s].inv = NULL /\ payments[s].inv = NULL
    <2>1. CASE handler[w].slate = s
      BY <1>2, <2>1 DEF Inserts, NewRow, Ownership, RowOwners
    <2> QED BY <1>2, <2>1 DEF Inserts
  <1>3. ASSUME NEW w \in Handler, Deletes(w)
        PROVE  \/ payments'[s].inv = payments[s].inv
               \/ payments'[s].inv = NULL /\ payments[s].inv = NULL
    <2>1. CASE handler[w].slate = s
      BY <1>3, <2>1 DEF Deletes, DeleteRejected, At, Ownership, OneLink, Unlinking
    <2> QED BY <1>3, <2>1 DEF Deletes
  <1>4. ASSUME NEW w \in Handler, Links(w), handler[w].slate # s
        PROVE  payments'[s].inv = payments[s].inv
    BY <1>4 DEF Links
  <1>5. ASSUME NEW r \in Slate, Replies(r)
        PROVE  payments'[s].inv = payments[s].inv
    BY <1>5 DEF Replies, Payment
  <1>6. CASE Deepens
    BY <1>6 DEF Deepens, OnChain, Payment
  <1> QED BY <1>1, <1>2, <1>3, <1>4, <1>5, <1>6, LedgerSteps DEF LedgerStep

\* The invoices a payment is recorded on change where PayInvoice writes them.
LEMMA PayerOfStep ==
    ASSUME Shape, Ownership, [Next]_vars, NEW i \in Invoice
    PROVE  \/ invoices'[i].paidBy = invoices[i].paidBy
           \/ \E w \in Handler : /\ Pays(w) /\ handler[w].inv = i
                                 /\ invoices'[i].paidBy = handler[w].slate
  <1> USE Owned
  <1>1. ASSUME NEW j \in Invoice, Expires(j)
        PROVE  invoices'[i].paidBy = invoices[i].paidBy
    BY <1>1 DEF Expires, Row
  <1>2. ASSUME NEW j \in Invoice, Opens(j)
        PROVE  invoices'[i].paidBy = invoices[i].paidBy
    <2>1. CASE i = j
      <3>1. invoices[i].paidBy = NULL
        BY <1>2, <2>1 DEF Opens, Ownership, OnePayment, Settled
      <3> QED BY <1>2, <2>1, <3>1 DEF Opens, Created
    <2> QED BY <1>2, <2>1 DEF Opens
  <1>3. ASSUME NEW w \in Handler, Pays(w)
        PROVE  \/ invoices'[i].paidBy = invoices[i].paidBy
               \/ handler[w].inv = i /\ invoices'[i].paidBy = handler[w].slate
    BY <1>3 DEF Pays, Row
  <1>4. CASE Confirms
    BY <1>4 DEF Confirms, Row
  <1> QED BY <1>1, <1>2, <1>3, <1>4, TableSteps DEF TableStep

LEMMA OneLinkStep ==
    ASSUME Shape, Shape', Ownership, [Next]_vars
    PROVE  OneLink'
  <1> USE Owned
  <1> SUFFICES ASSUME NEW v \in Handler, handler'[v].pc \in Unlinking
               PROVE  /\ payments'[handler'[v].slate].inv = NULL
                      /\ handler'[v].pc \in Unpaying =>
                            \A i \in Invoice : invoices'[i].paidBy # handler'[v].slate
    BY DEF OneLink, Unpaying
  <1> DEFINE s == handler[v].slate
             Goal == /\ payments'[handler'[v].slate].inv = NULL
                     /\ handler'[v].pc \in Unpaying =>
                            \A i \in Invoice : invoices'[i].paidBy # handler'[v].slate
  <1>1. ASSUME handler'[v].slate = s, handler[v].pc \in Unlinking,
               handler'[v].pc \in Unpaying => handler[v].pc \in Unpaying
        PROVE  Goal
    <2>1. s \in Slate /\ payments[s].inv = NULL
      BY <1>1 DEF Shape, HandlerShape, LocalShape, Unlinking, BusyPC, Ownership, OneLink
    <2>2. ASSUME NEW w \in Handler, Links(w), handler[w].slate = s
          PROVE  FALSE
      <3>1. w = v
        BY <2>1, <2>2
      <3>2. handler'[v].pc = "notify"
        BY <2>2, <3>1 DEF Links, LinkPayment, Goto, HandlerState
      <3> QED BY <3>2 DEF Unlinking
    <2>3. payments'[s].inv = NULL
      BY <2>1, <2>2, LinkStep
    <2>4. ASSUME handler'[v].pc \in Unpaying, NEW i \in Invoice, invoices'[i].paidBy = s
          PROVE  FALSE
      <3>1. invoices[i].paidBy # s
        BY <1>1, <2>4 DEF Ownership, OneLink
      <3>2. PICK w \in Handler : Pays(w) /\ handler[w].slate = s
        BY <2>4, <3>1, PayerOfStep
      <3>3. w = v
        BY <2>1, <3>2
      <3>4. handler'[v].pc = "link"
        BY <3>2, <3>3 DEF Pays, PayInvoice, Goto, HandlerState
      <3> QED BY <2>4, <3>4 DEF Unpaying
    <2> QED BY <1>1, <2>3, <2>4
  <1>2. CASE UNCHANGED handler
    BY <1>1, <1>2
  <1>3. ASSUME NEW w \in Handler, Advances(w)
        PROVE  Goal
    BY <1>1, <1>3 DEF Advances
  <1>4. ASSUME NEW w \in Handler, Resolves(w)
        PROVE  Goal
    <2>1. handler'[v].slate = s
      BY <1>4 DEF Resolves, HandlerState
    <2>2. v = w => handler[v].pc \in Unpaying
      BY <1>4 DEF Resolves, Unlinking, Unpaying
    <2>3. v # w => handler'[v] = handler[v]
      BY <1>4 DEF Resolves
    <2> QED BY <1>1, <2>1, <2>2, <2>3 DEF Unpaying
  <1>5. ASSUME NEW w \in Handler, Releases(w)
        PROVE  Goal
    BY <1>1, <1>5 DEF Releases, Idle, Unlinking
  <1>6. ASSUME NEW w \in Handler, Takes(w)
        PROVE  Goal
    <2>1. CASE v # w
      BY <1>1, <1>6, <2>1 DEF Takes
    <2>2. CASE v = w
      <3>1. handler'[v].slate \in Slate \ wallet /\ UNCHANGED payments
        BY <1>6, <2>2 DEF Takes
      <3>2. payments'[handler'[v].slate].inv = NULL
        BY <3>1 DEF Ownership, WalletKnows
      <3>3. ASSUME NEW i \in Invoice
            PROVE  invoices'[i].paidBy # handler'[v].slate
        <4>1. invoices[i].paidBy # handler'[v].slate
          BY <3>1 DEF Ownership, WalletKnows
        <4>2. \A u \in Handler : handler[u].slate # handler'[v].slate
          BY <3>1
        <4> QED BY <4>1, <4>2, PayerOfStep
      <3> QED BY <3>2, <3>3
    <2> QED BY <2>1, <2>2
  <1>7. ASSUME NEW r \in Slate, Resends(r)
        PROVE  Goal
    BY <1>1, <1>7 DEF Resends, Idle, Unlinking
  <1>8. handler' # AllIdle
    BY DEF AllIdle, Idle, Unlinking
  <1> QED BY <1>2, <1>3, <1>4, <1>5, <1>6, <1>7, <1>8, HandlersSteps DEF HandlersStep

LEMMA OnePaymentStep ==
    ASSUME Shape, Shape', Ownership, [Next]_vars
    PROVE  OnePayment'
  <1> USE Owned
  <1>1. ASSUME NEW i \in Invoice
        PROVE  invoices'[i].paidBy # NULL <=> Settled(i)'
    <2>1. invoices[i].paidBy # NULL <=> Settled(i)
      BY DEF Ownership, OnePayment
    <2>2. CASE UNCHANGED invoices
      BY <2>1, <2>2 DEF Settled
    <2>3. ASSUME NEW j \in Invoice, Expires(j)
          PROVE  invoices'[i].paidBy # NULL <=> Settled(i)'
      BY <2>1, <2>3 DEF Expires, Settled, Row
    <2>4. ASSUME NEW j \in Invoice, Opens(j)
          PROVE  invoices'[i].paidBy # NULL <=> Settled(i)'
      BY <2>1, <2>4 DEF Opens, Created, Settled
    <2>5. ASSUME NEW w \in Handler, Pays(w)
          PROVE  invoices'[i].paidBy # NULL <=> Settled(i)'
      BY <2>1, <2>5 DEF Pays, Settled, Row
    <2>6. CASE Confirms
      BY <2>1, <2>6 DEF Confirms, Settled, Row
    <2> QED BY <2>2, <2>3, <2>4, <2>5, <2>6, TableSteps DEF TableStep
  <1>2. ASSUME NEW i \in Invoice, NEW j \in Invoice, i # j,
               invoices'[i].paidBy = invoices'[j].paidBy, invoices'[i].paidBy # NULL
        PROVE  FALSE
    <2>1. ASSUME NEW w \in Handler, Pays(w), NEW k \in Invoice
          PROVE  invoices[k].paidBy # handler[w].slate
      BY <2>1 DEF Pays, PayInvoice, At, Ownership, OneLink, Unpaying, Unlinking
    <2>2. ASSUME invoices'[i].paidBy = invoices[i].paidBy,
                 invoices'[j].paidBy = invoices[j].paidBy
          PROVE  FALSE
      BY <1>2, <2>2 DEF Ownership, OnePayment
    <2>3. ASSUME NEW w \in Handler, Pays(w), handler[w].inv \in {i, j}
          PROVE  FALSE
      BY <1>2, <2>1, <2>3 DEF Pays, Row
    <2> QED BY <2>2, <2>3, PayerOfStep
  <1> QED BY <1>1, <1>2 DEF OnePayment

LEMMA InitOwnership == Init => Ownership
  <1> SUFFICES ASSUME Init PROVE Ownership
    OBVIOUS
  <1> USE TableAssumption, SettlementAssumption
  <1>1. \A w \in Handler : /\ handler[w].slate = NULL /\ handler[w].rail = NULL
                           /\ handler[w].pc \in {"idle", "boot"}
    BY DEF Init, AllIdle, Idle
  <1>2. WalletKnows /\ RowOwners
    BY <1>1 DEF Init, WalletKnows, RowOwners, AbsentRow, Present, Handler
  <1>3. SingleWriter /\ OneLink
    BY <1>1 DEF SingleWriter, OneLink, Unlinking, Unpaying
  <1>4. OnePayment
    BY DEF Init, OnePayment, Settled, AbsentRow
  <1> QED BY <1>2, <1>3, <1>4 DEF Ownership

LEMMA OwnershipInductive ==
    ASSUME Shape, Ownership, [Next]_vars
    PROVE  Ownership'
  BY ShapeInductive, WalletKnowsStep, RowOwnersStep, SingleWriterStep, OneLinkStep,
     OnePaymentStep
  DEF Ownership

\* No two handlers ever work on the same payment: what the wallet's duplicate
\* guard, the payer column and the single Nostr loop keep together through
\* crashes and the boot reconcile.
THEOREM WritersAreSingle == Spec => []SingleWriter
  <1>1. Shape /\ Ownership /\ [Next]_vars => (Shape /\ Ownership)'
    BY ShapeInductive, OwnershipInductive
  <1>2. Ownership => SingleWriter
    BY DEF Ownership
  <1> QED BY <1>1, <1>2, InitShape, InitOwnership, PTL DEF Spec

=============================================================================
