---------------------- MODULE SettlementLifecycleProofs ----------------------
(***************************************************************************)
(* What comes of a payment: what `confirmed` means, that the money path    *)
(* implements what a merchant is promised about an invoice, and what the   *)
(* payer and the store are told while certain faults stay away.            *)
(***************************************************************************)
EXTENDS SettlementProofs

\* The invariant behind `confirmed`.
Path == Ownership /\ Finality

-----------------------------------------------------------------------------
(* What a step may do to the poll and to the announcements.                *)

SamePoll == \E n \in Nat : poll' = [poll EXCEPT !.blocks = n]
TakesUp(x) == /\ poll.pc = "next" /\ x \in poll.work
              /\ poll' = [poll EXCEPT !.work = @ \ {x}, !.pc = "update",
                                      !.slate = x.slate, !.inv = x.inv,
                                      !.conf = depth[x.slate]]
              /\ UNCHANGED <<invoices, payments>>
Skips(x) == /\ poll.pc = "next" /\ poll' = [poll EXCEPT !.work = @ \ {x}]
            /\ UNCHANGED <<invoices, payments>>
Abandons == poll' = NextItem /\ UNCHANGED <<invoices, payments>>

PassStep == \/ SamePoll
            \/ PollStart \/ PollUpdate \/ PollFinalize \/ PollNotify
            \/ \E x \in poll.work : TakesUp(x) \/ Skips(x)
            \/ Abandons
            \/ poll' = IdlePoll /\ UNCHANGED <<invoices, payments>>

LEMMA PassSteps ==
    ASSUME Shape, [Next]_vars
    PROVE  PassStep /\ (PollNotify \/ UNCHANGED confirmedHook)
  <1> poll \in PollState
    BY DEF Shape, TypeOK
  <1>0. ASSUME UNCHANGED poll PROVE SamePoll
    <2>1. poll' = [poll EXCEPT !.blocks = poll.blocks] /\ poll.blocks \in Nat
      BY <1>0 DEF PollState
    <2> QED BY <2>1 DEF SamePoll
  <1>1. CASE Request
    BY <1>0, <1>1 DEF Request, ViewInvoice, CreateInvoice, ReceiveNostr, ReceivePaste,
                ReceiveForeign, Receive, PassStep
  <1>2. ASSUME NEW w \in Handler, HandlerStep(w)
        PROVE  PassStep /\ UNCHANGED confirmedHook
    BY <1>0, <1>2 DEF HandlerStep, InsertPayment, ResolveDerived, ResolveMemo, ResolveAmount,
                Resolve, DeleteRejected, PayInvoice, LinkPayment, NotifyReceived, Reply,
                Deliver, MarkReplied, PassStep, db
  <1>3. CASE BootStep
    BY <1>0, <1>3 DEF BootStep, BootReconcile, Resend, Remark, ResendDone, PassStep, db
  <1>4. CASE PollStep
    <2>1. ASSUME NEW x \in poll.work, PollRead(x)
          PROVE  PassStep /\ UNCHANGED confirmedHook
      BY <2>1 DEF PollRead, PassStep, TakesUp, Skips, db
    <2> QED BY <1>4, <2>1 DEF PollStep, PollStart, PollUpdate, PollFinalize, PollDone,
                              PassStep, db
  <1>5. CASE Environment
    <2>1. ASSUME NEW S \in SUBSET Slate, Block(S)
          PROVE  PassStep /\ UNCHANGED confirmedHook
      <3>1. poll.blocks + 1 \in Nat
        BY DEF PollState
      <3> QED BY <1>0, <2>1, <3>1 DEF Block, PassStep, SamePoll, db
    <2> QED BY <1>0, <1>5, <2>1 DEF Environment, Tick, RefreshDirectory, PassStep, db
  <1>6. CASE Failure
    BY <1>0, <1>6 DEF Failure, RefreshDirectoryFails, PollStatementFails, Crash, ReplyFails,
                StatementFails, WalletFailsAfterCommit, ResendFails, Reorg, PollNodeFails,
                PassStep, Skips, Abandons, db
  <1>7. CASE UNCHANGED vars
    BY <1>0, <1>7 DEF vars, PassStep, db
  <1> QED BY <1>1, <1>2, <1>3, <1>4, <1>5, <1>6, <1>7 DEF Next

-----------------------------------------------------------------------------
(* What stands once it is written.                                         *)

\* A link is for good: the row it is in is neither deleted nor linked again.
LEMMA LinkStands ==
    ASSUME Shape, Ownership, [Next]_vars, NEW s \in Slate, payments[s].inv # NULL
    PROVE  payments'[s].inv = payments[s].inv
  <1> USE Owned
  <1>1. ASSUME NEW w \in Handler, Links(w), handler[w].slate = s
        PROVE  FALSE
    BY <1>1 DEF Links, LinkPayment, At, Ownership, OneLink, Unlinking
  <1> QED BY <1>1, LinkStep

\* A row's depth changes where PollUpdate writes it, or a row starts or ends.
LEMMA DepthStep ==
    ASSUME Shape, Ownership, [Next]_vars, NEW s \in Slate
    PROVE  \/ payments'[s].conf = payments[s].conf
           \/ payments'[s].conf = 0 /\ payments[s].inv = NULL
           \/ Deepens /\ poll.slate = s
  <1> USE Owned
  <1>1. CASE UNCHANGED payments
    BY <1>1
  <1>2. ASSUME NEW w \in Handler, Inserts(w) \/ Deletes(w), handler[w].slate # s
        PROVE  payments'[s].conf = payments[s].conf
    BY <1>2 DEF Inserts, Deletes
  <1>3. ASSUME NEW w \in Handler, Inserts(w), handler[w].slate = s
        PROVE  payments'[s].conf = 0 /\ payments[s].inv = NULL
    BY <1>3 DEF Inserts, NewRow, Ownership, RowOwners
  <1>4. ASSUME NEW w \in Handler, Deletes(w), handler[w].slate = s
        PROVE  payments'[s].conf = 0 /\ payments[s].inv = NULL
    BY <1>4 DEF Deletes, DeleteRejected, At, Ownership, OneLink, Unlinking
  <1>5. ASSUME NEW w \in Handler, Links(w)
        PROVE  payments'[s].conf = payments[s].conf
    BY <1>5 DEF Links, Payment
  <1>6. ASSUME NEW r \in Slate, Replies(r)
        PROVE  payments'[s].conf = payments[s].conf
    BY <1>6 DEF Replies, Payment
  <1>7. ASSUME Deepens, poll.slate # s
        PROVE  payments'[s].conf = payments[s].conf
    BY <1>7 DEF Deepens
  <1> QED BY <1>1, <1>2, <1>3, <1>4, <1>5, <1>6, <1>7, LedgerSteps DEF LedgerStep

\* `confirmed` is where an invoice's life ends.
LEMMA ConfirmedStands ==
    ASSUME Shape, [Next]_vars, NEW i \in Invoice, invoices[i].status = "confirmed"
    PROVE  invoices'[i].status = "confirmed"
  <1> invoices \in [Invoice -> Row]
    BY DEF Shape, TypeOK
  <1>1. ASSUME NEW j \in Invoice, Opens(j) PROVE invoices'[i] = invoices[i]
    BY <1>1 DEF Opens
  <1>2. ASSUME NEW j \in Invoice, Expires(j) PROVE invoices'[i] = invoices[i]
    BY <1>2 DEF Expires
  <1>3. ASSUME NEW w \in Handler, Pays(w) PROVE invoices'[i] = invoices[i]
    BY <1>3 DEF Pays
  <1>4. ASSUME Confirms PROVE invoices'[i] = invoices[i]
    BY <1>4 DEF Confirms
  <1> QED BY <1>1, <1>2, <1>3, <1>4, TableSteps DEF TableStep

\* An invoice becomes final in PollFinalize only.
LEMMA ConfirmedStep ==
    ASSUME Shape, [Next]_vars, NEW i \in Invoice, invoices'[i].status = "confirmed"
    PROVE  invoices[i].status = "confirmed" \/ (Confirms /\ poll.inv = i)
  <1> invoices \in [Invoice -> Row]
    BY DEF Shape, TypeOK
  <1>1. ASSUME NEW j \in Invoice, Opens(j) PROVE invoices[i].status = "confirmed"
    BY <1>1 DEF Opens, Created
  <1>2. ASSUME NEW j \in Invoice, Expires(j) PROVE invoices[i].status = "confirmed"
    BY <1>2 DEF Expires, Row
  <1>3. ASSUME NEW w \in Handler, Pays(w) PROVE invoices[i].status = "confirmed"
    BY <1>3 DEF Pays, Row
  <1>4. ASSUME Confirms, poll.inv # i PROVE invoices[i].status = "confirmed"
    BY <1>4 DEF Confirms
  <1> QED BY <1>1, <1>2, <1>3, <1>4, TableSteps DEF TableStep

-----------------------------------------------------------------------------
(* The work list.                                                          *)

\* A row that carries no depth to speak of keeps doing so, unless it is the
\* one the poll has in hand.
LEMMA ShallowStands ==
    ASSUME Shape, Ownership, [Next]_vars, NEW s \in Slate, s # poll.slate,
           payments[s].conf < Required
    PROVE  payments'[s].conf < Required
  BY DepthStep, SettlementAssumption

LEMMA DeepStands ==
    ASSUME Shape, Ownership, Finality, [Next]_vars, NEW s \in Slate,
           payments[s].inv # NULL, payments[s].conf = Required
    PROVE  payments'[s].conf = Required
  <1>1. ~(Deepens /\ poll.slate = s)
    <2> SUFFICES ASSUME Deepens, poll.slate = s PROVE FALSE
      OBVIOUS
    <2>1. poll.pc = "update" /\ s # NULL
      BY TableAssumption DEF Deepens, PollUpdate
    <2>2. payments[s].conf < Required
      BY <2>1 DEF Finality, WorkList
    <2> QED BY <2>2, SettlementAssumption
  <1> QED BY <1>1, DepthStep

\* An item of the list stays true of the tables while it waits.
Waiting(x) == /\ payments[x.slate].conf < Required
              /\ x.inv # NULL => payments[x.slate].inv = x.inv

LEMMA WaitingStands ==
    ASSUME Shape, Ownership, [Next]_vars, NEW x \in WorkItem, Waiting(x), x.slate # poll.slate
    PROVE  Waiting(x)'
  <1>1. x.slate \in Slate
    BY DEF WorkItem
  <1> QED BY <1>1, ShallowStands, LinkStands DEF Waiting

\* The list after a step that keeps some of its items.
LEMMA ItemsStep ==
    ASSUME Shape, Ownership, WorkList, [Next]_vars, NEW x \in poll.work
    PROVE  Waiting(x)' /\ x.slate # poll.slate /\ x \in WorkItem
  <1>1. x \in WorkItem
    BY DEF Shape, TypeOK, PollState
  <1>2. Waiting(x) /\ x.slate # poll.slate
    BY DEF WorkList, Waiting
  <1> QED BY <1>1, <1>2, WaitingStands

\* Whatever happens meanwhile, the item in hand stays true of the tables.
LEMMA HandStands ==
    ASSUME Shape, Ownership, Finality, [Next]_vars, SamePoll
    PROVE  WorkList'
  <1> poll \in PollState /\ NULL \notin Slate \cup Invoice
    BY TableAssumption DEF Shape, TypeOK
  <1>0. poll'.work = poll.work /\ poll'.pc = poll.pc /\ poll'.slate = poll.slate
        /\ poll'.inv = poll.inv
    BY DEF SamePoll, PollState
  <1>1. WorkList
    BY DEF Finality
  <1>2. ~Deepens /\ ~PollNotify
    BY <1>0 DEF Deepens, PollUpdate, PollNotify, NextItem, IdlePoll, PollState
  <1>3. UNCHANGED confirmedHook
    BY <1>2, PassSteps
  <1>4. ASSUME poll.slate # NULL
        PROVE  /\ poll.inv # NULL => payments'[poll.slate].inv = poll.inv
               /\ poll.pc = "update" => payments'[poll.slate].conf < Required
    <2>1. poll.slate \in Slate
      BY <1>4 DEF PollState
    <2>2. poll.inv # NULL => payments'[poll.slate].inv = poll.inv
      BY <1>1, <1>4, <2>1, LinkStands DEF WorkList
    <2>3. poll.pc = "update" => payments'[poll.slate].conf < Required
      BY <1>1, <1>2, <1>4, <2>1, DepthStep, SettlementAssumption DEF WorkList
    <2> QED BY <2>2, <2>3
  <1>5. ASSUME poll.pc \in {"finalize", "notify"}
        PROVE  payments'[poll.slate].conf = Required
    <2>1. poll.slate \in Slate /\ poll.inv \in Invoice
      BY <1>5 DEF Shape, PollShape
    <2>2. payments[poll.slate].conf = Required /\ payments[poll.slate].inv # NULL
      BY <1>1, <1>5, <2>1 DEF WorkList
    <2> QED BY <2>1, <2>2, DeepStands
  <1>6. ASSUME poll.pc = "notify"
        PROVE  invoices'[poll.inv].status = "confirmed" /\ confirmedHook'[poll.inv] = 0
    BY <1>1, <1>3, <1>6, ConfirmedStands DEF Shape, PollShape, WorkList
  <1> QED BY <1>0, <1>1, <1>4, <1>5, <1>6, ItemsStep DEF WorkList, Waiting

\* With nothing in hand the list only has to be a part of what it was.
LEMMA EmptyHanded ==
    ASSUME Shape, Ownership, WorkList, [Next]_vars,
           poll'.work \subseteq poll.work, poll'.slate = NULL,
           poll'.pc \in {"idle", "next"}, poll'.pc = "idle" => poll'.work = {}
    PROVE  WorkList'
  <1>1. \A x \in poll'.work : Waiting(x)' /\ x.slate # NULL
    BY ItemsStep, TableAssumption DEF WorkItem
  <1>2. \A x, y \in poll'.work : x.slate = y.slate => x = y
    BY DEF WorkList
  <1> QED BY <1>1, <1>2 DEF WorkList, Waiting

LEMMA WorkListStep ==
    ASSUME Shape, Shape', Ownership, Finality, [Next]_vars
    PROVE  WorkList'
  <1> poll \in PollState /\ NULL \notin Slate \cup Invoice
    BY TableAssumption DEF Shape, TypeOK
  <1>0. WorkList
    BY DEF Finality
  <1>1. CASE SamePoll
    BY <1>1, HandStands
  <1>2. CASE PollStart
    <2>1. /\ poll'.pc = "next" /\ poll'.slate = NULL /\ poll'.work = Pending
          /\ UNCHANGED payments
      BY <1>2 DEF PollStart, IdlePoll, db
    <2>2. \A x \in Pending : x.slate \in Slate /\ Waiting(x)
      BY DEF Pending, Unfinal, Waiting
    <2>3. \A x, y \in Pending : x.slate = y.slate => x = y
      BY DEF Pending
    <2> QED BY <2>1, <2>2, <2>3 DEF WorkList, Waiting
  <1>3. ASSUME NEW x \in poll.work, TakesUp(x)
        PROVE  WorkList'
    <2>1. /\ poll'.pc = "update" /\ poll'.slate = x.slate /\ poll'.inv = x.inv
          /\ poll'.work = poll.work \ {x} /\ UNCHANGED payments
      BY <1>3 DEF TakesUp, PollState
    <2>2. \A y \in poll'.work : Waiting(y)' /\ y.slate # x.slate
      BY <1>0, <2>1, ItemsStep DEF WorkList
    <2>3. \A y, z \in poll'.work : y.slate = z.slate => y = z
      BY <1>0, <2>1 DEF WorkList
    <2>4. Waiting(x)'
      BY <1>0, ItemsStep
    <2> QED BY <2>1, <2>2, <2>3, <2>4 DEF WorkList, Waiting
  <1>4. ASSUME NEW x \in poll.work, Skips(x)
        PROVE  WorkList'
    <2>1. poll'.pc = "next" /\ poll'.slate = poll.slate /\ poll'.work \subseteq poll.work
      BY <1>4 DEF Skips, PollState
    <2>2. poll.slate = NULL
      BY <1>0, <1>4 DEF Skips, WorkList
    <2> QED BY <1>0, <2>1, <2>2, EmptyHanded
  <1>5. CASE poll' \in {NextItem, IdlePoll}
    <2>1. /\ poll'.pc \in {"idle", "next"} /\ poll'.slate = NULL
          /\ poll'.work \subseteq poll.work /\ (poll'.pc = "idle" => poll'.work = {})
      <3>1. CASE poll' = IdlePoll
        BY <3>1 DEF IdlePoll
      <3>2. CASE poll' = NextItem
        BY <3>2 DEF NextItem, IdlePoll
      <3> QED BY <1>5, <3>1, <3>2
    <2> QED BY <1>0, <2>1, EmptyHanded
  <1>6. CASE PollUpdate
    <2>1. CASE poll' = NextItem
      BY <1>5, <2>1
    <2>2. CASE Crossed(poll.conf) /\ poll.inv # NULL /\ poll' = [poll EXCEPT !.pc = "finalize"]
      <3> DEFINE s == poll.slate
      <3>1. /\ poll'.pc = "finalize" /\ poll'.slate = s /\ poll'.inv = poll.inv
            /\ poll'.work = poll.work
        BY <2>2 DEF PollState
      <3>2. s \in Slate /\ poll.conf = Required
        <4>1. s \in Slate /\ poll.conf \in 0..Required /\ poll.conf >= Required
          BY <1>6, <2>2 DEF PollUpdate, Crossed, PollState, Shape, PollShape
        <4> QED BY <4>1, SettlementAssumption
      <3>3. payments[s].inv = poll.inv
        BY <1>0, <2>2, <3>2 DEF WorkList
      <3>4. Present(s)
        BY <2>2, <3>2, <3>3 DEF Ownership, RowOwners, AbsentPayment
      <3>5. payments'[s].inv = poll.inv
        BY <2>2, <3>2, <3>3, LinkStands
      <3>6. payments'[s].conf = Required
        <4>1. payments' = [payments EXCEPT ![s] = OnChain(@, poll.conf)]
          BY <1>6, <3>4 DEF PollUpdate
        <4> QED BY <3>2, <4>1 DEF OnChain, Payment, Shape, TypeOK
      <3>7. \A x \in poll.work : Waiting(x)' /\ x.slate # s
        BY <1>0, ItemsStep
      <3> QED BY <1>0, <3>1, <3>5, <3>6, <3>7 DEF WorkList, Waiting
    <2> QED BY <1>6, <2>1, <2>2 DEF PollUpdate
  <1>7. CASE PollFinalize
    <2>1. CASE poll' = NextItem
      BY <1>5, <2>1
    <2>2. CASE MayConfirm(invoices, poll.inv) /\ poll' = [poll EXCEPT !.pc = "notify"]
      <3>1. /\ poll'.pc = "notify" /\ poll'.slate = poll.slate /\ poll'.inv = poll.inv
            /\ poll'.work = poll.work /\ UNCHANGED <<payments, confirmedHook>>
        BY <1>7, <2>2 DEF PollFinalize, PollState
      <3>2. poll.slate \in Slate /\ poll.inv \in Invoice
        BY <1>7 DEF PollFinalize, Shape, PollShape
      <3>3. invoices'[poll.inv].status = "confirmed"
        BY <1>7, <2>2, <3>2 DEF PollFinalize, MarkConfirmed, Shape, TypeOK, Row
      <3>4. confirmedHook[poll.inv] = 0
        BY <2>2, <3>2 DEF MayConfirm, Finality, ConfirmedOnce, Shape, TypeOK
      <3>5. payments[poll.slate].conf = Required /\ payments[poll.slate].inv = poll.inv
        BY <1>0, <1>7, <3>2 DEF PollFinalize, WorkList
      <3>6. \A x \in poll.work : Waiting(x)' /\ x.slate # poll.slate
        BY <1>0, ItemsStep
      <3> QED BY <1>0, <3>1, <3>3, <3>4, <3>5, <3>6 DEF WorkList, Waiting
    <2> QED BY <1>7, <2>1, <2>2 DEF PollFinalize
  <1>8. CASE PollNotify
    BY <1>5, <1>8 DEF PollNotify
  <1>9. CASE Abandons \/ (poll' = IdlePoll /\ UNCHANGED <<invoices, payments>>)
    BY <1>5, <1>9 DEF Abandons
  <1> QED BY <1>1, <1>2, <1>3, <1>4, <1>6, <1>7, <1>8, <1>9, PassSteps DEF PassStep

-----------------------------------------------------------------------------
(* What `confirmed` means.                                                 *)

LEMMA HasDepthStep ==
    ASSUME Shape, Shape', Ownership, Finality, [Next]_vars
    PROVE  ConfirmedHasDepth'
  <1> NULL \notin Invoice
    BY TableAssumption
  <1> SUFFICES ASSUME NEW i \in Invoice, invoices'[i].status = "confirmed"
               PROVE  \E s \in Slate : payments'[s].inv = i /\ payments'[s].conf = Required
    BY DEF ConfirmedHasDepth
  <1>1. ASSUME NEW s \in Slate, payments[s].inv = i, payments[s].conf = Required
        PROVE  payments'[s].inv = i /\ payments'[s].conf = Required
    BY <1>1, LinkStands, DeepStands
  <1>2. CASE invoices[i].status = "confirmed"
    BY <1>1, <1>2 DEF Finality, ConfirmedHasDepth
  <1>3. CASE Confirms /\ poll.inv = i
    <2>1. poll.pc = "finalize" /\ poll.slate \in Slate
      BY <1>3 DEF Confirms, PollFinalize, Shape, PollShape
    <2>2. poll.slate # NULL /\ poll.inv # NULL
      BY <1>3, <2>1, TableAssumption
    <2>3. payments[poll.slate].inv = i /\ payments[poll.slate].conf = Required
      BY <1>3, <2>1, <2>2 DEF Finality, WorkList
    <2> QED BY <1>1, <2>1, <2>3
  <1> QED BY <1>2, <1>3, ConfirmedStep

\* The announcement of the invoice in hand, or none.
LEMMA AnnounceStep ==
    ASSUME Shape, Ownership, Finality, [Next]_vars
    PROVE  \/ UNCHANGED confirmedHook
           \/ /\ UNCHANGED invoices /\ poll.inv \in Invoice
              /\ invoices[poll.inv].status = "confirmed" /\ confirmedHook[poll.inv] = 0
              /\ confirmedHook' = [confirmedHook EXCEPT ![poll.inv] = 1]
  <1>1. CASE PollNotify /\ ~UNCHANGED confirmedHook
    <2>1. poll.pc = "notify" /\ poll.inv \in Invoice /\ UNCHANGED invoices
      BY <1>1 DEF PollNotify, Shape, PollShape
    <2>2. invoices[poll.inv].status = "confirmed" /\ confirmedHook[poll.inv] = 0
      BY <2>1 DEF Finality, WorkList
    <2>3. confirmedHook' = [confirmedHook EXCEPT ![poll.inv] = confirmedHook[poll.inv] + 1]
      BY <1>1 DEF PollNotify
    <2> QED BY <2>1, <2>2, <2>3
  <1> QED BY <1>1, PassSteps

LEMMA ConfirmedOnceStep ==
    ASSUME Shape, Shape', Ownership, Finality, [Next]_vars
    PROVE  ConfirmedOnce'
  <1> SUFFICES ASSUME NEW i \in Invoice
               PROVE  /\ confirmedHook'[i] <= 1
                      /\ confirmedHook'[i] = 1 => invoices'[i].status = "confirmed"
    BY DEF ConfirmedOnce
  <1>1. /\ confirmedHook[i] <= 1
        /\ confirmedHook[i] = 1 => invoices'[i].status = "confirmed"
    BY ConfirmedStands DEF Finality, ConfirmedOnce
  <1> QED BY <1>1, AnnounceStep DEF Shape, TypeOK

LEMMA InitFinality == Init => Finality
  BY TableAssumption, SettlementAssumption
  DEF Init, Finality, WorkList, ConfirmedHasDepth, ConfirmedOnce, IdlePoll, AbsentRow

LEMMA PathInductive ==
    ASSUME Shape, Path, [Next]_vars
    PROVE  Path'
  BY ShapeInductive, OwnershipInductive, WorkListStep, HasDepthStep, ConfirmedOnceStep
  DEF Path, Finality

\* `confirmed` means a payment linked to this invoice was recorded at the
\* required depth, and is announced once: the poll works from a list that is
\* older than the tables it writes, through crashes and failed statements.
THEOREM ConfirmedIsFinal == Spec => [](ConfirmedHasDepth /\ ConfirmedOnce)
  <1>1. Shape /\ Path /\ [Next]_vars => (Shape /\ Path)'
    BY ShapeInductive, PathInductive
  <1>2. Path => ConfirmedHasDepth /\ ConfirmedOnce
    BY DEF Path, Finality
  <1>3. Init => Path
    BY InitOwnership, InitFinality DEF Path
  <1> QED BY <1>1, <1>2, <1>3, InitShape, PTL DEF Spec

-----------------------------------------------------------------------------
(* The refinement.                                                         *)

\* Each kind of step on the invoice table is a step of the lifecycle.
LEMMA LifecycleStep ==
    ASSUME Shape, ResolvedExactly, Path, [Next]_vars
    PROVE  [Lifecycle!Next]_(Lifecycle!vars)
  <1> USE Owned
  <1> Ownership /\ Finality
    BY DEF Path
  <1>1. CASE UNCHANGED invoices
    <2>1. CASE UNCHANGED confirmedHook
      BY <1>1, <2>1 DEF Lifecycle!vars
    <2>2. CASE /\ poll.inv \in Invoice
               /\ invoices[poll.inv].status = "confirmed" /\ confirmedHook[poll.inv] = 0
               /\ confirmedHook' = [confirmedHook EXCEPT ![poll.inv] = 1]
      <3>1. Lifecycle!Announce(poll.inv)
        BY <1>1, <2>2 DEF Lifecycle!Announce
      <3> QED BY <2>2, <3>1 DEF Lifecycle!Next
    <2> QED BY <2>1, <2>2, AnnounceStep
  <1>2. CASE invoices' # invoices
    <2>0. UNCHANGED confirmedHook
      BY <1>2, AnnounceStep
    <2>1. ASSUME NEW i \in Invoice, Expires(i)
          PROVE  Lifecycle!Next
      <3>1. Lifecycle!Expire(i)
        BY <2>0, <2>1 DEF Expires, Lifecycle!Expire, Row
      <3> QED BY <3>1 DEF Lifecycle!Next
    <2>2. ASSUME NEW i \in Invoice, Opens(i)
          PROVE  Lifecycle!Next
      <3>1. PICK p \in Offers, st \in {"open", "expired"} :
              invoices' = [invoices EXCEPT ![i] =
                             [Created(p, DefaultMode, now) EXCEPT !.status = st]]
        BY <2>2 DEF Opens
      <3>2. p.expected \in Amount \cup {NULL}
        BY SettlementAssumption DEF NewInvoice
      <3>3. invoices[i].paidBy = NULL
        BY <2>2 DEF Opens, Ownership, OnePayment, Settled
      <3> DEFINE r == [Created(p, DefaultMode, now) EXCEPT !.status = st]
      <3>4. r.status = st /\ r.expected = p.expected /\ r.paidBy = NULL
        BY DEF Created
      <3> HIDE DEF r
      <3>5. invoices' = [invoices EXCEPT ![i] = r]
        BY <3>1 DEF r
      <3>6. Lifecycle!Open(i, p.expected)
        BY <2>0, <2>2, <3>3, <3>4, <3>5 DEF Opens, Lifecycle!Open
      <3> QED BY <3>2, <3>6 DEF Lifecycle!Next
    <2>3. ASSUME NEW w \in Handler, Pays(w)
          PROVE  Lifecycle!Next
      <3>1. PICK i \in Invoice, s \in Slate : i = handler[w].inv /\ s = handler[w].slate
        BY <2>3 DEF Pays
      <3>2. invoices[i].status = "open" /\ invoices[i].expected \in {NULL, AmountOf[s]}
        BY <2>3, <3>1 DEF Pays, ResolvedExactly, Satisfies
      <3>3. \A j \in Invoice : invoices[j].paidBy # s
        BY <2>3, <3>1 DEF Pays, PayInvoice, At, Ownership, OneLink, Unpaying, Unlinking
      <3>4. invoices' = [invoices EXCEPT ![i] =
                           [invoices[i] EXCEPT !.status = "paid", !.paidBy = s]]
        BY <2>3, <3>1 DEF Pays
      <3>5. Lifecycle!Pay(i, s)
        BY <2>0, <3>2, <3>3, <3>4 DEF Lifecycle!Pay, Row
      <3> QED BY <3>5 DEF Lifecycle!Next
    <2>4. CASE Confirms
      <3>1. PICK i \in Invoice : i = poll.inv
        BY <2>4 DEF Confirms
      <3>2. Lifecycle!Confirm(i)
        BY <2>0, <2>4, <3>1 DEF Confirms, Lifecycle!Confirm, Row
      <3> QED BY <3>2 DEF Lifecycle!Next
    <2> QED BY <1>2, <2>1, <2>2, <2>3, <2>4, TableSteps DEF TableStep
  <1> QED BY <1>1, <1>2

LEMMA LifecycleInit == Init => Lifecycle!Init
  BY DEF Init, AbsentRow, Lifecycle!Init

\* The handlers, the poll, the boot reconcile and the clock together keep what
\* a merchant is promised: an invoice is opened once, paid once by one exact
\* payment, confirmed once, announced at most once, and never re-opened.
THEOREM PathKeepsThePromise == Spec => ImplementsLifecycle
  <1>1. Shape /\ AmountBinding /\ Path /\ [Next]_vars
          => (Shape /\ AmountBinding /\ Path)' /\ [Lifecycle!Next]_(Lifecycle!vars)
    BY ShapeInductive, ResolvedStep, PaidStep, LinkedStep, PathInductive, LifecycleStep
    DEF AmountBinding
  <1>2. Init => Shape /\ AmountBinding /\ Path /\ Lifecycle!Init
    BY InitShape, InitAmountBinding, InitOwnership, InitFinality, LifecycleInit DEF Path
  <1> QED BY <1>1, <1>2, PTL DEF Spec, ImplementsLifecycle, Lifecycle!Spec

-----------------------------------------------------------------------------
(* What a payer and the store are told.  The properties of this part hold  *)
(* as long as certain faults stay away, which each theorem names.          *)

Unnotified == Unlinking \cup {"notify"}
Unanswered == Unnotified \cup {"reply"}
Matched == {"derived", "memo", "amount", "paid"}

\* The Foreign API resolves by amount alone, so its payments are never refused.
ForeignResolvesByAmount ==
    \A w \in Handler : handler[w].rail = "foreign" =>
        /\ handler[w].key = NULL /\ handler[w].memo = NULL
        /\ handler[w].pc \notin {"memo", "delete"}

\* Before the first crash the reconcile finds nothing to resend.
NothingToResend ==
    /\ todo = {} /\ handler[NostrLoop].pc # "remark"
    /\ handler[NostrLoop].pc = "boot" => \A s \in Slate : ~payments[s].payer

\* A payment under way is unanswered until its reply, and refused exactly
\* while its row waits to be deleted.
Refusals ==
    /\ \A w \in Handler :
         /\ handler[w].pc \in Unanswered => handler[w].slate \notin s2
         /\ handler[w].slate \in Slate =>
              (handler[w].pc = "delete" <=> handler[w].slate \in rejected)
    /\ s2 \cup rejected \subseteq wallet
    /\ RejectedNeverReplied

\* The store has heard of no payment that is not past the notification.
HooksAreOne ==
    /\ \A s \in Slate : /\ receivedHook[s] <= 1
                        /\ s \notin wallet => receivedHook[s] = 0
    /\ \A w \in Handler :
         handler[w].pc \in Unnotified => receivedHook[handler[w].slate] = 0

\* It has heard of every payment that is.
HooksAreSent ==
    /\ \A w \in Handler :
         handler[w].pc \in {"reply", "mark"} => receivedHook[handler[w].slate] = 1
    /\ \A s \in s2 : receivedHook[s] = 1

\* A payment being matched is on record.
MatchedHasRow ==
    \A w \in Handler : handler[w].pc \in Matched => Present(handler[w].slate)

-----------------------------------------------------------------------------
(* The steps these invariants watch.                                       *)

Receives(w) == \E rail \in {"nostr", "paste", "foreign"}, s \in Slate,
                  key \in Key \cup {NULL}, memo \in Ref \cup {NULL} :
    /\ Receive(w, rail, s, key, memo)
    /\ rail = "nostr" => w = NostrLoop
    /\ rail = "foreign" => key = NULL /\ memo = NULL

Answering == \/ \E w \in Handler : \/ Receives(w) \/ HandlerStep(w)
                                   \/ ReplyFails(w) \/ StatementFails(w)
             \/ BootStep
             \/ \E s \in Slate : ResendFails(s)
             \/ Crash

LEMMA AnsweringSteps ==
    ASSUME Shape, [Next]_vars
    PROVE  Answering \/ UNCHANGED <<handler, todo, s2, rejected, receivedHook>>
  <1>1. CASE Request
    <2>1. ASSUME NEW s \in Slate, NEW key \in Key, NEW memo \in Ref \cup {NULL},
                 ReceiveNostr(s, key, memo)
          PROVE  Answering
      <3>1. Receives(NostrLoop)
        BY <2>1 DEF ReceiveNostr, Receives
      <3> QED BY <3>1 DEF Answering, Handler
    <2>2. ASSUME NEW s \in Slate, NEW w \in HttpWorkers, ReceiveForeign(w, s)
          PROVE  Answering
      <3>1. Receives(w)
        BY <2>2 DEF ReceiveForeign, Receives
      <3> QED BY <3>1 DEF Answering, Handler
    <2>3. ASSUME NEW s \in Slate, NEW w \in HttpWorkers, NEW i \in Invoice,
                 ReceivePaste(w, s, i)
          PROVE  Answering
      <3>1. RecipientOf(invoices, i) \in Key \cup {NULL} /\ invoices[i].ref \in Ref \cup {NULL}
        BY DEF RecipientOf, Key, Shape, TypeOK, Row
      <3>2. Receives(w)
        BY <2>3, <3>1 DEF ReceivePaste, Receives
      <3> QED BY <3>2 DEF Answering, Handler
    <2>4. ASSUME NEW i \in Invoice, ViewInvoice(i) \/ \E p \in Offers : CreateInvoice(i, p)
          PROVE  UNCHANGED <<handler, todo, s2, rejected, receivedHook>>
      BY <2>4 DEF ViewInvoice, CreateInvoice, world, history
    <2> QED BY <1>1, <2>1, <2>2, <2>3, <2>4 DEF Request
  <1>2. CASE PollStep
    BY <1>2 DEF PollStep, PollStart, PollUpdate, PollFinalize, PollNotify, PollDone, PollRead,
                db, world, history
  <1>3. CASE Environment
    BY <1>3 DEF Environment, Tick, RefreshDirectory, Block, db, world, history
  <1>4. CASE Failure
    <2>1. ASSUME NEW w \in Handler, NEW s \in Slate, WalletFailsAfterCommit(w, s)
          PROVE  UNCHANGED <<handler, todo, s2, rejected, receivedHook>>
      BY <2>1 DEF WalletFailsAfterCommit, db, world
    <2>2. ASSUME NEW s \in Slate, Reorg(s)
          PROVE  UNCHANGED <<handler, todo, s2, rejected, receivedHook>>
      BY <2>2 DEF Reorg, db
    <2>3. ASSUME NEW x \in poll.work, PollNodeFails(x)
          PROVE  UNCHANGED <<handler, todo, s2, rejected, receivedHook>>
      BY <2>3 DEF PollNodeFails, db, world
    <2>4. ASSUME RefreshDirectoryFails \/ PollStatementFails
          PROVE  UNCHANGED <<handler, todo, s2, rejected, receivedHook>>
      BY <2>4 DEF RefreshDirectoryFails, PollStatementFails, db, world
    <2> QED BY <1>4, <2>1, <2>2, <2>3, <2>4 DEF Failure, Answering
  <1>5. CASE UNCHANGED vars
    BY <1>5 DEF vars, db, world, history
  <1>6. CASE BootStep \/ \E w \in Handler : HandlerStep(w)
    BY <1>6 DEF Answering
  <1> QED BY <1>1, <1>2, <1>3, <1>4, <1>5, <1>6 DEF Next

\* A request starts with its slate taken by the wallet and nothing else.
LEMMA ReceivesTakes ==
    ASSUME NEW w \in Handler, Receives(w), handler \in [Handler -> HandlerState]
    PROVE  \E h \in HandlerState :
             /\ handler' = [handler EXCEPT ![w] = h] /\ handler[w].pc = "idle"
             /\ h.pc = "insert" /\ h.inv = NULL
             /\ h.slate \in Slate \ wallet /\ wallet' = wallet \cup {h.slate}
             /\ h.rail = "nostr" => w = NostrLoop
             /\ h.rail = "foreign" => h.key = NULL /\ h.memo = NULL
             /\ UNCHANGED <<payments, todo, s2, rejected, receivedHook>>
  <1>1. PICK rail \in {"nostr", "paste", "foreign"}, s \in Slate,
             key \in Key \cup {NULL}, memo \in Ref \cup {NULL} :
          /\ Receive(w, rail, s, key, memo)
          /\ rail = "nostr" => w = NostrLoop
          /\ rail = "foreign" => key = NULL /\ memo = NULL
    BY DEF Receives
  <1> DEFINE h == [pc |-> "insert", rail |-> rail, slate |-> s,
                   key |-> key, memo |-> memo, inv |-> NULL]
  <1>2. h \in HandlerState
    BY DEF HandlerState
  <1>3. /\ h.pc = "insert" /\ h.inv = NULL /\ h.slate = s /\ h.rail = rail
        /\ h.key = key /\ h.memo = memo
    OBVIOUS
  <1>4. /\ handler' = [handler EXCEPT ![w] = h] /\ handler[w].pc = "idle"
        /\ s \notin wallet /\ wallet' = wallet \cup {s}
        /\ UNCHANGED <<payments, todo, s2, rejected, receivedHook>>
    BY <1>1 DEF Receive, At, Fresh, world, history
  <1> HIDE DEF h
  <1> QED BY <1>1, <1>2, <1>3, <1>4

-----------------------------------------------------------------------------
(* Refusals.                                                               *)

\* What the Foreign API's request may be refused for, it is not resolved by.
LEMMA ForeignStep ==
    ASSUME Shape, ForeignResolvesByAmount, [Next]_vars
    PROVE  ForeignResolvesByAmount'
  <1> DEFINE Local(h) == h.rail = "foreign" => /\ h.key = NULL /\ h.memo = NULL
                                               /\ h.pc \notin {"memo", "delete"}
  <1>0. /\ handler \in [Handler -> HandlerState] /\ \A w \in Handler : Local(handler[w])
        /\ NostrLoop \in Handler
    BY DEF Shape, TypeOK, ForeignResolvesByAmount, Handler
  <1>1. ASSUME NEW w \in Handler, NEW h, Local(h), handler' = [handler EXCEPT ![w] = h]
        PROVE  ForeignResolvesByAmount'
    BY <1>0, <1>1 DEF ForeignResolvesByAmount
  <1>2. Local(Idle) /\ \A pc, s : Local([Idle EXCEPT !.pc = pc])
        /\ Local([Idle EXCEPT !.pc = pc, !.slate = s])
    BY SettlementAssumption DEF Idle
  <1>3. ASSUME NEW w \in Handler, NEW pc \in BusyPC \cup {"resend"}, Goto(w, pc),
               pc \in {"memo", "delete"} => handler[w].rail # "foreign"
        PROVE  ForeignResolvesByAmount'
    <2>1. Local([handler[w] EXCEPT !.pc = pc])
      BY <1>0, <1>3 DEF HandlerState
    <2> QED BY <1>1, <1>3, <2>1 DEF Goto
  <1>4. ASSUME NEW w \in Handler, Receives(w)
        PROVE  ForeignResolvesByAmount'
    BY <1>0, <1>1, <1>4, ReceivesTakes
  <1>5. ASSUME NEW w \in Handler, HandlerStep(w)
        PROVE  ForeignResolvesByAmount'
    <2>1. ASSUME NEW hits, NEW otherwise \in {"memo", "amount", "link"},
                 Resolve(w, hits, otherwise),
                 handler[w].rail = "foreign" =>
                    /\ otherwise # "memo"
                    /\ \A i \in hits : Satisfies(invoices, i, AmountOf[handler[w].slate])
          PROVE  ForeignResolvesByAmount'
      <3>1. CASE Goto(w, otherwise) \/ (Goto(w, "delete") /\ handler[w].rail # "foreign")
        BY <1>3, <2>1, <3>1 DEF BusyPC
      <3>2. ASSUME NEW i, handler' = [handler EXCEPT ![w].pc = "paid", ![w].inv = i]
            PROVE  ForeignResolvesByAmount'
        <4>1. Local([handler[w] EXCEPT !.pc = "paid", !.inv = i])
          BY <1>0 DEF HandlerState
        <4>2. handler' = [handler EXCEPT ![w] = [handler[w] EXCEPT !.pc = "paid", !.inv = i]]
          BY <1>0, <3>2
        <4> QED BY <1>1, <4>1, <4>2
      <3> QED BY <2>1, <3>1, <3>2 DEF Resolve, Resolved, Refuse
    <2>2. CASE ResolveDerived(w)
      <3>1. handler[w].rail = "foreign" => /\ handler[w].key = NULL /\ handler[w].memo = NULL
        BY <1>0
      <3>2. \A i \in Invoice : RecipientOf(invoices, i) # NULL
        BY TableAssumption DEF RecipientOf
      <3>3. handler[w].rail = "foreign" =>
              DerivedHits(invoices, DefaultFor(handler[w].rail), handler[w].key) = {}
        BY <3>1, <3>2 DEF DerivedHits, Oldest, OpenInMode
      <3> QED BY <2>1, <2>2, <3>1, <3>3 DEF ResolveDerived
    <2>3. CASE ResolveMemo(w)
      BY <1>0, <2>1, <2>3 DEF ResolveMemo, At
    <2>4. CASE ResolveAmount(w)
      <3>1. \A i \in AmountHits(invoices, DefaultFor(handler[w].rail),
                                AmountOf[handler[w].slate], now) :
              Satisfies(invoices, i, AmountOf[handler[w].slate])
        BY DEF AmountHits, Oldest, Satisfies
      <3> QED BY <2>1, <2>4, <3>1 DEF ResolveAmount
    <2>5. CASE InsertPayment(w) \/ PayInvoice(w) \/ LinkPayment(w) \/ NotifyReceived(w)
      BY <1>3, <2>5 DEF InsertPayment, PayInvoice, LinkPayment, NotifyReceived, BusyPC
    <2>6. CASE DeleteRejected(w)
      BY <1>0, <1>1, <1>2, <2>6 DEF DeleteRejected, AfterRefusal, At
    <2>7. CASE Reply(w)
      BY <1>1, <1>2, <1>3, <2>7 DEF Reply, Deliver, BusyPC
    <2>8. CASE MarkReplied(w)
      BY <1>1, <1>2, <2>8 DEF MarkReplied
    <2> QED BY <1>5, <2>2, <2>3, <2>4, <2>5, <2>6, <2>7, <2>8 DEF HandlerStep
  <1>6. ASSUME NEW w \in Handler, ReplyFails(w)
        PROVE  ForeignResolvesByAmount'
    BY <1>1, <1>2, <1>6 DEF ReplyFails
  <1>7. ASSUME NEW w \in Handler, StatementFails(w)
        PROVE  ForeignResolvesByAmount'
    <2>1. Local(AfterFailure(handler[w]))
      BY <1>0, <1>2, <1>7 DEF StatementFails, AfterFailure, AfterRefusal, HandlerState
    <2> QED BY <1>0, <1>1, <1>7, <2>1 DEF StatementFails
  <1>8. CASE BootStep
    BY <1>0, <1>1, <1>2, <1>3, <1>8
    DEF BootStep, BootReconcile, Resend, Remark, ResendDone, ForeignResolvesByAmount
  <1>9. CASE Crash
    BY <1>9, SettlementAssumption DEF Crash, AllIdle, Idle, ForeignResolvesByAmount
  <1>10. CASE UNCHANGED handler
    BY <1>10 DEF ForeignResolvesByAmount
  <1>11. ASSUME NEW s \in Slate, ResendFails(s)
         PROVE  UNCHANGED handler
    BY <1>11 DEF ResendFails
  <1> QED BY <1>4, <1>5, <1>6, <1>7, <1>8, <1>9, <1>10, <1>11, AnsweringSteps DEF Answering

\* No crash, and the only boot is the first one, before any payment.
LEMMA NothingToResendStep ==
    ASSUME "crash" \notin FaultKinds,
           Shape, Shape', Ownership, NothingToResend, [Next]_vars
    PROVE  NothingToResend'
  <1> USE Owned
  <1>0. NostrLoop \in Handler
    OBVIOUS
  <1> DEFINE Now == handler[NostrLoop].pc
             Then == handler'[NostrLoop].pc
  <1>1. ~Crash
    BY DEF Crash, Fault
  <1>2. ~ \E s \in Slate : Resend(s) \/ ResendFails(s)
    BY DEF Resend, ResendFails, NothingToResend
  <1>3. /\ todo' = {}
        /\ Then \in {"boot", "remark"} => Then = Now
    <2>1. CASE UNCHANGED <<handler, todo>>
      BY <2>1 DEF NothingToResend
    <2>2. ASSUME NEW w \in Handler, Receives(w)
          PROVE  todo' = {} /\ (Then \in {"boot", "remark"} => Then = Now)
      BY <2>2, ReceivesTakes DEF NothingToResend
    <2>3. ASSUME NEW w \in Handler, HandlerStep(w)
          PROVE  todo' = {} /\ (Then \in {"boot", "remark"} => Then = Now)
      <3>1. UNCHANGED todo
        BY <2>3 DEF HandlerStep, InsertPayment, ResolveDerived, ResolveMemo, ResolveAmount,
                    Resolve, DeleteRejected, PayInvoice, LinkPayment, NotifyReceived, Reply,
                    Deliver, MarkReplied
      <3>2. PICK h \in HandlerState :
              /\ handler' = [handler EXCEPT ![w] = h]
              /\ h.pc \notin {"boot", "remark"}
        BY <2>3 DEF HandlerStep, InsertPayment, ResolveDerived, ResolveMemo, ResolveAmount,
                    Resolve, Resolved, Refuse, DeleteRejected, AfterRefusal, PayInvoice,
                    LinkPayment, NotifyReceived, Reply, Deliver, MarkReplied, Goto,
                    HandlerState, Idle
      <3> QED BY <3>1, <3>2 DEF NothingToResend
    <2>4. ASSUME NEW w \in Handler, ReplyFails(w)
          PROVE  todo' = {} /\ (Then \in {"boot", "remark"} => Then = Now)
      BY <2>4 DEF ReplyFails, NothingToResend, Idle
    <2>5. ASSUME NEW w \in Handler, StatementFails(w)
          PROVE  todo' = {} /\ (Then \in {"boot", "remark"} => Then = Now)
      BY <2>5 DEF StatementFails, AfterFailure, AfterRefusal, NothingToResend, Idle,
                  HandlerState
    <2>6. CASE BootReconcile
      BY <2>6 DEF BootReconcile, At, Goto, NothingToResend, HandlerState
    <2>7. CASE Remark \/ ResendDone
      BY <2>7 DEF Remark, ResendDone, NothingToResend, At, Idle
    <2> QED BY <1>1, <1>2, <2>1, <2>2, <2>3, <2>4, <2>5, <2>6, <2>7, AnsweringSteps
            DEF Answering, BootStep
  <1>4. ASSUME Then = "boot", NEW s \in Slate
        PROVE  ~payments'[s].payer
    <2>1. Now = "boot" /\ ~payments[s].payer
      BY <1>3, <1>4 DEF NothingToResend
    <2>2. ASSUME NEW w \in Handler, Inserts(w), handler[w].slate = s
          PROVE  ~payments'[s].payer
      <3>1. w # NostrLoop
        BY <2>1, <2>2 DEF Inserts, InsertPayment, At
      <3>2. handler[w].rail # "nostr"
        BY <3>1 DEF Ownership, RowOwners
      <3> QED BY <2>2, <3>2 DEF Inserts, NewRow
    <2>3. ASSUME NEW w \in Handler, Deletes(w), handler[w].slate = s
          PROVE  ~payments'[s].payer
      BY <2>3 DEF Deletes
    <2> QED BY <2>1, <2>2, <2>3, PayerStep
  <1> QED BY <1>3, <1>4 DEF NothingToResend

RefusalOf(h, S, R) ==
    /\ h.pc \in Unanswered => h.slate \notin S
    /\ h.slate \in Slate => (h.pc = "delete" <=> h.slate \in R)

\* w moves from its slate to h, answering or refusing that slate at most: the
\* other requests are about other slates.
LEMMA RefusalMove ==
    ASSUME Shape, Ownership, Refusals, NEW w \in Handler, NEW h \in HandlerState,
           handler' = [handler EXCEPT ![w] = h], wallet \subseteq wallet',
           \/ UNCHANGED <<s2, rejected>>
           \/ /\ handler[w].slate \in Slate
              /\ \/ s2' = s2 \cup {handler[w].slate} /\ UNCHANGED rejected
                 \/ rejected' = rejected \cup {handler[w].slate} /\ UNCHANGED s2
              /\ handler[w].slate \notin s2' \cap rejected',
           RefusalOf(h, s2', rejected')
    PROVE  Refusals'
  <1> USE Owned
  <1>1. ASSUME NEW v \in Handler
        PROVE  RefusalOf(handler'[v], s2', rejected')
    <2>1. CASE v = w
      BY <2>1
    <2>2. CASE v # w
      <3>1. handler'[v] = handler[v] /\ RefusalOf(handler[v], s2, rejected)
        BY <2>2 DEF Refusals, RefusalOf
      <3>2. handler[w].slate \in Slate => handler[v].slate # handler[w].slate
        BY <2>2
      <3> QED BY <3>1, <3>2 DEF RefusalOf
    <2> QED BY <2>1, <2>2
  <1>2. s2' \cup rejected' \subseteq wallet'
    BY DEF Refusals
  <1>3. RejectedNeverReplied'
    BY DEF Refusals, RejectedNeverReplied
  <1> QED BY <1>1, <1>2, <1>3 DEF Refusals, RefusalOf

LEMMA RefusalsStep ==
    ASSUME "crash" \notin FaultKinds, Shape, Shape', Ownership, ForeignResolvesByAmount,
           NothingToResend, Refusals, [Next]_vars
    PROVE  Refusals'
  <1> USE Owned, WalletGrows
  <1>0. /\ ~Crash /\ ~ \E s \in Slate : Resend(s) \/ ResendFails(s)
        /\ ~Remark
    BY DEF Crash, Fault, Resend, ResendFails, Remark, At, NothingToResend
  <1>1. \A w \in Handler : /\ RefusalOf(handler[w], s2, rejected)
                           /\ handler[w].pc \in BusyPC => handler[w].slate \in Slate
                           /\ handler[w].slate \in Slate => handler[w].pc \in BusyPC
                           /\ handler[w].pc = "delete" => handler[w].rail # "foreign"
    BY DEF Refusals, RefusalOf, Shape, HandlerShape, LocalShape, ForeignResolvesByAmount
  <1>2. ASSUME UNCHANGED <<handler, s2, rejected>>
        PROVE  Refusals'
    BY <1>2 DEF Refusals, RejectedNeverReplied
  <1>3. ASSUME NEW w \in Handler, handler[w].pc \in Unanswered \ {"delete"},
               NEW pc \in Unanswered \ {"delete"}, NEW h,
               handler' = [handler EXCEPT ![w] = h], h.pc = pc, h.slate = handler[w].slate,
               UNCHANGED <<s2, rejected>>
        PROVE  Refusals'
    <2>1. h \in HandlerState
      <3>1. h = handler'[w]
        BY <1>3
      <3> QED BY <3>1 DEF Shape, TypeOK
    <2>2. RefusalOf(h, s2, rejected)
      BY <1>1, <1>3 DEF RefusalOf
    <2> QED BY <1>3, <2>1, <2>2, RefusalMove
  <1>4. ASSUME NEW w \in Handler, handler[w].pc \in Unanswered \ {"delete"},
               NEW pc \in Unanswered \ {"delete"}, Goto(w, pc), UNCHANGED <<s2, rejected>>
        PROVE  Refusals'
    <2> DEFINE h == [handler[w] EXCEPT !.pc = pc]
    <2>1. /\ handler' = [handler EXCEPT ![w] = h]
          /\ h.pc = pc /\ h.slate = handler[w].slate
      BY <1>4 DEF Goto, HandlerState
    <2> HIDE DEF h
    <2> QED BY <1>3, <1>4, <2>1
  <1>5. ASSUME NEW w \in Handler, NEW pc \in {"idle", "resend"},
               handler' = [handler EXCEPT ![w] = [Idle EXCEPT !.pc = pc]],
               \/ UNCHANGED <<s2, rejected>>
               \/ /\ handler[w].pc = "reply" /\ UNCHANGED rejected
                  /\ s2' = s2 \cup {handler[w].slate}
        PROVE  Refusals'
    <2> DEFINE h == [Idle EXCEPT !.pc = pc]
    <2>1. h \in HandlerState /\ RefusalOf(h, s2', rejected')
      BY <1>5, IdleTyped DEF RefusalOf, Idle, Unanswered, Unnotified, Unlinking
    <2>2. ASSUME handler[w].pc = "reply"
          PROVE  handler[w].slate \in Slate /\ handler[w].slate \notin rejected
      BY <1>1, <2>2 DEF RefusalOf, BusyPC
    <2>3. /\ handler' = [handler EXCEPT ![w] = h]
          /\ \/ UNCHANGED <<s2, rejected>>
             \/ /\ handler[w].slate \in Slate
                /\ s2' = s2 \cup {handler[w].slate} /\ UNCHANGED rejected
                /\ handler[w].slate \notin s2' \cap rejected'
      BY <1>5, <2>2
    <2> HIDE DEF h
    <2> QED BY <2>1, <2>3, RefusalMove
  <1>6. Idle = [Idle EXCEPT !.pc = "idle"]
    BY DEF Idle
  <1>7. ASSUME NEW w \in Handler, Receives(w)
        PROVE  Refusals'
    <2>1. PICK h \in HandlerState :
             /\ handler' = [handler EXCEPT ![w] = h] /\ h.pc = "insert"
             /\ h.slate \in Slate \ wallet
             /\ UNCHANGED <<s2, rejected>>
      BY <1>7, ReceivesTakes
    <2>2. RefusalOf(h, s2', rejected')
      BY <2>1 DEF RefusalOf, Refusals
    <2> QED BY <2>1, <2>2, RefusalMove
  <1> DEFINE Calm == UNCHANGED <<s2, rejected>>
  <1>8. ASSUME NEW w \in Handler, HandlerStep(w)
        PROVE  Refusals'
    <2>1. ASSUME NEW hits, NEW otherwise \in {"memo", "amount", "link"},
                 Resolve(w, hits, otherwise), handler[w].pc \in {"derived", "memo", "amount"}
          PROVE  Refusals'
      <3>0. UNCHANGED s2 /\ handler[w].pc \in Unanswered \ {"delete"}
        BY <2>1 DEF Resolve, world, Unanswered, Unnotified, Unlinking
      <3>1. CASE Goto(w, otherwise) /\ UNCHANGED rejected
        BY <1>4, <2>1, <3>0, <3>1 DEF Unanswered, Unnotified, Unlinking
      <3>2. ASSUME NEW i, UNCHANGED rejected,
                   handler' = [handler EXCEPT ![w].pc = "paid", ![w].inv = i]
            PROVE  Refusals'
        <4> DEFINE h == [handler[w] EXCEPT !.pc = "paid", !.inv = i]
        <4>1. handler' = [handler EXCEPT ![w] = h]
          BY <3>2
        <4>2. h.pc = "paid" /\ h.slate = handler[w].slate
          BY DEF HandlerState
        <4> HIDE DEF h
        <4> QED BY <1>3, <3>0, <3>2, <4>1, <4>2 DEF Unanswered, Unnotified, Unlinking
      <3>3. CASE Refuse(w)
        <4> DEFINE h == [handler[w] EXCEPT !.pc = "delete"]
        <4>1. handler' = [handler EXCEPT ![w] = h] /\ rejected' = rejected \cup {handler[w].slate}
          BY <3>3 DEF Refuse, Goto
        <4>2. h \in HandlerState /\ h.pc = "delete" /\ h.slate = handler[w].slate
          BY DEF HandlerState
        <4>3. handler[w].slate \in Slate /\ handler[w].slate \notin s2
          BY <1>1, <2>1, <3>0 DEF RefusalOf, BusyPC
        <4> HIDE DEF h
        <4>4. RefusalOf(h, s2', rejected')
          BY <3>0, <4>1, <4>2, <4>3 DEF RefusalOf
        <4> QED BY <3>0, <4>1, <4>2, <4>3, <4>4, RefusalMove
      <3> QED BY <2>1, <3>1, <3>2, <3>3 DEF Resolve, Resolved
    <2>2. CASE ResolveDerived(w) \/ ResolveMemo(w) \/ ResolveAmount(w)
      BY <2>1, <2>2 DEF ResolveDerived, ResolveMemo, ResolveAmount, At
    <2>3. CASE InsertPayment(w) \/ PayInvoice(w) \/ LinkPayment(w) \/ NotifyReceived(w)
      BY <1>4, <2>3 DEF InsertPayment, PayInvoice, LinkPayment, NotifyReceived, At,
                        world, history, Unanswered, Unnotified, Unlinking
    <2>4. CASE DeleteRejected(w)
      BY <1>1, <1>5, <1>6, <2>4 DEF DeleteRejected, AfterRefusal, At, world, history
    <2>5. CASE Reply(w)
      <3>1. CASE handler' = [handler EXCEPT ![w] = Idle]
        BY <1>5, <1>6, <2>5, <3>1 DEF Reply, Deliver, At, history
      <3>2. CASE Goto(w, "mark")
        <4> DEFINE h == [handler[w] EXCEPT !.pc = "mark"]
        <4>1. /\ handler' = [handler EXCEPT ![w] = h] /\ UNCHANGED rejected
              /\ s2' = s2 \cup {handler[w].slate} /\ handler[w].pc = "reply"
          BY <2>5, <3>2 DEF Reply, Deliver, Goto, At, history
        <4>2. h \in HandlerState /\ h.pc = "mark" /\ h.slate = handler[w].slate
          BY DEF HandlerState
        <4>3. handler[w].slate \in Slate /\ handler[w].slate \notin rejected
          BY <1>1, <4>1 DEF RefusalOf, BusyPC
        <4> HIDE DEF h
        <4>4. RefusalOf(h, s2', rejected')
          BY <4>1, <4>2, <4>3 DEF RefusalOf, Unanswered, Unnotified, Unlinking
        <4> QED BY <4>1, <4>2, <4>3, <4>4, RefusalMove
      <3> QED BY <2>5, <3>1, <3>2 DEF Reply, Deliver
    <2>6. CASE MarkReplied(w)
      BY <1>5, <1>6, <2>6 DEF MarkReplied, world, history
    <2> QED BY <1>8, <2>2, <2>3, <2>4, <2>5, <2>6 DEF HandlerStep
  <1>9. ASSUME NEW w \in Handler, ReplyFails(w)
        PROVE  Refusals'
    BY <1>5, <1>6, <1>9 DEF ReplyFails, At
  <1>10. ASSUME NEW w \in Handler, StatementFails(w)
         PROVE  Refusals'
    <2>1. UNCHANGED <<s2, rejected>> /\ handler' = [handler EXCEPT ![w] = AfterFailure(@)]
      BY <1>10 DEF StatementFails, world
    <2>2. CASE handler[w].pc \in {"delete", "mark", "remark"}
      BY <1>1, <1>5, <1>6, <2>1, <2>2 DEF AfterFailure, AfterRefusal
    <2>3. CASE handler[w].pc \in {"insert", "derived", "memo", "amount", "paid", "link", "notify"}
      <3>1. /\ AfterFailure(handler[w]).pc \in {"derived", "notify", "reply"}
            /\ AfterFailure(handler[w]).slate = handler[w].slate
        BY <2>3 DEF AfterFailure, HandlerState
      <3> QED BY <1>3, <2>1, <2>3, <3>1 DEF Unanswered, Unnotified, Unlinking
    <2> QED BY <1>10, <2>2, <2>3 DEF StatementFails
  <1>11. CASE BootReconcile
    <2> DEFINE h == [handler[NostrLoop] EXCEPT !.pc = "resend"]
    <2>1. /\ handler' = [handler EXCEPT ![NostrLoop] = h] /\ UNCHANGED <<s2, rejected>>
          /\ handler[NostrLoop].pc = "boot"
      BY <1>11 DEF BootReconcile, Goto, At, world, history
    <2>2. h \in HandlerState /\ h.pc = "resend" /\ h.slate = handler[NostrLoop].slate
      BY DEF HandlerState
    <2>3. handler[NostrLoop].slate \notin Slate
      BY <1>1, <2>1 DEF BusyPC
    <2> HIDE DEF h
    <2>4. RefusalOf(h, s2', rejected')
      BY <2>2, <2>3 DEF RefusalOf, Unanswered, Unnotified, Unlinking
    <2> QED BY <2>1, <2>2, <2>4, RefusalMove
  <1>12. CASE ResendDone
    BY <1>5, <1>6, <1>12 DEF ResendDone, world, history
  <1> QED BY <1>0, <1>2, <1>7, <1>8, <1>9, <1>10, <1>11, <1>12, AnsweringSteps
          DEF Answering, BootStep

-----------------------------------------------------------------------------
(* Announcements to the store.                                             *)

\* The store is told of a payment where NotifyReceived tells it, and the
\* request goes on to its reply.
LEMMA HookSteps ==
    ASSUME Shape, [Next]_vars
    PROVE  \/ UNCHANGED receivedHook
           \/ \E w \in Handler :
                /\ handler[w].pc = "notify" /\ handler[w].slate \in Slate
                /\ receivedHook' = [receivedHook EXCEPT ![handler[w].slate] = @ + 1]
                /\ Goto(w, "reply") /\ UNCHANGED <<s2, rejected>>
  <1>1. CASE UNCHANGED receivedHook
    BY <1>1
  <1>2. ASSUME NEW w \in Handler, NotifyReceived(w)
        PROVE  \E v \in Handler :
                /\ handler[v].pc = "notify" /\ handler[v].slate \in Slate
                /\ receivedHook' = [receivedHook EXCEPT ![handler[v].slate] = @ + 1]
                /\ Goto(v, "reply") /\ UNCHANGED <<s2, rejected>>
    <2>1. handler[w].slate \in Slate
      BY <1>2 DEF NotifyReceived, At, Shape, HandlerShape, LocalShape, BusyPC
    <2> QED BY <1>2, <2>1 DEF NotifyReceived, At, world, history
  <1>3. ASSUME NEW w \in Handler,
               \/ Receives(w) \/ ReplyFails(w) \/ StatementFails(w)
               \/ HandlerStep(w) /\ ~NotifyReceived(w)
        PROVE  UNCHANGED receivedHook
    BY <1>3 DEF Receives, Receive, ReplyFails, StatementFails, HandlerStep, InsertPayment,
                ResolveDerived, ResolveMemo, ResolveAmount, Resolve, DeleteRejected,
                PayInvoice, LinkPayment, Reply, Deliver, MarkReplied, db
  <1>4. ASSUME \/ BootStep \/ Crash \/ \E s \in Slate : ResendFails(s)
        PROVE  UNCHANGED receivedHook
    BY <1>4 DEF BootStep, BootReconcile, Resend, Remark, ResendDone, ResendFails, Crash, db
  <1> QED BY <1>1, <1>2, <1>3, <1>4, AnsweringSteps DEF Answering

\* A handler reaches the statements before its notification from one another,
\* or from the wallet's receive.
LEMMA UnnotifiedSteps ==
    ASSUME Shape, Shape', Ownership, [Next]_vars,
           NEW w \in Handler, handler'[w].pc \in Unnotified
    PROVE  \/ handler[w].pc \in Unnotified /\ handler'[w].slate = handler[w].slate
           \/ handler'[w].slate \in Slate \ wallet /\ UNCHANGED receivedHook
  <1> USE Owned
  <1> DEFINE Stays == handler[w].pc \in Unnotified /\ handler'[w].slate = handler[w].slate
             Fresh0 == handler'[w].slate \in Slate \ wallet /\ UNCHANGED receivedHook
  <1> USE DEF Unnotified, Unlinking
  <1>1. ASSUME NEW v \in Handler, v # w, NEW h, handler' = [handler EXCEPT ![v] = h]
        PROVE  Stays
    BY <1>1
  <1>2. CASE UNCHANGED handler
    BY <1>2
  <1>3. ASSUME NEW v \in Handler, Receives(v)
        PROVE  Stays \/ Fresh0
    BY <1>1, <1>3, ReceivesTakes
  <1>4. ASSUME NEW v \in Handler, HandlerStep(v)
        PROVE  Stays
    <2>1. PICK h : /\ handler' = [handler EXCEPT ![v] = h]
                   /\ h.pc \in Unnotified =>
                        /\ handler[v].pc \in Unnotified
                        /\ h.slate = handler[v].slate
      BY <1>4 DEF HandlerStep, InsertPayment, ResolveDerived, ResolveMemo, ResolveAmount,
                  Resolve, Resolved, Refuse, DeleteRejected, AfterRefusal, PayInvoice,
                  LinkPayment, NotifyReceived, Reply, Deliver, MarkReplied, Goto, At,
                  HandlerState, Idle
    <2> QED BY <1>1, <2>1
  <1>5. ASSUME NEW v \in Handler, ReplyFails(v) \/ StatementFails(v)
        PROVE  Stays
    <2> DEFINE Keeps(h) == h.pc \in Unnotified => /\ handler[v].pc \in Unnotified
                                                 /\ h.slate = handler[v].slate
    <2>1. Keeps(Idle) /\ Keeps([Idle EXCEPT !.pc = "resend"])
      BY DEF Idle
    <2>2. CASE ReplyFails(v)
      BY <1>1, <2>1, <2>2 DEF ReplyFails
    <2>3. CASE StatementFails(v)
      <3>1. Keeps(AfterFailure(handler[v]))
        BY <2>1, <2>3 DEF StatementFails, AfterFailure, AfterRefusal, HandlerState
      <3>2. handler' = [handler EXCEPT ![v] = AfterFailure(handler[v])]
        BY <2>3 DEF StatementFails
      <3> QED BY <1>1, <3>1, <3>2
    <2> QED BY <1>5, <2>2, <2>3
  <1>6. CASE BootStep
    <2>1. CASE BootReconcile
      BY <2>1 DEF BootReconcile, Goto, HandlerState
    <2>2. ASSUME NEW s \in Slate, Resend(s)
          PROVE  Stays
      <3> DEFINE h == [Idle EXCEPT !.pc = "remark", !.slate = s]
      <3>1. UNCHANGED handler \/ handler' = [handler EXCEPT ![NostrLoop] = h]
        BY <2>2 DEF Resend
      <3>2. h.pc = "remark"
        BY DEF Idle
      <3> HIDE DEF h
      <3> QED BY <1>1, <1>2, <3>1, <3>2
    <2>3. CASE Remark \/ ResendDone
      BY <1>1, <2>3 DEF Remark, ResendDone, Idle
    <2> QED BY <1>6, <2>1, <2>2, <2>3 DEF BootStep
  <1>7. ~Crash
    BY DEF Crash, AllIdle, Idle
  <1>8. ASSUME NEW s \in Slate, ResendFails(s)
        PROVE  UNCHANGED handler
    BY <1>8 DEF ResendFails
  <1> QED BY <1>2, <1>3, <1>4, <1>5, <1>6, <1>7, <1>8, AnsweringSteps DEF Answering

LEMMA HooksAreOneStep ==
    ASSUME Shape, Shape', Ownership, HooksAreOne, [Next]_vars
    PROVE  HooksAreOne'
  <1> USE Owned, WalletGrows
  <1> receivedHook \in [Slate -> Nat]
    BY DEF Shape, TypeOK
  <1>1. CASE UNCHANGED receivedHook
    <2>1. \A s \in Slate : receivedHook'[s] <= 1 /\ (s \notin wallet' => receivedHook'[s] = 0)
      BY <1>1 DEF HooksAreOne
    <2>2. ASSUME NEW w \in Handler, handler'[w].pc \in Unnotified
          PROVE  receivedHook'[handler'[w].slate] = 0
      BY <1>1, <2>2, UnnotifiedSteps DEF HooksAreOne
    <2> QED BY <2>1, <2>2 DEF HooksAreOne
  <1>2. ASSUME NEW v \in Handler, handler[v].pc = "notify", handler[v].slate \in Slate,
               receivedHook' = [receivedHook EXCEPT ![handler[v].slate] = @ + 1],
               Goto(v, "reply")
        PROVE  HooksAreOne'
    <2>1. receivedHook[handler[v].slate] = 0
      BY <1>2 DEF HooksAreOne, Unnotified
    <2>2. \A s \in Slate : receivedHook'[s] <= 1 /\ (s \notin wallet' => receivedHook'[s] = 0)
      BY <1>2, <2>1 DEF HooksAreOne
    <2>3. ASSUME NEW w \in Handler, handler'[w].pc \in Unnotified
          PROVE  receivedHook'[handler'[w].slate] = 0
      <3>1. w # v /\ handler'[w] = handler[w]
        BY <1>2, <2>3 DEF Goto, HandlerState, Unnotified, Unlinking
      <3>2. handler[w].slate \in Slate
        BY <2>3, <3>1 DEF Shape, HandlerShape, LocalShape, Unnotified, Unlinking, BusyPC
      <3> QED BY <1>2, <2>3, <3>1, <3>2 DEF HooksAreOne
    <2> QED BY <2>2, <2>3 DEF HooksAreOne
  <1> QED BY <1>1, <1>2, HookSteps

LEMMA HookStands ==
    ASSUME Shape, HooksAreOne, [Next]_vars, NEW s \in Slate, receivedHook[s] = 1
    PROVE  receivedHook'[s] = 1
  <1> receivedHook \in [Slate -> Nat]
    BY DEF Shape, TypeOK
  <1>1. ASSUME NEW w \in Handler, handler[w].pc = "notify", handler[w].slate \in Slate,
               receivedHook' = [receivedHook EXCEPT ![handler[w].slate] = @ + 1]
        PROVE  receivedHook'[s] = 1
    <2>1. receivedHook[handler[w].slate] = 0
      BY <1>1 DEF HooksAreOne, Unnotified
    <2> QED BY <1>1, <2>1
  <1> QED BY <1>1, HookSteps

\* While no statement fails and no reply is resent, a request reaches its reply
\* from its notification, and an S2 leaves in a reply.
LEMMA ReplySteps ==
    ASSUME "crash" \notin FaultKinds, "db" \notin FaultKinds,
           Shape, Shape', ForeignResolvesByAmount, NothingToResend, [Next]_vars
    PROVE  /\ \A w \in Handler : handler'[w].pc \in {"reply", "mark"} =>
                 \/ NotifyReceived(w)
                 \/ /\ handler[w].pc \in {"reply", "mark"}
                    /\ handler'[w].slate = handler[w].slate
           /\ \/ UNCHANGED s2
              \/ \E w \in Handler : /\ handler[w].pc = "reply"
                                    /\ s2' = s2 \cup {handler[w].slate}
  <1> handler \in [Handler -> HandlerState] /\ NostrLoop \in Handler
    BY DEF Shape, TypeOK, Handler
  <1> DEFINE Leaves == \/ UNCHANGED s2
                       \/ \E w \in Handler : /\ handler[w].pc = "reply"
                                             /\ s2' = s2 \cup {handler[w].slate}
             Stays(w) == /\ handler[w].pc \in {"reply", "mark"}
                         /\ handler'[w].slate = handler[w].slate
             Goal == (\A w \in Handler : handler'[w].pc \in {"reply", "mark"} =>
                                            NotifyReceived(w) \/ Stays(w))
                     /\ Leaves
  <1>0. /\ ~Crash /\ ~ \E s \in Slate : Resend(s) \/ ResendFails(s)
        /\ ~ \E w \in Handler : StatementFails(w)
    BY DEF Crash, Fault, StatementFails, Resend, ResendFails, NothingToResend
  <1>1. ASSUME NEW v \in Handler, NEW h, handler' = [handler EXCEPT ![v] = h], Leaves,
               h.pc \in {"reply", "mark"} =>
                  \/ NotifyReceived(v)
                  \/ handler[v].pc \in {"reply", "mark"} /\ h.slate = handler[v].slate
        PROVE  Goal
    <2> SUFFICES ASSUME NEW w \in Handler, handler'[w].pc \in {"reply", "mark"}
                 PROVE  NotifyReceived(w) \/ Stays(w)
      BY <1>1
    <2>1. CASE w = v
      BY <1>1, <2>1
    <2>2. CASE w # v
      BY <1>1, <2>2
    <2> QED BY <2>1, <2>2
  <1>2. CASE UNCHANGED <<handler, s2>>
    BY <1>2
  <1>3. ASSUME NEW v \in Handler, Receives(v)
        PROVE  Goal
    <2>1. PICK h \in HandlerState : /\ handler' = [handler EXCEPT ![v] = h]
                                    /\ h.pc = "insert" /\ UNCHANGED s2
      BY <1>3, ReceivesTakes
    <2> QED BY <1>1, <2>1
  <1>4. ASSUME NEW v \in Handler, HandlerStep(v)
        PROVE  Goal
    <2>1. Leaves
      BY <1>4 DEF HandlerStep, InsertPayment, ResolveDerived, ResolveMemo, ResolveAmount,
                  Resolve, DeleteRejected, PayInvoice, LinkPayment, NotifyReceived, Reply,
                  Deliver, MarkReplied, At, world
    <2>2. PICK h : /\ handler' = [handler EXCEPT ![v] = h]
                   /\ h.pc \in {"reply", "mark"} =>
                        \/ NotifyReceived(v)
                        \/ handler[v].pc \in {"reply", "mark"} /\ h.slate = handler[v].slate
      BY <1>4 DEF HandlerStep, InsertPayment, ResolveDerived, ResolveMemo, ResolveAmount,
                  Resolve, Resolved, Refuse, DeleteRejected, AfterRefusal, PayInvoice,
                  LinkPayment, NotifyReceived, Reply, Deliver, MarkReplied, Goto, At,
                  HandlerState, Idle, ForeignResolvesByAmount
    <2> QED BY <1>1, <2>1, <2>2
  <1>5. ASSUME NEW v \in Handler, ReplyFails(v)
        PROVE  Goal
    <2>1. Leaves
      BY <1>5 DEF ReplyFails, At
    <2>2. handler' = [handler EXCEPT ![v] = Idle] /\ Idle.pc = "idle"
      BY <1>5 DEF ReplyFails, Idle
    <2> HIDE DEF Leaves
    <2> QED BY <1>1, <2>1, <2>2
  <1>6. CASE BootReconcile
    BY <1>6 DEF BootReconcile, Goto, HandlerState, world
  <1>7. CASE Remark \/ ResendDone
    BY <1>7 DEF Remark, ResendDone, Idle, world
  <1> QED BY <1>0, <1>2, <1>3, <1>4, <1>5, <1>6, <1>7, AnsweringSteps DEF Answering, BootStep

LEMMA HooksAreSentStep ==
    ASSUME "crash" \notin FaultKinds, "db" \notin FaultKinds,
           Shape, Shape', ForeignResolvesByAmount, NothingToResend, HooksAreOne, HooksAreSent,
           [Next]_vars
    PROVE  HooksAreSent'
  <1>0. /\ receivedHook \in [Slate -> Nat] /\ s2 \subseteq Slate
        /\ \A w \in Handler : handler[w].pc \in {"reply", "mark"} => handler[w].slate \in Slate
    BY DEF Shape, TypeOK, HandlerShape, LocalShape, BusyPC
  <1>1. ASSUME NEW w \in Handler, handler'[w].pc \in {"reply", "mark"}
        PROVE  receivedHook'[handler'[w].slate] = 1
    <2>1. CASE NotifyReceived(w)
      <3>1. handler[w].slate \in Slate /\ receivedHook[handler[w].slate] = 0
        BY <2>1 DEF NotifyReceived, At, HooksAreOne, Unnotified, Shape, HandlerShape,
                    LocalShape, BusyPC
      <3>2. handler'[w].slate = handler[w].slate
        BY <2>1 DEF NotifyReceived, Goto, Shape, TypeOK, HandlerState
      <3> QED BY <1>0, <2>1, <3>1, <3>2 DEF NotifyReceived
    <2>2. CASE /\ handler[w].pc \in {"reply", "mark"}
               /\ handler'[w].slate = handler[w].slate
      BY <1>0, <2>2, HookStands DEF HooksAreSent
    <2> QED BY <1>1, <2>1, <2>2, ReplySteps
  <1>2. ASSUME NEW s \in s2'
        PROVE  receivedHook'[s] = 1
    <2>1. s \in s2 \/ \E w \in Handler : handler[w].pc = "reply" /\ s = handler[w].slate
      BY <1>2, ReplySteps
    <2>2. s \in Slate /\ receivedHook[s] = 1
      BY <1>0, <2>1 DEF HooksAreSent
    <2> QED BY <2>2, HookStands
  <1> QED BY <1>1, <1>2 DEF HooksAreSent

-----------------------------------------------------------------------------
(* Rows of the payments that count.                                        *)

\* Only the deletion of a refused payment takes a row away.
LEMMA RowStands ==
    ASSUME Shape, [Next]_vars, NEW s \in Slate, Present(s),
           ~ \E w \in Handler : Deletes(w) /\ handler[w].slate = s
    PROVE  Present(s)'
  <1> payments \in [Slate -> Payment]
    BY DEF Shape, TypeOK
  <1>1. ASSUME NEW w \in Handler, Inserts(w)
        PROVE  Present(s)'
    BY <1>1 DEF Inserts, Present
  <1>2. ASSUME NEW w \in Handler, Deletes(w)
        PROVE  Present(s)'
    BY <1>2 DEF Deletes, Present
  <1>3. ASSUME NEW w \in Handler, Links(w)
        PROVE  Present(s)'
    BY <1>3 DEF Links, Present, Payment
  <1>4. ASSUME NEW r \in Slate, Replies(r)
        PROVE  Present(s)'
    BY <1>4 DEF Replies, Present, Payment
  <1>5. CASE Deepens
    BY <1>5 DEF Deepens, OnChain, Present, Payment
  <1>6. CASE UNCHANGED payments
    BY <1>6 DEF Present
  <1> QED BY <1>1, <1>2, <1>3, <1>4, <1>5, <1>6, LedgerSteps DEF LedgerStep

LEMMA InsertedIsPresent ==
    ASSUME Shape, NEW w \in Handler, InsertPayment(w)
    PROVE  payments'[handler[w].slate].status # "absent"
  <1>1. handler[w].slate \in Slate /\ payments \in [Slate -> Payment]
    BY DEF InsertPayment, At, Shape, TypeOK, HandlerShape, LocalShape, BusyPC
  <1> QED BY <1>1 DEF InsertPayment, Inserted, NewRow, Present

\* While no statement fails, matching starts from a written row.
LEMMA MatchedSteps ==
    ASSUME "db" \notin FaultKinds, Shape, Shape', [Next]_vars,
           NEW w \in Handler, handler'[w].pc \in Matched
    PROVE  /\ handler'[w].slate = handler[w].slate
           /\ handler[w].pc \in Matched \/ InsertPayment(w)
  <1> handler \in [Handler -> HandlerState] /\ NostrLoop \in Handler
    BY DEF Shape, TypeOK, Handler
  <1> DEFINE Goal == /\ handler'[w].slate = handler[w].slate
                     /\ handler[w].pc \in Matched \/ InsertPayment(w)
  <1> USE DEF Matched
  <1>0. ~Crash /\ ~ \E v \in Handler : StatementFails(v)
    BY DEF Crash, AllIdle, Idle, Fault, StatementFails
  <1>1. ASSUME NEW v \in Handler, NEW h, handler' = [handler EXCEPT ![v] = h],
               h.pc \in Matched =>
                  /\ h.slate = handler[v].slate
                  /\ handler[v].pc \in Matched \/ InsertPayment(v)
        PROVE  Goal
    <2>1. CASE w = v
      BY <1>1, <2>1
    <2>2. CASE w # v
      BY <1>1, <2>2
    <2> QED BY <2>1, <2>2
  <1>2. CASE UNCHANGED handler
    BY <1>2
  <1>3. ASSUME NEW v \in Handler, Receives(v)
        PROVE  Goal
    BY <1>1, <1>3, ReceivesTakes
  <1>4. ASSUME NEW v \in Handler, HandlerStep(v)
        PROVE  Goal
    <2>1. PICK h : /\ handler' = [handler EXCEPT ![v] = h]
                   /\ h.pc \in Matched =>
                        /\ h.slate = handler[v].slate
                        /\ handler[v].pc \in Matched \/ InsertPayment(v)
      BY <1>4 DEF HandlerStep, InsertPayment, ResolveDerived, ResolveMemo, ResolveAmount,
                  Resolve, Resolved, Refuse, DeleteRejected, AfterRefusal, PayInvoice,
                  LinkPayment, NotifyReceived, Reply, Deliver, MarkReplied, Goto, At,
                  HandlerState, Idle
    <2> QED BY <1>1, <2>1
  <1>5. ASSUME NEW v \in Handler, ReplyFails(v)
        PROVE  Goal
    BY <1>1, <1>5 DEF ReplyFails, Idle
  <1>6. CASE BootReconcile
    BY <1>6 DEF BootReconcile, Goto, HandlerState
  <1>7. CASE Remark \/ ResendDone
    BY <1>1, <1>7 DEF Remark, ResendDone, Idle
  <1>8. ASSUME NEW s \in Slate, Resend(s)
        PROVE  Goal
    <2> DEFINE h == [Idle EXCEPT !.pc = "remark", !.slate = s]
    <2>1. UNCHANGED handler \/ handler' = [handler EXCEPT ![NostrLoop] = h]
      BY <1>8 DEF Resend
    <2>2. h.pc = "remark"
      BY DEF Idle
    <2> HIDE DEF h
    <2> QED BY <1>1, <1>2, <2>1, <2>2
  <1>9. ASSUME NEW s \in Slate, ResendFails(s)
        PROVE  Goal
    BY <1>2, <1>9 DEF ResendFails
  <1> QED BY <1>0, <1>2, <1>3, <1>4, <1>5, <1>6, <1>7, <1>8, <1>9, AnsweringSteps
          DEF Answering, BootStep

LEMMA MatchedHasRowStep ==
    ASSUME "db" \notin FaultKinds, Shape, Shape', Ownership, MatchedHasRow, [Next]_vars
    PROVE  MatchedHasRow'
  <1> USE Owned
  <1> SUFFICES ASSUME NEW w \in Handler, handler'[w].pc \in Matched
               PROVE  payments'[handler'[w].slate].status # "absent"
    BY DEF MatchedHasRow, Present
  <1>1. /\ handler'[w].slate = handler[w].slate
        /\ handler[w].pc \in Matched \/ InsertPayment(w)
    BY MatchedSteps
  <1>2. CASE InsertPayment(w)
    BY <1>1, <1>2, InsertedIsPresent DEF Present
  <1>3. CASE handler[w].pc \in Matched
    <2>1. handler[w].slate \in Slate /\ Present(handler[w].slate)
      BY <1>3 DEF MatchedHasRow, Matched, Shape, HandlerShape, LocalShape, BusyPC
    <2>2. ASSUME NEW v \in Handler, Deletes(v), handler[v].slate = handler[w].slate
          PROVE  FALSE
      BY <1>3, <2>1, <2>2 DEF Deletes, DeleteRejected, At, Matched
    <2> QED BY <1>1, <2>1, <2>2, RowStands DEF Present
  <1> QED BY <1>1, <1>2, <1>3

LEMMA PaidHasRowStep ==
    ASSUME Shape, Shape', Ownership, MatchedHasRow, PaidHasRow, [Next]_vars
    PROVE  PaidHasRow'
  <1> USE Owned
  <1> SUFFICES ASSUME NEW i \in Invoice, Settled(i)'
               PROVE  payments'[invoices'[i].paidBy].status # "absent"
    BY DEF PaidHasRow, Settled, Present
  <1> DEFINE s == invoices'[i].paidBy
  <1>1. s \in Slate
    BY OwnershipInductive DEF Ownership, OnePayment, Shape, TypeOK, Row
  <1>2. CASE s = invoices[i].paidBy
    <2>1. Settled(i) /\ Present(s)
      BY <1>1, <1>2 DEF Ownership, OnePayment, PaidHasRow
    <2>2. ASSUME NEW w \in Handler, Deletes(w), handler[w].slate = s
          PROVE  FALSE
      BY <1>2, <2>2 DEF Deletes, DeleteRejected, At, Ownership, OneLink, Unpaying, Unlinking
    <2> QED BY <1>1, <2>1, <2>2, RowStands DEF Present
  <1>3. ASSUME NEW w \in Handler, Pays(w), s = handler[w].slate
        PROVE  payments'[s].status # "absent"
    <2>1. Present(handler[w].slate) /\ UNCHANGED payments
      BY <1>3 DEF Pays, PayInvoice, At, MatchedHasRow, Matched
    <2> QED BY <1>3, <2>1 DEF Present
  <1> QED BY <1>2, <1>3, PayerOfStep DEF Present

\* Refusals are remembered, and the wallet takes a slate for a request.
LEMMA RecordSteps ==
    ASSUME "crash" \notin FaultKinds, "db" \notin FaultKinds, "wallet" \notin FaultKinds,
           Shape, Shape', [Next]_vars
    PROVE  /\ rejected \subseteq rejected'
           /\ \A s \in wallet' \ wallet : \E w \in Handler :
                handler'[w].pc = "insert" /\ handler'[w].slate = s
           /\ \A w \in Handler : handler[w].pc = "insert" =>
                \/ handler'[w] = handler[w]
                \/ InsertPayment(w)
  <1> handler \in [Handler -> HandlerState] /\ NostrLoop \in Handler
    BY DEF Shape, TypeOK, Handler
  <1>0. /\ ~Crash
        /\ ~ \E w \in Handler : StatementFails(w) \/ \E s \in Slate : WalletFailsAfterCommit(w, s)
    BY DEF Crash, Fault, StatementFails, WalletFailsAfterCommit
  <1>1. rejected \subseteq rejected'
    <2>1. ASSUME NEW w \in Handler, HandlerStep(w) PROVE rejected \subseteq rejected'
      BY <2>1 DEF HandlerStep, InsertPayment, ResolveDerived, ResolveMemo, ResolveAmount,
                  Resolve, Resolved, Refuse, DeleteRejected, PayInvoice, LinkPayment,
                  NotifyReceived, Reply, Deliver, MarkReplied, history
    <2>2. ASSUME NEW w \in Handler, Receives(w) \/ ReplyFails(w)
          PROVE  rejected \subseteq rejected'
      BY <2>2, ReceivesTakes DEF ReplyFails
    <2>3. CASE BootStep
      BY <2>3 DEF BootStep, BootReconcile, Resend, Remark, ResendDone, history
    <2>4. ASSUME NEW s \in Slate, ResendFails(s) PROVE rejected \subseteq rejected'
      BY <2>4 DEF ResendFails, history
    <2> QED BY <1>0, <2>1, <2>2, <2>3, <2>4, AnsweringSteps DEF Answering
  <1>2. ASSUME NEW s \in wallet' \ wallet
        PROVE  \E w \in Handler : handler'[w].pc = "insert" /\ handler'[w].slate = s
    <2>1. ASSUME NEW w \in Handler, NEW rail, NEW r, NEW key, NEW memo,
                 Receive(w, rail, r, key, memo)
          PROVE  \E v \in Handler : handler'[v].pc = "insert" /\ handler'[v].slate = s
      BY <2>1 DEF Receive
    <2>2. CASE Request
      BY <1>2, <2>1, <2>2 DEF Request, ViewInvoice, CreateInvoice, ReceiveNostr, ReceivePaste,
                              ReceiveForeign, Handler
    <2>3. ~ \E w \in Handler : HandlerStep(w)
      BY <1>2 DEF HandlerStep, InsertPayment, ResolveDerived, ResolveMemo, ResolveAmount,
                  Resolve, DeleteRejected, PayInvoice, LinkPayment, NotifyReceived, Reply,
                  Deliver, MarkReplied
    <2>4. ~BootStep /\ ~PollStep /\ ~Environment
      BY <1>2 DEF BootStep, BootReconcile, Resend, Remark, ResendDone, PollStep, PollStart,
                  PollUpdate, PollFinalize, PollNotify, PollDone, PollRead, Environment, Tick,
                  RefreshDirectory, Block
    <2>5. ~Failure
      BY <1>0, <1>2 DEF Failure, RefreshDirectoryFails, PollStatementFails, ReplyFails,
                        ResendFails, Reorg, PollNodeFails
    <2> QED BY <1>2, <2>2, <2>3, <2>4, <2>5 DEF Next, vars
  <1>3. ASSUME NEW w \in Handler, handler[w].pc = "insert"
        PROVE  handler'[w] = handler[w] \/ InsertPayment(w)
    <2>1. ASSUME NEW v \in Handler, handler[v].pc # "insert",
                 NEW h, handler' = [handler EXCEPT ![v] = h]
          PROVE  handler'[w] = handler[w]
      BY <1>3, <2>1
    <2>2. ASSUME NEW v \in Handler, Receives(v)
          PROVE  handler'[w] = handler[w]
      BY <2>1, <2>2, ReceivesTakes
    <2>3. ASSUME NEW v \in Handler, HandlerStep(v), ~InsertPayment(v)
          PROVE  handler'[w] = handler[w]
      <3>1. handler[v].pc # "insert" /\ \E h : handler' = [handler EXCEPT ![v] = h]
        BY <2>3 DEF HandlerStep, ResolveDerived, ResolveMemo, ResolveAmount,
                    Resolve, Resolved, Refuse, DeleteRejected, PayInvoice, LinkPayment,
                    NotifyReceived, Reply, Deliver, MarkReplied, Goto, At
      <3> QED BY <2>1, <3>1
    <2>4. ASSUME NEW v \in Handler, InsertPayment(v), v # w
          PROVE  handler'[w] = handler[w]
      BY <2>4 DEF InsertPayment, Goto
    <2>5. ASSUME NEW v \in Handler, ReplyFails(v)
          PROVE  handler'[w] = handler[w]
      BY <2>1, <2>5 DEF ReplyFails, At
    <2>6. CASE BootReconcile
      BY <1>3, <2>6 DEF BootReconcile, Goto, At
    <2>7. CASE Remark \/ ResendDone
      BY <2>1, <2>7 DEF Remark, ResendDone, At
    <2>8. ASSUME NEW s \in Slate, Resend(s)
          PROVE  handler'[w] = handler[w]
      BY <2>1, <2>8 DEF Resend, At
    <2>9. ASSUME NEW s \in Slate, ResendFails(s)
          PROVE  handler'[w] = handler[w]
      BY <2>9 DEF ResendFails
    <2> QED BY <1>0, <2>2, <2>3, <2>4, <2>5, <2>6, <2>7, <2>8, <2>9, AnsweringSteps
            DEF Answering, BootStep
  <1> QED BY <1>1, <1>2, <1>3

LEMMA ReceivedIsRecordedStep ==
    ASSUME "crash" \notin FaultKinds, "db" \notin FaultKinds, "wallet" \notin FaultKinds,
           Shape, Shape', Ownership, Refusals, ReceivedIsRecorded, [Next]_vars
    PROVE  ReceivedIsRecorded'
  <1> USE Owned, RecordSteps
  <1> DEFINE Recorded(s) == \/ Present(s)
                            \/ s \in rejected
                            \/ \E w \in Handler : At(w, "insert") /\ handler[w].slate = s
  <1> SUFFICES ASSUME NEW s \in wallet' PROVE Recorded(s)'
    BY DEF ReceivedIsRecorded
  <1>0. s \in Slate
    BY DEF Shape, TypeOK
  <1>1. CASE s \notin wallet
    BY <1>1 DEF At
  <1>2. CASE s \in rejected
    BY <1>2
  <1>3. CASE Present(s)
    <2>1. ASSUME NEW w \in Handler, Deletes(w), handler[w].slate = s
          PROVE  s \in rejected
      BY <1>0, <2>1 DEF Deletes, DeleteRejected, At, Refusals
    <2> QED BY <1>0, <1>2, <1>3, <2>1, RowStands
  <1>4. ASSUME NEW w \in Handler, At(w, "insert"), handler[w].slate = s
        PROVE  Recorded(s)'
    <2>1. CASE handler'[w] = handler[w]
      BY <1>4, <2>1 DEF At
    <2>2. CASE InsertPayment(w)
      BY <1>4, <2>2, InsertedIsPresent DEF Present
    <2> QED BY <1>4, <2>1, <2>2 DEF At
  <1> QED BY <1>1, <1>2, <1>3, <1>4 DEF ReceivedIsRecorded

-----------------------------------------------------------------------------

LEMMA InitAnswers ==
    ASSUME Init
    PROVE  /\ ForeignResolvesByAmount /\ NothingToResend /\ Refusals
           /\ HooksAreOne /\ HooksAreSent
           /\ MatchedHasRow /\ PaidHasRow /\ ReceivedIsRecorded
  <1> USE TableAssumption, SettlementAssumption
  <1>1. /\ \A w \in Handler : /\ handler[w].slate = NULL /\ handler[w].rail = NULL
                              /\ handler[w].pc \in {"idle", "boot"}
        /\ NostrLoop \in Handler
    BY DEF Init, AllIdle, Idle, Handler
  <1>2. ForeignResolvesByAmount /\ NothingToResend
    BY <1>1 DEF Init, ForeignResolvesByAmount, NothingToResend, AbsentPayment
  <1>3. Refusals
    BY <1>1 DEF Init, Refusals, RejectedNeverReplied, Unanswered, Unnotified, Unlinking
  <1>4. HooksAreOne /\ HooksAreSent
    BY <1>1 DEF Init, HooksAreOne, HooksAreSent, Unnotified, Unlinking
  <1>5. MatchedHasRow /\ PaidHasRow /\ ReceivedIsRecorded
    BY <1>1 DEF Init, MatchedHasRow, Matched, PaidHasRow, ReceivedIsRecorded, Settled, AbsentRow
  <1> QED BY <1>2, <1>3, <1>4, <1>5

\* As long as the process does not die, a payer whose payment the amount guard
\* refused never gets an S2 (WalletReceiver::receive): whatever statement
\* fails, whatever the wallet, the relays and the chain do, and however many
\* requests run at once.  A crash between the refusal and the DELETE leaves a
\* row the boot reconcile answers.
THEOREM RefusedStayUnanswered ==
    ASSUME "crash" \notin FaultKinds
    PROVE  Spec => []RejectedNeverReplied
  <1> DEFINE IInv == /\ Shape /\ Ownership
                     /\ ForeignResolvesByAmount /\ NothingToResend /\ Refusals
  <1>1. IInv /\ [Next]_vars => IInv'
    BY ShapeInductive, OwnershipInductive, ForeignStep, NothingToResendStep, RefusalsStep
  <1>2. Init => IInv
    BY InitShape, InitOwnership, InitAnswers
  <1>3. IInv => RejectedNeverReplied
    BY DEF Refusals
  <1> QED BY <1>1, <1>2, <1>3, PTL DEF Spec

\* The store never hears twice of one payment, whatever fails: no retry, resend
\* or restart runs persist_and_match's enqueue again.
THEOREM ReceivedOnce == Spec => [](\A s \in Slate : receivedHook[s] <= 1)
  <1>1. Shape /\ Ownership /\ HooksAreOne /\ [Next]_vars => (Shape /\ Ownership /\ HooksAreOne)'
    BY ShapeInductive, OwnershipInductive, HooksAreOneStep
  <1>2. Init => Shape /\ Ownership /\ HooksAreOne
    BY InitShape, InitOwnership, InitAnswers
  <1>3. HooksAreOne => \A s \in Slate : receivedHook[s] <= 1
    BY DEF HooksAreOne
  <1> QED BY <1>1, <1>2, <1>3, PTL DEF Spec

\* As long as the process does not die and no statement fails, the store has
\* heard of a payment, once, when its payer gets the S2 (persist_and_match).
THEOREM StoreHearsFirst ==
    ASSUME "crash" \notin FaultKinds, "db" \notin FaultKinds
    PROVE  Spec => []NotifiedBeforeReply
  <1> DEFINE IInv == /\ Shape /\ Ownership
                     /\ ForeignResolvesByAmount /\ NothingToResend
                     /\ HooksAreOne /\ HooksAreSent
  <1>1. IInv /\ [Next]_vars => IInv'
    BY ShapeInductive, OwnershipInductive, ForeignStep, NothingToResendStep,
       HooksAreOneStep, HooksAreSentStep
  <1>2. Init => IInv
    BY InitShape, InitOwnership, InitAnswers
  <1>3. IInv => NotifiedBeforeReply
    BY DEF HooksAreOne, HooksAreSent, NotifiedBeforeReply
  <1> QED BY <1>1, <1>2, <1>3, PTL DEF Spec

\* As long as no statement fails, a settled invoice's payer has a row, through
\* any crash: only refused payments' rows are deleted (persist_and_match).
THEOREM PayersStayOnRecord ==
    ASSUME "db" \notin FaultKinds
    PROVE  Spec => []PaidHasRow
  <1> DEFINE IInv == Shape /\ Ownership /\ MatchedHasRow /\ PaidHasRow
  <1>1. IInv /\ [Next]_vars => IInv'
    BY ShapeInductive, OwnershipInductive, MatchedHasRowStep, PaidHasRowStep
  <1>2. Init => IInv
    BY InitShape, InitOwnership, InitAnswers
  <1> QED BY <1>1, <1>2, PTL DEF Spec

\* As long as the process does not die, no statement fails and the wallet
\* answers what it commits, every slate it has taken is on record, about to
\* be, or was refused.
THEOREM TakenIsRecorded ==
    ASSUME "crash" \notin FaultKinds, "db" \notin FaultKinds, "wallet" \notin FaultKinds
    PROVE  Spec => []ReceivedIsRecorded
  <1> DEFINE IInv == /\ Shape /\ Ownership
                     /\ ForeignResolvesByAmount /\ NothingToResend /\ Refusals
                     /\ ReceivedIsRecorded
  <1>1. IInv /\ [Next]_vars => IInv'
    BY ShapeInductive, OwnershipInductive, ForeignStep, NothingToResendStep, RefusalsStep,
       ReceivedIsRecordedStep
  <1>2. Init => IInv
    BY InitShape, InitOwnership, InitAnswers
  <1> QED BY <1>1, <1>2, PTL DEF Spec

=============================================================================
