------------------------- MODULE InvoiceTableProofs -------------------------
(***************************************************************************)
(* What the statements of InvoiceTable do to a table, whoever runs them:   *)
(* the modules that use the table cite these facts.                        *)
(***************************************************************************)
EXTENDS InvoiceTable, TLAPS

\* No statement makes an ill-typed row (invoice.rs).
LEMMA RowUpdatesTyped ==
    ASSUME NEW tab \in [Invoice -> Row], NEW i \in Invoice, NEW t \in Nat
    PROVE  /\ ExpireIfDue(tab, i, t) \in [Invoice -> Row]
           /\ \A s \in Slate : MarkPaid(tab, i, s) \in [Invoice -> Row]
           /\ MarkConfirmed(tab, i) \in [Invoice -> Row]
  <1>1. \A st \in Status : [tab[i] EXCEPT !.status = st] \in Row
    BY DEF Row
  <1>2. \A s \in Slate : [tab[i] EXCEPT !.status = "paid", !.paidBy = s] \in Row
    BY DEF Row, Status
  <1>3. \A r \in Row : [tab EXCEPT ![i] = r] \in [Invoice -> Row]
    OBVIOUS
  <1>4. ExpireIfDue(tab, i, t) \in [Invoice -> Row]
    BY <1>1, <1>3 DEF ExpireIfDue, Status
  <1>5. \A s \in Slate : MarkPaid(tab, i, s) \in [Invoice -> Row]
    BY <1>2, <1>3 DEF MarkPaid
  <1>6. MarkConfirmed(tab, i) \in [Invoice -> Row]
    BY <1>1, <1>3 DEF MarkConfirmed, Status
  <1> QED BY <1>4, <1>5, <1>6

\* The INSERT of create, whatever was asked for and whatever the default mode.
LEMMA CreatedTyped ==
    ASSUME NEW p \in NewInvoice, NEW mode \in Mode, NEW t \in Nat
    PROVE  Created(p, mode, t) \in Row
  BY TableAssumption DEF Created, NewInvoice, Row, Status

Unsettled(tab, j) == tab[j].status \in {"absent", "open"}

\* Expiry and confirmation leave the payer alone, and neither makes a row
\* unsettled that was settled.
LEMMA StatusUpdates ==
    ASSUME NEW tab \in [Invoice -> Row], NEW i \in Invoice, NEW t \in Nat, NEW j \in Invoice,
           NEW new \in {ExpireIfDue(tab, i, t), MarkConfirmed(tab, i)}
    PROVE  /\ new[j].paidBy = tab[j].paidBy
           /\ Unsettled(new, j) => Unsettled(tab, j)
           /\ new[j].status = "absent" <=> tab[j].status = "absent"
  <1>1. CASE new = tab
    BY <1>1
  <1>2. ASSUME tab[i].status # "absent", NEW st \in {"expired", "confirmed"},
               new = [tab EXCEPT ![i].status = st]
        PROVE  /\ new[j].paidBy = tab[j].paidBy
               /\ Unsettled(new, j) => Unsettled(tab, j)
               /\ new[j].status = "absent" <=> tab[j].status = "absent"
    <2>1. new[j] = IF j = i THEN [tab[i] EXCEPT !.status = st] ELSE tab[j]
      BY <1>2
    <2>2. tab[j] \in Row /\ tab[i] \in Row
      OBVIOUS
    <2> QED BY <1>2, <2>1, <2>2 DEF Row, Unsettled
  <1> QED BY <1>1, <1>2 DEF ExpireIfDue, MarkConfirmed, MayConfirm

\* mark_paid writes the payer of one open row, which is paid from then on.
LEMMA PaidUpdate ==
    ASSUME NEW tab \in [Invoice -> Row], NEW i \in Invoice, NEW s \in Slate, NEW j \in Invoice
    PROVE  LET new == MarkPaid(tab, i, s)
           IN  IF j = i /\ tab[i].status = "open"
               THEN new[j].paidBy = s /\ new[j].status = "paid"
               ELSE new[j] = tab[j]
  BY DEF MarkPaid, Row

=============================================================================
