-------------------------- MODULE InvoiceLifecycle --------------------------
(***************************************************************************)
(* What GoblinPay promises a merchant about one invoice, with no handlers, *)
(* no payment rows and no chain: an invoice is opened once, is settled by  *)
(* at most one payment of exactly the amount it asks for, becomes final    *)
(* once, and its finality is announced at most once.  One payment settles  *)
(* one invoice.                                                            *)
(***************************************************************************)
EXTENDS Naturals

CONSTANTS Invoice, Slate, Amount, NULL, AmountOf

VARIABLES
    status,      \* "absent", "open", "paid", "confirmed" or "expired"
    expected,    \* the amount the invoice asks for, NULL for any
    paidBy,      \* the payment that settled it
    announced    \* payment.confirmed events put in the outbox

vars == <<status, expected, paidBy, announced>>

Init == /\ status = [i \in Invoice |-> "absent"]
        /\ expected = [i \in Invoice |-> NULL]
        /\ paidBy = [i \in Invoice |-> NULL]
        /\ announced = [i \in Invoice |-> 0]

\* An invoice asked for with no time left is born expired.
Open(i, a) == /\ status[i] = "absent"
              /\ \E st \in {"open", "expired"} : status' = [status EXCEPT ![i] = st]
              /\ expected' = [expected EXCEPT ![i] = a]
              /\ UNCHANGED <<paidBy, announced>>

Pay(i, s) == /\ status[i] = "open"
             /\ expected[i] \in {NULL, AmountOf[s]}
             /\ \A j \in Invoice : paidBy[j] # s
             /\ status' = [status EXCEPT ![i] = "paid"]
             /\ paidBy' = [paidBy EXCEPT ![i] = s]
             /\ UNCHANGED <<expected, announced>>

Confirm(i) == /\ status[i] = "paid"
              /\ status' = [status EXCEPT ![i] = "confirmed"]
              /\ UNCHANGED <<expected, paidBy, announced>>

Announce(i) == /\ status[i] = "confirmed" /\ announced[i] = 0
               /\ announced' = [announced EXCEPT ![i] = 1]
               /\ UNCHANGED <<status, expected, paidBy>>

Expire(i) == /\ status[i] = "open"
             /\ status' = [status EXCEPT ![i] = "expired"]
             /\ UNCHANGED <<expected, paidBy, announced>>

Next == \E i \in Invoice :
          \/ \E a \in Amount \cup {NULL} : Open(i, a)
          \/ \E s \in Slate : Pay(i, s)
          \/ Confirm(i) \/ Announce(i) \/ Expire(i)

Spec == Init /\ [][Next]_vars

=============================================================================
