------------------------------ MODULE MCInbox ------------------------------
(***************************************************************************)
(* Instances of Inbox for TLC: one user, one derived-mode invoice, and two *)
(* wraps of one sender.                                                    *)
(***************************************************************************)
EXTENDS InboxProperties, TLC

CONSTANTS u1, i1, wOne, wTwo, payer, rOne, sOne

Wrapped(k, r, s, how) == [to |-> k, from |-> payer, rumor |-> r, slate |-> s, shape |-> how]

\* One message wrapped for two keys: the endpub the user starts with, which a
\* rotation leaves inside the overlap, and the one-time key of an invoice.
Resent ==
    (wOne :> Wrapped(<<u1, 0>>, rOne, sOne, "payment"))
    @@ (wTwo :> Wrapped(i1, rOne, sOne, "payment"))

=============================================================================
