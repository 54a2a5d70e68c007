------------------------------ MODULE MCStore ------------------------------
(***************************************************************************)
(* Instances of StoreProperties for TLC: two invoices are one checkout     *)
(* whose answer was lost and its retry.                                    *)
(***************************************************************************)
EXTENDS StoreProperties

Events == {"received", "confirmed"} \X Invoice

=============================================================================
