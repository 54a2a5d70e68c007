------------------------------ MODULE MCGrin1 ------------------------------
(***************************************************************************)
(* Instances of Grin1Properties for TLC.                                   *)
(***************************************************************************)
EXTENDS Grin1Properties

Asked(amount, ttl) == [mode |-> NULL, expected |-> amount, ref |-> NULL, ttl |-> ttl]

\* An invoice that expires after one instant; or that never does; or one for
\* any amount, which cannot be armed.
Expiring == {Asked(1, 1)}
Mixed == {Asked(1, 1), Asked(1, NULL), Asked(NULL, NULL)}

=============================================================================
