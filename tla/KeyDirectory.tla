---------------------------- MODULE KeyDirectory ----------------------------
(***************************************************************************)
(* Which receiving identities the server answers to: its master key, the   *)
(* one-time key of every open derived-mode invoice, and the current and    *)
(* recent endpubs of every user.  The last two are worked out by a         *)
(* maintenance task and published as a snapshot; endpubs are rotated by    *)
(* that task and by admin requests, one SQL statement at a time.           *)
(*                                                                         *)
(* Keys are told apart by what they are derived from: Master, the invoice  *)
(* id, or the pair of a user and an epoch (gp-core::derive).               *)
(***************************************************************************)
EXTENDS Integers

CONSTANTS
    User,         \* ids of users
    Charge,       \* ids of derived-mode invoices
    Request,      \* admin requests that may be under way at once
    Master,       \* the server's own key
    NULL,
    Overlap,      \* GP_ENDPUB_OVERLAP_EPOCHS
    AutoRotate,   \* GP_ENDPUB_ROTATE_INTERVAL > 0
    FaultKinds,   \* which faults the environment may inject
    MaxFaults,    \* bound: how many of them
    MaxEpoch      \* bound: rotations of a user

ASSUME KeyDirectoryAssumption ==
    /\ NULL \notin User
    /\ "tick" \notin Request
    /\ Overlap \in Nat /\ MaxEpoch \in Nat /\ MaxFaults \in Nat
    /\ AutoRotate \in BOOLEAN
    /\ FaultKinds \subseteq {"db", "relay", "receive", "crash"}

VARIABLES
    epoch,      \* column user.epoch; NoRow until the user exists
    assigned,   \* table endpub_assignment: the epochs of each user
    charge,     \* status of each derived-mode invoice
    rotator,    \* what each caller of create_user and rotate is doing
    tick,       \* the maintenance task
    snapshot,   \* the derived keys the directory resolves
    blind,      \* history: a scan failed when the snapshot was built
    highest,    \* history: the highest epoch each user has had
    faults      \* history: faults injected

keyVars == <<epoch, assigned, charge, rotator, tick, snapshot, blind, highest>>

NoRow == -1
Epochs == 0..MaxEpoch
Endpub == User \X Epochs
Key == {Master} \cup Charge \cup Endpub

Rotators == Request \cup {"tick"}
Rotator == [at : {"idle", "advance", "assign"}, user : User \cup {NULL}, next : Epochs]
Done == [at |-> "idle", user |-> NULL, next |-> 0]

Ticks == [at : {"asleep", "rotating", "endpubs"},
          due : SUBSET User, keys : SUBSET Key, blind : BOOLEAN]
Asleep == [at |-> "asleep", due |-> {}, keys |-> {}, blind |-> FALSE]

Fault(kind) ==
    /\ kind \in FaultKinds
    /\ faults < MaxFaults
    /\ faults' = faults + 1

\* current_endpub, which an admin is shown: the newest that was assigned.
CurrentEndpub(u, e) == e \in assigned[u] /\ \A f \in assigned[u] : f <= e

\* The keys the tables say to watch (the two SELECTs of build_snapshot).
OpenCharges == {i \in Charge : charge[i] = "open"}
\* Mutant: the current endpub is left out, only the rotated ones are kept.
FormerEndpubs ==
    {k \in Endpub : /\ k[2] \in assigned[k[1]]
                    /\ k[2] >= epoch[k[1]] - Overlap /\ k[2] < epoch[k[1]]}
\* Mutant: the overlap is counted one epoch short.
NarrowEndpubs ==
    {k \in Endpub : k[2] \in assigned[k[1]] /\ k[2] > epoch[k[1]] - Overlap}
WatchedEndpubs ==
    {k \in Endpub : k[2] \in assigned[k[1]] /\ k[2] >= epoch[k[1]] - Overlap}
WatchSet == {Master} \cup OpenCharges \cup WatchedEndpubs

\* KeyDirectory::watched and ::resolve: what the service sees of it.
Watched == {Master} \cup snapshot

-----------------------------------------------------------------------------
(* Invoices: a derived key lives while its invoice is open. *)

OpenCharge(i) ==
    /\ charge[i] = "absent"
    /\ charge' = [charge EXCEPT ![i] = "open"]
    /\ UNCHANGED <<epoch, assigned, rotator, tick, snapshot, blind, highest, faults>>

CloseCharge(i) ==
    /\ charge[i] = "open"
    /\ charge' = [charge EXCEPT ![i] = "closed"]
    /\ UNCHANGED <<epoch, assigned, rotator, tick, snapshot, blind, highest, faults>>

-----------------------------------------------------------------------------
(* Users and rotation. *)

Note(u, e) ==
    highest' = [highest EXCEPT ![u] = IF e > @ THEN e ELSE @]

\* create_user: INSERT INTO user, then assign epoch 0.
CreateUser(r, u) ==
    /\ rotator[r].at = "idle"
    /\ epoch[u] = NoRow
    /\ epoch' = [epoch EXCEPT ![u] = 0]
    /\ Note(u, 0)
    /\ rotator' = [rotator EXCEPT ![r] = [at |-> "assign", user |-> u, next |-> 0]]
    /\ UNCHANGED <<assigned, charge, tick, snapshot, blind, faults>>

\* rotate: the epoch is read here and written by the next statement.
GetUser(r, u) ==
    /\ rotator[r].at = "idle"
    /\ epoch[u] \in 0..(MaxEpoch - 1)
    /\ rotator' = [rotator EXCEPT ![r] =
                     [at |-> "advance", user |-> u, next |-> epoch[u] + 1]]

AdminRotates(r, u) ==
    /\ GetUser(r, u)
    /\ UNCHANGED <<epoch, assigned, charge, tick, snapshot, blind, highest, faults>>

\* UPDATE user SET epoch = next, whatever the epoch is by now.
Advance(r) ==
    /\ rotator[r].at = "advance"
    /\ epoch' = [epoch EXCEPT ![rotator[r].user] = rotator[r].next]
    /\ Note(rotator[r].user, rotator[r].next)
    /\ rotator' = [rotator EXCEPT ![r].at = "assign"]
    /\ UNCHANGED <<assigned, charge, tick, snapshot, blind, faults>>

\* INSERT OR IGNORE INTO endpub_assignment.
Assign(r) ==
    /\ rotator[r].at = "assign"
    /\ assigned' = [assigned EXCEPT ![rotator[r].user] = @ \cup {rotator[r].next}]
    /\ rotator' = [rotator EXCEPT ![r] = Done]
    /\ UNCHANGED <<epoch, charge, tick, snapshot, blind, highest, faults>>

\* An error of either statement ends the request, and the tick's whole round.
RotationFails(r) ==
    /\ rotator[r].at # "idle"
    /\ Fault("db")
    /\ rotator' = [rotator EXCEPT ![r] = Done]
    /\ tick' = IF r = "tick" THEN [tick EXCEPT !.due = {}] ELSE tick
    /\ UNCHANGED <<epoch, assigned, charge, snapshot, blind, highest>>

-----------------------------------------------------------------------------
(* The maintenance task: rotate who is due, then rebuild the snapshot. *)

\* Which clocks have run out is the environment's choice; with no global
\* interval the task does not ask.
TickWakes ==
    /\ tick.at = "asleep"
    /\ \E due \in SUBSET {u \in User : epoch[u] # NoRow} :
         /\ AutoRotate \/ due = {}
         /\ tick' = [tick EXCEPT !.at = "rotating", !.due = due]
    /\ UNCHANGED <<epoch, assigned, charge, rotator, snapshot, blind, highest, faults>>

TickRotates(u) ==
    /\ tick.at = "rotating" /\ u \in tick.due
    /\ GetUser("tick", u)
    /\ tick' = [tick EXCEPT !.due = @ \ {u}]
    /\ UNCHANGED <<epoch, assigned, charge, snapshot, blind, highest, faults>>

\* Nobody else is due, or the bound on epochs is reached.
RotationOver ==
    /\ tick.at = "rotating" /\ rotator["tick"].at = "idle"
    /\ \A u \in tick.due : epoch[u] >= MaxEpoch

ScanCharges ==
    /\ RotationOver
    /\ tick' = [tick EXCEPT !.at = "endpubs", !.due = {}, !.keys = OpenCharges]
    /\ UNCHANGED <<epoch, assigned, charge, rotator, snapshot, blind, highest, faults>>

\* A failed SELECT counts as one that found nothing.
ScanChargesFails ==
    /\ RotationOver
    /\ Fault("db")
    /\ tick' = [tick EXCEPT !.at = "endpubs", !.due = {}, !.keys = {}, !.blind = TRUE]
    /\ UNCHANGED <<epoch, assigned, charge, rotator, snapshot, blind, highest>>

\* Nothing is awaited between the SELECT and the write of the snapshot.
Publishes(keys, failed) ==
    /\ tick.at = "endpubs"
    /\ snapshot' = tick.keys \cup keys
    /\ blind' = (tick.blind \/ failed)
    /\ tick' = Asleep
    /\ UNCHANGED <<epoch, assigned, charge, rotator, highest>>

ScanEndpubs == Publishes(WatchedEndpubs, FALSE) /\ UNCHANGED faults

ScanEndpubsFails == Publishes({}, TRUE) /\ Fault("db")

-----------------------------------------------------------------------------

\* A boot builds the first snapshot before the service starts.
RestartDirectory ==
    /\ rotator' = [r \in Rotators |-> Done]
    /\ tick' = Asleep
    /\ snapshot' = OpenCharges \cup WatchedEndpubs
    /\ blind' = FALSE
    /\ UNCHANGED <<epoch, assigned, charge, highest>>

InitDirectory ==
    /\ epoch = [u \in User |-> NoRow]
    /\ assigned = [u \in User |-> {}]
    /\ charge = [i \in Charge |-> "absent"]
    /\ rotator = [r \in Rotators |-> Done]
    /\ tick = Asleep
    /\ snapshot = {}
    /\ blind = FALSE
    /\ highest = [u \in User |-> NoRow]
    /\ faults = 0

Rotation(r) == Advance(r) \/ Assign(r)

Maintenance ==
    \/ TickWakes
    \/ \E u \in User : TickRotates(u)
    \/ Rotation("tick")
    \/ ScanCharges
    \/ ScanEndpubs

DirectoryStep ==
    \/ \E i \in Charge : OpenCharge(i) \/ CloseCharge(i)
    \/ \E r \in Request, u \in User : CreateUser(r, u) \/ AdminRotates(r, u)
    \/ \E r \in Request : Rotation(r)
    \/ \E r \in Rotators : RotationFails(r)
    \/ Maintenance
    \/ ScanChargesFails
    \/ ScanEndpubsFails

=============================================================================
