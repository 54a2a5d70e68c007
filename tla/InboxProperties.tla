-------------------------- MODULE InboxProperties --------------------------
(***************************************************************************)
(* What payers, users and the operator rely on between a published gift    *)
(* wrap and the wallet.                                                    *)
(***************************************************************************)
EXTENDS Inbox

\* The tables, the two tasks and the service's memory stay well formed.
TypeOK ==
    /\ epoch \in [User -> Epochs \cup {NoRow}]
    /\ assigned \in [User -> SUBSET Epochs]
    /\ charge \in [Charge -> {"absent", "open", "closed"}]
    /\ rotator \in [Rotators -> Rotator]
    /\ tick \in Ticks
    /\ snapshot \subseteq Key
    /\ blind \in BOOLEAN
    /\ highest \in [User -> Epochs \cup {NoRow}]
    /\ faults \in 0..MaxFaults
    /\ relay \subseteq Wrap /\ told \subseteq Wrap /\ queue \subseteq Wrap
    /\ req \subseteq Key
    /\ service \in Service
    /\ seen \subseteq Wrap \cup Rumor
    /\ unwraps \in 0..GlobalCap
    /\ hits \in [Sender -> 0..SenderCap]
    /\ received \subseteq Slate
    /\ fate \in [Wrap -> Fate]
    /\ missed \subseteq told

\* "an incoming payment is never silently lost on a hiccup" (ingest.rs,
\* IngestOutcome::Failed): a payment whose wrap is marked, which this process
\* never opens again, is in the wallet or was refused for good.
MarkedIsSettled ==
    \A w \in Wrap \cap seen : Content[w].shape = "payment" =>
        \/ Content[w].slate \in received \cup Unsound
        \/ fate[w] = "unwatched"

\* The endpub an admin is shown for a user is among those to watch whenever no
\* rotation of that user is between its two statements, or broke off there,
\* however many requests rotate the user at once (endpub.rs, rotate).
Rotated(u) == \A r \in Rotators : rotator[r].at = "assign" => rotator[r].user # u
ShownIsWatched ==
    \A u \in User, e \in Epochs :
        (CurrentEndpub(u, e) /\ Rotated(u) /\ faults = 0) => <<u, e>> \in WatchSet

\* "a payment to a just-rotated endpub still lands within the window"
\* (endpub.rs, watched_pubkeys): a wrap is turned away as not ours only if a
\* scan had failed, its invoice is closed, or its endpub is more than Overlap
\* epochs behind the highest the user has had.
Retired(k) ==
    \/ k \in Charge /\ charge[k] = "closed"
    \/ k \in Endpub /\ k[2] < highest[k[1]] - Overlap

JustRotatedLands ==
    [][\A w \in Wrap : (fate[w] # "unwatched" /\ fate'[w] = "unwatched")
         => blind \/ Retired(Content[w].to)]_vars

\* "picked up by exactly one of the two paths, never neither" (service.rs,
\* refresh_subscription): while the service listens, every wrap its
\* subscription covers gets read, however often the subscription changes.  Left
\* out are the wraps that came after the boot's REQ and before the listener.
CoveredIsRead ==
    []<>(Listening => \A w \in Matching(req) : fate[w] # "unread" \/ w \in missed)

\* A key "created after boot is subscribed and back-filled without a restart"
\* (service.rs, run): whatever re-subscription failed, the subscription catches
\* up with the tables again and again.  Left out is the one failure the code
\* does not repair: a boot without a subscription, until the watch set changes.
SubscriptionFollows ==
    []<>(Listening => \/ WatchSet \subseteq req
                      \/ req = {} /\ Watched = service.last)

=============================================================================
