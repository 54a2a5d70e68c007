------------------------------- MODULE Inbox -------------------------------
(***************************************************************************)
(* The Nostr service: gift wraps reach it through a catch-up fetch and a   *)
(* live subscription, both filtered by the keys the directory watches, and *)
(* go one at a time through Ingest::handle_wrap.  What the service has     *)
(* read, counted and subscribed to is in memory only.                      *)
(*                                                                         *)
(* Relays and the relay pool are external: a relay keeps what was          *)
(* published to it and sends a subscriber what its filter matches, old or  *)
(* new; the pool notifies each event once in the life of the process.      *)
(* The replies that follow a receive are in Settlement.                    *)
(***************************************************************************)
EXTENDS KeyDirectory

CONSTANTS
    Wrap,        \* gift wraps payers may publish
    Sender, Rumor, Slate,
    Content,     \* what each wrap carries
    Unsound,     \* slates the wallet or the amount guard rejects
    SenderCap,   \* RATE_PER_SENDER_PER_HOUR
    GlobalCap    \* GLOBAL_UNWRAP_PER_MIN

Shape == {"payment", "chatter", "unreadable", "oversized"}
Letter == [to : Key, from : Sender, rumor : Rumor, slate : Slate, shape : Shape]

ASSUME InboxAssumption ==
    /\ Content \in [Wrap -> Letter]
    /\ Unsound \subseteq Slate
    /\ Wrap \cap Rumor = {}
    /\ SenderCap \in Nat \ {0} /\ GlobalCap \in Nat \ {0}
    /\ \A v, w \in Wrap : Content[v].rumor = Content[w].rumor =>
          /\ Content[v].slate = Content[w].slate
          /\ Content[v].from = Content[w].from
          /\ Content[v].shape = Content[w].shape

VARIABLES
    relay,      \* wraps the relays hold
    told,       \* wraps the relay pool has seen in this process
    queue,      \* notifications not taken yet; relays may answer in any order
    req,        \* keys of the live subscription
    service,    \* where the service loop is
    seen,       \* Ingest::seen: ids of wraps and rumors
    unwraps,    \* Ingest::rate["\0global"]: decrypts inside the window
    hits,       \* Ingest::rate: messages inside the window, per sender
    received,   \* slates the wallet has taken
    fate,       \* history: what handle_wrap last made of a wrap it had not marked
    missed      \* history: arrived before anybody listened

\* What handle_wrap writes.
handled == <<seen, unwraps, hits, received, fate>>
inboxVars == <<relay, told, queue, req, service, handled, missed>>
vars == <<keyVars, faults, inboxVars>>

Fate == {"unread", "dropped", "unwatched", "limited", "failed", "received"}
Service == [at : {"boot", "catchup", "subscribed", "loop", "resubscribed", "backfill"},
            batch : SUBSET Wrap, current : SUBSET Key, last : SUBSET Key]
Booting == [at |-> "boot", batch |-> {}, current |-> {}, last |-> {}]

\* client.notifications() exists: events that come earlier have no listener.
Listening == service.at \in {"loop", "resubscribed", "backfill"}

Goto(at) == service' = [service EXCEPT !.at = at]

\* Events of the pool reach the service if it listens and they are new.
Tell(W) ==
    /\ told' = told \cup W
    /\ queue' = IF Listening THEN queue \cup (W \ told) ELSE queue

Matching(K) == {w \in relay : Content[w].to \in K}

-----------------------------------------------------------------------------
(* Payers and relays. *)

\* A payer can only address a key it was shown.
Shown(k) ==
    \/ k = Master
    \/ k \in Charge /\ charge[k] # "absent"
    \/ k \in Endpub /\ k[2] \in assigned[k[1]]

Publish(w) ==
    /\ w \notin relay
    /\ Shown(Content[w].to)
    /\ relay' = relay \cup {w}
    /\ UNCHANGED <<keyVars, faults, told, queue, req, service, handled, missed>>

Arrive(w) ==
    /\ w \in Matching(req) \ told
    /\ Tell({w})
    /\ missed' = IF Listening THEN missed ELSE missed \cup {w}
    /\ UNCHANGED <<keyVars, faults, relay, req, service, handled>>

-----------------------------------------------------------------------------
(* Ingest::handle_wrap.  The size cap and the dedupe of wraps come first,  *)
(* then the ceiling on decrypts, and only then is the address resolved.    *)

Becomes(w, f) == fate' = [fate EXCEPT ![w] = f]

Oversized(w) == Content[w].shape = "oversized"
Fresh(w) == ~Oversized(w) /\ w \notin seen

Skip(w) ==
    /\ ~Fresh(w)
    /\ seen' = seen \cup {w}
    /\ IF w \in seen THEN UNCHANGED fate ELSE Becomes(w, "dropped")
    /\ UNCHANGED <<unwraps, hits, received, faults>>

\* Both limiters first forget the hits that have left their window: any may have.
OverCeiling(w) ==
    /\ Fresh(w)
    /\ unwraps >= GlobalCap
    /\ Becomes(w, "limited")
    /\ UNCHANGED <<seen, unwraps, hits, received, faults>>

\* Mutant: one hit too many.
AdmittedLate(w) ==
    /\ Fresh(w)
    /\ \E kept \in 0..unwraps : kept <= GlobalCap /\ unwraps' = kept + 1
Admitted(w) ==
    /\ Fresh(w)
    /\ \E kept \in 0..unwraps : kept < GlobalCap /\ unwraps' = kept + 1

NotOurs(w) ==
    /\ Admitted(w)
    /\ Content[w].to \notin Watched
    /\ seen' = seen \cup {w}
    /\ Becomes(w, "unwatched")
    /\ UNCHANGED <<hits, received, faults>>

Addressed(w) == Admitted(w) /\ Content[w].to \in Watched
Accepted(w) == Content[w].shape = "payment" /\ Content[w].rumor \notin seen

\* A wrap that does not open marks itself alone; decide also marks the rumor.
Decline(w) ==
    /\ Addressed(w) /\ ~Accepted(w)
    /\ seen' = seen \cup (IF Content[w].shape = "unreadable" THEN {w}
                                                             ELSE {w, Content[w].rumor})
    /\ Becomes(w, "dropped")
    /\ UNCHANGED <<hits, received, faults>>

OverBudget(w) ==
    /\ Addressed(w) /\ Accepted(w)
    /\ hits[Content[w].from] >= SenderCap
    /\ Becomes(w, "limited")
    /\ UNCHANGED <<seen, unwraps, hits, received, faults>>

\* receiver.receive: the wallet's verdict on the slate.
Handed(w) ==
    /\ Addressed(w) /\ Accepted(w)
    /\ \E kept \in 0..hits[Content[w].from] :
         kept < SenderCap /\ hits' = [hits EXCEPT ![Content[w].from] = kept + 1]

MarkHanded(w) == seen \cup {w, Content[w].rumor}

Receive(w) ==
    /\ Handed(w)
    /\ Content[w].slate \notin received \cup Unsound
    /\ received' = received \cup {Content[w].slate}
    /\ seen' = MarkHanded(w)
    /\ Becomes(w, "received")
    /\ UNCHANGED faults

\* ReceiveError::Duplicate and ::Rejected.
Refuse(w) ==
    /\ Handed(w)
    /\ Content[w].slate \in received \cup Unsound
    /\ seen' = MarkHanded(w)
    /\ Becomes(w, "dropped")
    /\ UNCHANGED <<received, faults>>

\* Mutant: the wrap is marked before the wallet answers.
AfterAttempt(w) == MarkHanded(w)
\* ReceiveError::Failed leaves the wrap unmarked, though the wallet may have
\* committed the slate by then.
AfterFailure(w) == seen

ReceiveFails(w) ==
    /\ Handed(w)
    /\ Fault("receive")
    /\ received' \in {received, received \cup ({Content[w].slate} \ Unsound)}
    /\ seen' = AfterFailure(w)
    /\ Becomes(w, "failed")

HandleWrap(w) ==
    \/ Skip(w) \/ OverCeiling(w) \/ NotOurs(w) \/ Decline(w) \/ OverBudget(w)
    \/ Receive(w) \/ Refuse(w) \/ ReceiveFails(w)

-----------------------------------------------------------------------------
(* service::run: the boot. *)

\* last_watched is read here, and stands from now on whatever fails below.
CatchUp ==
    /\ service.at = "boot"
    /\ service' = [service EXCEPT !.at = "catchup", !.last = Watched,
                                  !.batch = Matching(Watched)]
    /\ Tell(Matching(Watched))
    /\ UNCHANGED <<keyVars, faults, relay, req, handled, missed>>

CatchUpFails ==
    /\ service.at = "boot"
    /\ Fault("relay")
    /\ service' = [service EXCEPT !.at = "catchup", !.last = Watched]
    /\ UNCHANGED <<keyVars, relay, told, queue, req, handled, missed>>

\* The fetched events, first of the boot and later of a refresh.
HandleFetched(w) ==
    /\ service.at \in {"catchup", "backfill"} /\ w \in service.batch
    /\ HandleWrap(w)
    /\ service' = [service EXCEPT !.batch = @ \ {w}]
    /\ UNCHANGED <<keyVars, relay, told, queue, req, missed>>

Subscribe ==
    /\ service.at = "catchup" /\ service.batch = {}
    /\ req' = service.last
    /\ Goto("subscribed")
    /\ UNCHANGED <<keyVars, faults, relay, told, queue, handled, missed>>

\* Only logged.
SubscribeFails ==
    /\ service.at = "catchup" /\ service.batch = {}
    /\ Fault("relay")
    /\ Goto("subscribed")
    /\ UNCHANGED <<keyVars, relay, told, queue, req, handled, missed>>

Listen ==
    /\ service.at = "subscribed"
    /\ Goto("loop")
    /\ UNCHANGED <<keyVars, faults, relay, told, queue, req, handled, missed>>

-----------------------------------------------------------------------------
(* service::run: the loop, and refresh_subscription. *)

HandleNotified(w) ==
    /\ service.at = "loop" /\ w \in queue
    /\ HandleWrap(w)
    /\ queue' = queue \ {w}
    /\ UNCHANGED <<keyVars, relay, told, req, service, missed>>

\* plan_refresh; the same read serves the new filter and the back-fill.
Changed == service.at = "loop" /\ Watched # service.last
Added == service.current \ service.last

Resubscribe ==
    /\ Changed
    /\ req' = Watched
    /\ service' = IF Watched \subseteq service.last
                  THEN [service EXCEPT !.last = Watched]
                  ELSE [service EXCEPT !.at = "resubscribed", !.current = Watched]
    /\ UNCHANGED <<keyVars, faults, relay, told, queue, handled, missed>>

\* Mutant: last_watched moves on although the subscription did not.
ResubscribeForgets ==
    /\ Changed
    /\ Fault("relay")
    /\ service' = [service EXCEPT !.last = Watched]
    /\ UNCHANGED <<keyVars, relay, told, queue, req, handled, missed>>
\* last_watched stays, so the next refresh tries again.
ResubscribeFails ==
    /\ Changed
    /\ Fault("relay")
    /\ UNCHANGED <<keyVars, inboxVars>>

Refreshed == [service EXCEPT !.at = "loop", !.last = service.current,
                             !.current = {}, !.batch = {}]

Backfill ==
    /\ service.at = "resubscribed"
    /\ service' = [service EXCEPT !.at = "backfill", !.batch = Matching(Added)]
    /\ Tell(Matching(Added))
    /\ UNCHANGED <<keyVars, faults, relay, req, handled, missed>>

BackfillFails ==
    /\ service.at = "resubscribed"
    /\ Fault("relay")
    /\ service' = Refreshed
    /\ UNCHANGED <<keyVars, relay, told, queue, req, handled, missed>>

\* Mutant: the refresh listens anew, and what was queued is gone.
BackfillRelistens ==
    /\ service.at = "backfill" /\ service.batch = {}
    /\ service' = Refreshed
    /\ queue' = {}
    /\ UNCHANGED <<keyVars, faults, relay, told, req, handled, missed>>
BackfillDone ==
    /\ service.at = "backfill" /\ service.batch = {}
    /\ service' = Refreshed
    /\ UNCHANGED <<keyVars, faults, relay, told, queue, req, handled, missed>>

-----------------------------------------------------------------------------

Restart ==
    /\ Fault("crash")
    /\ RestartDirectory
    /\ told' = {} /\ queue' = {} /\ req' = {}
    /\ service' = Booting
    /\ seen' = {}
    /\ unwraps' = 0
    /\ hits' = [p \in Sender |-> 0]
    /\ fate' = [w \in Wrap |-> "unread"]
    /\ missed' = {}
    /\ UNCHANGED <<relay, received>>

Init ==
    /\ InitDirectory
    /\ relay = {} /\ told = {} /\ queue = {} /\ req = {}
    /\ service = Booting
    /\ seen = {}
    /\ unwraps = 0
    /\ hits = [p \in Sender |-> 0]
    /\ received = {}
    /\ fate = [w \in Wrap |-> "unread"]
    /\ missed = {}

ServiceStep ==
    \/ CatchUp \/ Subscribe \/ Listen
    \/ \E w \in Wrap : HandleFetched(w) \/ HandleNotified(w)
    \/ Resubscribe \/ Backfill \/ BackfillDone

Next ==
    \/ DirectoryStep /\ UNCHANGED inboxVars
    \/ \E w \in Wrap : Publish(w) \/ Arrive(w)
    \/ ServiceStep
    \/ CatchUpFails \/ SubscribeFails \/ ResubscribeFails \/ BackfillFails
    \/ Restart

Spec == Init /\ [][Next]_vars

\* Both tasks loop for the life of the process, their awaits have timeouts,
\* and a connected relay sends what a subscription matches.
Fairness ==
    /\ WF_vars(Maintenance /\ UNCHANGED inboxVars)
    /\ WF_vars(ServiceStep)
    /\ WF_vars(\E w \in Wrap : Arrive(w))

FairSpec == Spec /\ Fairness

=============================================================================
