---------------------------- MODULE InboxProofs ----------------------------
(***************************************************************************)
(* Proofs about the key directory and the Nostr inbox, for any number of   *)
(* users, invoices, requests, wraps and faults: types, that a marked       *)
(* payment is settled, that a shown endpub is watched, and that a wrap is  *)
(* turned away as not ours only when its key was let go.                   *)
(***************************************************************************)
EXTENDS InboxProperties, TLAPS

USE DEF handled

\* The two halves of TypeOK: what the directory writes, and the rest.
DirectoryTypes ==
    /\ epoch \in [User -> Epochs \cup {NoRow}]
    /\ assigned \in [User -> SUBSET Epochs]
    /\ charge \in [Charge -> {"absent", "open", "closed"}]
    /\ rotator \in [Rotators -> Rotator]
    /\ tick \in Ticks
    /\ snapshot \subseteq Key
    /\ blind \in BOOLEAN
    /\ highest \in [User -> Epochs \cup {NoRow}]
    /\ faults \in 0..MaxFaults

InboxTypes ==
    /\ relay \subseteq Wrap /\ told \subseteq Wrap /\ queue \subseteq Wrap
    /\ req \subseteq Key
    /\ service \in Service
    /\ seen \subseteq Wrap \cup Rumor
    /\ unwraps \in 0..GlobalCap
    /\ hits \in [Sender -> 0..SenderCap]
    /\ received \subseteq Slate
    /\ fate \in [Wrap -> Fate]
    /\ missed \subseteq told

\* TypeOK is the two halves, in every state and its successor.
LEMMA TypeHalves ==
    /\ TypeOK <=> DirectoryTypes /\ InboxTypes
    /\ TypeOK' <=> DirectoryTypes' /\ InboxTypes'
BY DEF TypeOK, DirectoryTypes, InboxTypes

-----------------------------------------------------------------------------

\* A fault is counted within its bound.
LEMMA FaultCounted ==
    ASSUME DirectoryTypes, NEW kind, Fault(kind)
    PROVE  faults' \in 1..MaxFaults
BY KeyDirectoryAssumption, SMT DEF KeyDirectoryAssumption, DirectoryTypes, Fault

\* What the tables say to watch are keys, now and before a restart.
LEMMA ScansAreKeys ==
    OpenCharges \subseteq Key /\ WatchedEndpubs \subseteq Key
BY DEF OpenCharges, WatchedEndpubs, Key

\* The fields of the maintenance task that its steps write.
LEMMA TickKept ==
    ASSUME tick \in Ticks, NEW due \in SUBSET User, NEW keys \in SUBSET Key
    PROVE  /\ [tick EXCEPT !.due = due] \in Ticks
           /\ [tick EXCEPT !.at = "rotating", !.due = due] \in Ticks
           /\ [tick EXCEPT !.at = "endpubs", !.due = due, !.keys = keys] \in Ticks
           /\ [tick EXCEPT !.at = "endpubs", !.due = due, !.keys = keys,
                           !.blind = TRUE] \in Ticks
           /\ Asleep \in Ticks
BY DEF Ticks, Asleep

\* A rotator that is done.
LEMMA DoneIsRotator ==
    0 \in Epochs /\ Done \in Rotator
BY KeyDirectoryAssumption, SMT DEF KeyDirectoryAssumption, Epochs, Rotator, Done

\* The history of the highest epoch stays a history of epochs.
LEMMA HighestNoted ==
    ASSUME highest \in [User -> Epochs \cup {NoRow}],
           NEW u, NEW e \in Epochs, Note(u, e)
    PROVE  highest' \in [User -> Epochs \cup {NoRow}]
BY DEF Note

\* No statement of the directory's actors, and no boot, breaks its types.
LEMMA DirectoryKeepsTypes ==
    ASSUME DirectoryTypes, DirectoryStep
    PROVE  DirectoryTypes'
<1> USE KeyDirectoryAssumption DEF KeyDirectoryAssumption, NoRow, Rotator
<1>1. CASE \E i \in Charge : OpenCharge(i) \/ CloseCharge(i)
  BY <1>1 DEF OpenCharge, CloseCharge, DirectoryTypes
<1>2. ASSUME NEW r \in Request, NEW u \in User, CreateUser(r, u)
      PROVE  DirectoryTypes'
  BY <1>2, DoneIsRotator, HighestNoted DEF CreateUser, DirectoryTypes, Rotators
<1>3. ASSUME NEW r \in Rotators, NEW u \in User, GetUser(r, u)
      PROVE  rotator' \in [Rotators -> Rotator]
  BY <1>3, SMT DEF GetUser, DirectoryTypes, Epochs
<1>4. ASSUME NEW r \in Request, NEW u \in User, AdminRotates(r, u)
      PROVE  DirectoryTypes'
  BY <1>4, <1>3 DEF AdminRotates, DirectoryTypes, Rotators
<1>5. ASSUME NEW r \in Rotators, Rotation(r)
      PROVE  DirectoryTypes'
  <2>1. rotator[r] \in Rotator /\ rotator[r].next \in Epochs
    BY DEF DirectoryTypes
  <2>2. CASE Advance(r)
    <3>1. rotator' \in [Rotators -> Rotator]
      BY <2>1, <2>2, SMT DEF Advance, DirectoryTypes
    <3>2. epoch' \in [User -> Epochs \cup {NoRow}]
      BY <2>1, <2>2 DEF Advance, DirectoryTypes
    <3>3. highest' \in [User -> Epochs \cup {NoRow}]
      BY <2>1, <2>2, HighestNoted DEF Advance, DirectoryTypes
    <3> QED
      BY <2>2, <3>1, <3>2, <3>3 DEF Advance, DirectoryTypes
  <2>3. CASE Assign(r)
    <3>1. rotator' \in [Rotators -> Rotator]
      BY <2>3, DoneIsRotator DEF Assign, DirectoryTypes
    <3>2. assigned' \in [User -> SUBSET Epochs]
      BY <2>1, <2>3 DEF Assign, DirectoryTypes
    <3> QED
      BY <2>3, <3>1, <3>2 DEF Assign, DirectoryTypes
  <2> QED
    BY <1>5, <2>2, <2>3 DEF Rotation
<1>6. ASSUME NEW r \in Rotators, RotationFails(r)
      PROVE  DirectoryTypes'
  <2>1. faults' \in 0..MaxFaults
    BY <1>6, FaultCounted, SMT DEF RotationFails
  <2>2. rotator' \in [Rotators -> Rotator]
    BY <1>6, DoneIsRotator DEF RotationFails, DirectoryTypes
  <2>3. tick' \in Ticks
    BY <1>6, TickKept DEF RotationFails, DirectoryTypes
  <2> QED
    BY <1>6, <2>1, <2>2, <2>3 DEF RotationFails, DirectoryTypes
<1>7. CASE TickWakes
  <2>1. PICK due \in SUBSET User : tick' = [tick EXCEPT !.at = "rotating", !.due = due]
    BY <1>7 DEF TickWakes
  <2> QED
    BY <1>7, <2>1, TickKept DEF TickWakes, DirectoryTypes
<1>8. ASSUME NEW u \in User, TickRotates(u)
      PROVE  DirectoryTypes'
  BY <1>8, <1>3, SMT DEF TickRotates, DirectoryTypes, Ticks, Rotators
<1>9. CASE ScanCharges \/ ScanChargesFails
  <2>1. faults' \in 0..MaxFaults
    BY <1>9, FaultCounted, SMT DEF ScanCharges, ScanChargesFails, DirectoryTypes
  <2>2. tick' \in Ticks
    <3>1. CASE ScanCharges
      BY <3>1, TickKept, ScansAreKeys DEF ScanCharges, DirectoryTypes
    <3>2. CASE ScanChargesFails
      BY <3>2, TickKept DEF ScanChargesFails, DirectoryTypes
    <3> QED
      BY <1>9, <3>1, <3>2
  <2> QED
    BY <1>9, <2>1, <2>2 DEF ScanCharges, ScanChargesFails, DirectoryTypes
<1>10. CASE ScanEndpubs \/ ScanEndpubsFails
  <2>1. faults' \in 0..MaxFaults
    <3>1. CASE ScanEndpubs
      BY <3>1 DEF ScanEndpubs, DirectoryTypes
    <3>2. CASE ScanEndpubsFails
      BY <3>2, FaultCounted, SMT DEF ScanEndpubsFails
    <3> QED
      BY <1>10, <3>1, <3>2
  <2>2. tick.keys \subseteq Key /\ tick.blind \in BOOLEAN
    BY DEF DirectoryTypes, Ticks
  <2>3. snapshot' \subseteq Key /\ blind' \in BOOLEAN
    BY <1>10, <2>2, ScansAreKeys DEF ScanEndpubs, ScanEndpubsFails, Publishes
  <2>4. tick' \in Ticks
    BY <1>10, TickKept DEF ScanEndpubs, ScanEndpubsFails, Publishes, DirectoryTypes
  <2> QED
    BY <1>10, <2>1, <2>3, <2>4
       DEF ScanEndpubs, ScanEndpubsFails, Publishes, DirectoryTypes
<1> QED
  BY <1>1, <1>2, <1>4, <1>5, <1>6, <1>7, <1>8, <1>9, <1>10
     DEF DirectoryStep, Maintenance, Rotators

-----------------------------------------------------------------------------

\* What a wrap says of itself.
LEMMA LetterTypes ==
    ASSUME NEW w \in Wrap
    PROVE  /\ Content[w].to \in Key
           /\ Content[w].from \in Sender
           /\ Content[w].rumor \in Rumor
           /\ Content[w].slate \in Slate
BY InboxAssumption DEF InboxAssumption, Letter

\* handle_wrap keeps the types of what it writes, whatever it decides.
LEMMA HandlingKeepsTypes ==
    ASSUME DirectoryTypes, InboxTypes, NEW w \in Wrap, HandleWrap(w)
    PROVE  /\ seen' \subseteq Wrap \cup Rumor
           /\ unwraps' \in 0..GlobalCap
           /\ hits' \in [Sender -> 0..SenderCap]
           /\ received' \subseteq Slate
           /\ fate' \in [Wrap -> Fate]
           /\ faults' \in 0..MaxFaults
<1>1. \A f \in Fate : Becomes(w, f) => fate' \in [Wrap -> Fate]
  BY DEF Becomes, InboxTypes
<1>2. /\ "dropped" \in Fate /\ "limited" \in Fate /\ "unwatched" \in Fate
      /\ "received" \in Fate /\ "failed" \in Fate
  BY DEF Fate
<1>3. Admitted(w) => unwraps' \in 0..GlobalCap
  BY InboxAssumption, SMT DEF InboxAssumption, Admitted, InboxTypes
<1>4. Handed(w) => hits' \in [Sender -> 0..SenderCap]
  BY InboxAssumption, LetterTypes, SMT DEF InboxAssumption, Handed, InboxTypes
<1>5. MarkHanded(w) \subseteq Wrap \cup Rumor
  BY LetterTypes DEF MarkHanded, InboxTypes
<1>6. CASE Skip(w) \/ OverCeiling(w)
  BY <1>1, <1>2, <1>6 DEF Skip, OverCeiling, InboxTypes, DirectoryTypes
<1>7. CASE NotOurs(w)
  BY <1>1, <1>2, <1>3, <1>7 DEF NotOurs, InboxTypes, DirectoryTypes
<1>8. CASE Decline(w) \/ OverBudget(w)
  BY <1>1, <1>2, <1>3, <1>8, LetterTypes
     DEF Decline, OverBudget, Addressed, InboxTypes, DirectoryTypes
<1>9. CASE Receive(w) \/ Refuse(w)
  BY <1>1, <1>2, <1>3, <1>4, <1>5, <1>9, LetterTypes
     DEF Receive, Refuse, Handed, Addressed, InboxTypes, DirectoryTypes
<1>10. CASE ReceiveFails(w)
  <2>1. faults' \in 0..MaxFaults
    BY <1>10, FaultCounted, SMT DEF ReceiveFails
  <2>2. received' \subseteq Slate
    BY <1>10, LetterTypes DEF ReceiveFails, InboxTypes
  <2> QED
    BY <1>1, <1>2, <1>3, <1>4, <1>10, <2>1, <2>2
       DEF ReceiveFails, AfterFailure, Handed, Addressed, InboxTypes
<1> QED
  BY <1>6, <1>7, <1>8, <1>9, <1>10 DEF HandleWrap

\* What the service reads of the directory and of the relays.
LEMMA ReadsAreTyped ==
    ASSUME DirectoryTypes, InboxTypes
    PROVE  /\ Watched \subseteq Key
           /\ \A K : Matching(K) \subseteq Wrap
BY DEF Watched, Key, Matching, DirectoryTypes, InboxTypes

\* The fields of the service that its steps write.
LEMMA ServiceKept ==
    ASSUME service \in Service, NEW K \in SUBSET Key, NEW B \in SUBSET Wrap
    PROVE  /\ [service EXCEPT !.at = "catchup", !.last = K, !.batch = B] \in Service
           /\ [service EXCEPT !.at = "catchup", !.last = K] \in Service
           /\ [service EXCEPT !.at = "subscribed"] \in Service
           /\ [service EXCEPT !.at = "loop"] \in Service
           /\ [service EXCEPT !.batch = B] \in Service
           /\ [service EXCEPT !.last = K] \in Service
           /\ [service EXCEPT !.at = "resubscribed", !.current = K] \in Service
           /\ [service EXCEPT !.at = "backfill", !.batch = B] \in Service
           /\ service.last \in SUBSET Key /\ service.batch \in SUBSET Wrap
           /\ Refreshed \in Service
           /\ Booting \in Service
<1>1. /\ service.last \in SUBSET Key /\ service.batch \in SUBSET Wrap
      /\ service.current \in SUBSET Key
  BY DEF Service
<1>2. /\ [service EXCEPT !.at = "catchup", !.last = K, !.batch = B] \in Service
      /\ [service EXCEPT !.at = "catchup", !.last = K] \in Service
      /\ [service EXCEPT !.at = "subscribed"] \in Service
      /\ [service EXCEPT !.at = "loop"] \in Service
      /\ [service EXCEPT !.batch = B] \in Service
  BY DEF Service
<1>3. /\ [service EXCEPT !.last = K] \in Service
      /\ [service EXCEPT !.at = "resubscribed", !.current = K] \in Service
      /\ [service EXCEPT !.at = "backfill", !.batch = B] \in Service
  BY DEF Service
<1>4. Refreshed \in Service
  BY <1>1 DEF Service, Refreshed
<1>5. Booting \in Service
  BY DEF Service, Booting
<1> QED
  BY <1>1, <1>2, <1>3, <1>4, <1>5

\* What is told was fetched from the relays.
LEMMA TellingKeepsTypes ==
    ASSUME InboxTypes, NEW W \in SUBSET Wrap, Tell(W)
    PROVE  told \subseteq told' /\ told' \subseteq Wrap /\ queue' \subseteq Wrap
BY DEF Tell, InboxTypes

\* No step of the service, of a payer or of a relay breaks the types.
LEMMA InboxKeepsTypes ==
    ASSUME DirectoryTypes, InboxTypes,
           \/ \E w \in Wrap : Publish(w) \/ Arrive(w)
           \/ ServiceStep
           \/ CatchUpFails \/ SubscribeFails \/ ResubscribeFails \/ BackfillFails
    PROVE  DirectoryTypes' /\ InboxTypes'
<1>1. (UNCHANGED keyVars /\ faults' \in 0..MaxFaults) => DirectoryTypes'
  BY DEF keyVars, DirectoryTypes
<1>2. \A kind : Fault(kind) => faults' \in 0..MaxFaults
  BY FaultCounted, SMT
<1>3. faults \in 0..MaxFaults
  BY DEF DirectoryTypes
<1>4. ASSUME NEW w \in Wrap, Publish(w)
      PROVE  DirectoryTypes' /\ InboxTypes'
  BY <1>1, <1>3, <1>4 DEF Publish, InboxTypes
<1>5. ASSUME NEW w \in Wrap, Arrive(w)
      PROVE  DirectoryTypes' /\ InboxTypes'
  BY <1>1, <1>3, <1>5, TellingKeepsTypes DEF Arrive, Tell, InboxTypes
<1>6. CASE CatchUp \/ CatchUpFails
  <2>1. CASE CatchUp
    <3>1. Watched \in SUBSET Key /\ Matching(Watched) \in SUBSET Wrap
      BY ReadsAreTyped
    <3>2. service' \in Service
      BY <2>1, <3>1, ServiceKept DEF CatchUp, InboxTypes
    <3>3. told \subseteq told' /\ told' \subseteq Wrap /\ queue' \subseteq Wrap
      BY <2>1, <3>1, TellingKeepsTypes DEF CatchUp
    <3> QED
      BY <1>1, <1>3, <2>1, <3>2, <3>3 DEF CatchUp, InboxTypes
  <2>2. CASE CatchUpFails
    <3>1. service' \in Service
      BY <2>2, ReadsAreTyped, ServiceKept DEF CatchUpFails, InboxTypes
    <3> QED
      BY <1>1, <1>2, <2>2, <3>1 DEF CatchUpFails, InboxTypes
  <2> QED
    BY <1>6, <2>1, <2>2
<1>7. ASSUME NEW w \in Wrap, HandleFetched(w) \/ HandleNotified(w)
      PROVE  DirectoryTypes' /\ InboxTypes'
  <2>1. HandleWrap(w) /\ UNCHANGED <<keyVars, relay, told, req, missed>>
    BY <1>7 DEF HandleFetched, HandleNotified
  <2>2. queue' \subseteq Wrap /\ service' \in Service
    BY <1>7, ServiceKept DEF HandleFetched, HandleNotified, InboxTypes
  <2> QED
    BY <1>1, <2>1, <2>2, HandlingKeepsTypes DEF InboxTypes
<1>8. CASE Subscribe \/ SubscribeFails \/ Listen
  <2>1. service' \in Service /\ req' \subseteq Key
    BY <1>8, ServiceKept DEF Subscribe, SubscribeFails, Listen, Goto, InboxTypes
  <2> QED
    BY <1>1, <1>2, <1>3, <1>8, <2>1 DEF Subscribe, SubscribeFails, Listen, InboxTypes
<1>9. CASE Resubscribe \/ ResubscribeFails
  <2>1. service' \in Service /\ req' \subseteq Key
    BY <1>9, ReadsAreTyped, ServiceKept
       DEF Resubscribe, ResubscribeFails, inboxVars, InboxTypes
  <2> QED
    BY <1>1, <1>2, <1>3, <1>9, <2>1
       DEF Resubscribe, ResubscribeFails, inboxVars, InboxTypes
<1>10. CASE Backfill
  <2>1. Matching(Added) \in SUBSET Wrap
    BY ReadsAreTyped
  <2>2. service' \in Service
    BY <1>10, <2>1, ServiceKept DEF Backfill, InboxTypes
  <2>3. told \subseteq told' /\ told' \subseteq Wrap /\ queue' \subseteq Wrap
    BY <1>10, <2>1, TellingKeepsTypes DEF Backfill
  <2> QED
    BY <1>1, <1>3, <1>10, <2>2, <2>3 DEF Backfill, InboxTypes
<1>11. CASE BackfillFails \/ BackfillDone
  <2>1. service' \in Service
    BY <1>11, ServiceKept DEF BackfillFails, BackfillDone, InboxTypes
  <2> QED
    BY <1>1, <1>2, <1>3, <1>11, <2>1 DEF BackfillFails, BackfillDone, InboxTypes
<1> QED
  BY <1>4, <1>5, <1>6, <1>7, <1>8, <1>9, <1>10, <1>11 DEF ServiceStep

\* A boot starts from well-formed memory.
LEMMA RestartKeepsTypes ==
    ASSUME DirectoryTypes, InboxTypes, Restart
    PROVE  DirectoryTypes' /\ InboxTypes'
<1>1. faults' \in 0..MaxFaults
  BY FaultCounted, SMT DEF Restart
<1>2. DirectoryTypes'
  BY <1>1, DoneIsRotator, TickKept, ScansAreKeys
     DEF Restart, RestartDirectory, DirectoryTypes
<1>3. service' \in Service
  BY ServiceKept DEF Restart, InboxTypes
<1>4. 0 \in 0..GlobalCap /\ 0 \in 0..SenderCap /\ "unread" \in Fate
  BY InboxAssumption, SMT DEF InboxAssumption, Fate
<1> QED
  BY <1>2, <1>3, <1>4 DEF Restart, InboxTypes

\* The tables, the two tasks and the service's memory stay well formed.
THEOREM InboxTypeCorrect == Spec => []TypeOK
<1>1. Init => TypeOK
  <2> SUFFICES ASSUME Init
               PROVE  DirectoryTypes /\ InboxTypes
    BY TypeHalves
  <2>1. /\ 0 \in 0..GlobalCap /\ 0 \in 0..SenderCap /\ 0 \in 0..MaxFaults
        /\ "unread" \in Fate
    BY KeyDirectoryAssumption, InboxAssumption, SMT
       DEF KeyDirectoryAssumption, InboxAssumption, Fate
  <2>2. Asleep \in Ticks /\ Booting \in Service
    BY SMT DEF Ticks, Asleep, Service, Booting
  <2>3. DirectoryTypes
    BY <2>1, <2>2, DoneIsRotator DEF Init, InitDirectory, DirectoryTypes
  <2> QED
    BY <2>1, <2>2, <2>3 DEF Init, InboxTypes
<1>2. TypeOK /\ [Next]_vars => TypeOK'
  <2> SUFFICES ASSUME DirectoryTypes, InboxTypes, [Next]_vars
               PROVE  DirectoryTypes' /\ InboxTypes'
    BY TypeHalves
  <2>1. CASE DirectoryStep /\ UNCHANGED inboxVars
    BY <2>1, DirectoryKeepsTypes DEF inboxVars, InboxTypes
  <2>2. CASE UNCHANGED vars
    BY <2>2 DEF vars, keyVars, inboxVars, DirectoryTypes, InboxTypes
  <2>3. CASE Restart
    BY <2>3, RestartKeepsTypes
  <2> QED
    BY <2>1, <2>2, <2>3, InboxKeepsTypes DEF Next
<1> QED
  BY <1>1, <1>2, PTL DEF Spec

-----------------------------------------------------------------------------

\* What MarkedIsSettled rests on: a rumor is marked only with a verdict on its
\* slate, so a wrap declined for its marked rumor is settled as well.
RumorSettled ==
    \A w \in Wrap : (Content[w].rumor \in seen /\ Content[w].shape = "payment")
                      => Content[w].slate \in received \cup Unsound

Settled == MarkedIsSettled /\ RumorSettled

\* Only handle_wrap and a restart touch the marks and the verdicts.
LEMMA SettledStays ==
    ASSUME Settled, UNCHANGED <<seen, received, fate>>
    PROVE  Settled'
BY DEF Settled, MarkedIsSettled, RumorSettled

\* Each decision of handle_wrap marks what is settled and nothing else.
LEMMA HandlingSettles ==
    ASSUME InboxTypes, Settled, NEW w \in Wrap, HandleWrap(w)
    PROVE  Settled'
<1>1. /\ \A v \in Wrap : v \notin Rumor
      /\ \A v \in Wrap : Content[v].rumor = Content[w].rumor =>
            Content[v].slate = Content[w].slate /\ Content[v].shape = Content[w].shape
      /\ \A v \in Wrap : Content[v].rumor \notin Wrap
  BY InboxAssumption, LetterTypes DEF InboxAssumption
<1>2. \A f : Becomes(w, f) =>
         fate'[w] = f /\ \A v \in Wrap \ {w} : fate'[v] = fate[v]
  BY DEF Becomes, InboxTypes
<1>3. CASE Skip(w)
  <2>1. w \in seen => UNCHANGED <<seen, received, fate>>
    BY <1>3 DEF Skip
  <2>2. w \notin seen => Content[w].shape # "payment"
    BY <1>3 DEF Skip, Fresh, Oversized
  <2>3. CASE w \in seen
    BY <2>1, <2>3, SettledStays
  <2>4. CASE w \notin seen
    <3>1. seen' = seen \cup {w} /\ received' = received /\ Becomes(w, "dropped")
      BY <1>3, <2>4 DEF Skip
    <3>2. RumorSettled'
      BY <1>1, <3>1 DEF Settled, RumorSettled
    <3>3. MarkedIsSettled'
      BY <1>2, <2>2, <2>4, <3>1 DEF Settled, MarkedIsSettled
    <3> QED
      BY <3>2, <3>3 DEF Settled
  <2> QED
    BY <2>3, <2>4
<1>4. CASE OverCeiling(w) \/ OverBudget(w) \/ ReceiveFails(w)
  <2>1. /\ w \notin seen /\ UNCHANGED seen /\ received \subseteq received'
        /\ \A v \in Wrap \ {w} : fate'[v] = fate[v]
    BY <1>2, <1>4 DEF OverCeiling, OverBudget, ReceiveFails, AfterFailure, Handed,
                      Addressed, Admitted, Fresh
  <2> QED
    BY <2>1 DEF Settled, MarkedIsSettled, RumorSettled
<1>5. CASE NotOurs(w)
  <2>1. /\ seen' = seen \cup {w} /\ received' = received
        /\ fate'[w] = "unwatched" /\ \A v \in Wrap \ {w} : fate'[v] = fate[v]
    BY <1>2, <1>5 DEF NotOurs
  <2> QED
    BY <1>1, <2>1 DEF Settled, MarkedIsSettled, RumorSettled
<1>6. ASSUME UNCHANGED received \/ received' = received \cup {Content[w].slate},
             seen' \subseteq seen \cup {w, Content[w].rumor},
             \A v \in Wrap \ {w} : fate'[v] = fate[v],
             Content[w].shape = "payment"
                => Content[w].slate \in received' \cup Unsound
      PROVE  Settled'
  <2>1. RumorSettled'
    BY <1>1, <1>6 DEF Settled, RumorSettled
  <2>2. MarkedIsSettled'
    BY <1>1, <1>6 DEF Settled, MarkedIsSettled
  <2> QED
    BY <2>1, <2>2 DEF Settled
<1>7. CASE Decline(w)
  <2>1. /\ seen' \subseteq seen \cup {w, Content[w].rumor} /\ received' = received
        /\ Content[w].shape = "payment" => Content[w].rumor \in seen
        /\ \A v \in Wrap \ {w} : fate'[v] = fate[v]
    BY <1>2, <1>7 DEF Decline, Accepted
  <2>2. Content[w].shape = "payment" => Content[w].slate \in received' \cup Unsound
    BY <2>1 DEF Settled, RumorSettled
  <2> QED
    BY <1>6, <2>1, <2>2
<1>8. CASE Receive(w) \/ Refuse(w)
  <2>1. /\ seen' = seen \cup {w, Content[w].rumor}
        /\ received' = received \/ received' = received \cup {Content[w].slate}
        /\ Content[w].slate \in received' \cup Unsound
        /\ \A v \in Wrap \ {w} : fate'[v] = fate[v]
    BY <1>2, <1>8 DEF Receive, Refuse, MarkHanded
  <2> QED
    BY <1>6, <2>1
<1> QED
  BY <1>3, <1>4, <1>5, <1>7, <1>8 DEF HandleWrap

\* A wrap this process will not open again carries a payment that the wallet has
\* or has refused for good, or was not addressed to a watched key (ingest.rs,
\* IngestOutcome::Failed: "never silently lost on a hiccup").
THEOREM MarksAreSettled == Spec => []MarkedIsSettled
<1>1. Init => Settled
  BY InboxAssumption, LetterTypes
     DEF InboxAssumption, Init, Settled, MarkedIsSettled, RumorSettled
<1>2. TypeOK /\ Settled /\ [Next]_vars => Settled'
  <2> SUFFICES ASSUME TypeOK, Settled, [Next]_vars
               PROVE  Settled'
    OBVIOUS
  <2>1. InboxTypes
    BY TypeHalves
  <2>2. CASE \E w \in Wrap : HandleFetched(w) \/ HandleNotified(w)
    BY <2>1, <2>2, HandlingSettles DEF HandleFetched, HandleNotified
  <2>3. CASE Restart
    BY <2>3 DEF Restart, Settled, MarkedIsSettled, RumorSettled
  <2>4. CASE DirectoryStep /\ UNCHANGED inboxVars
    BY <2>4, SettledStays DEF inboxVars
  <2>5. CASE UNCHANGED vars
    BY <2>5, SettledStays DEF vars, inboxVars
  <2>6. CASE \E w \in Wrap : Publish(w) \/ Arrive(w)
    BY <2>6, SettledStays DEF Publish, Arrive
  <2>7. CASE CatchUp \/ CatchUpFails \/ Subscribe \/ SubscribeFails \/ Listen
    BY <2>7, SettledStays DEF CatchUp, CatchUpFails, Subscribe, SubscribeFails, Listen
  <2>8. CASE \/ Resubscribe \/ ResubscribeFails
             \/ Backfill \/ BackfillFails \/ BackfillDone
    BY <2>8, SettledStays
       DEF Resubscribe, ResubscribeFails, Backfill, BackfillFails, BackfillDone, inboxVars
  <2> QED
    BY <2>2, <2>3, <2>4, <2>5, <2>6, <2>7, <2>8 DEF Next, ServiceStep
<1>3. Settled => MarkedIsSettled
  BY DEF Settled
<1> QED
  BY <1>1, <1>2, <1>3, InboxTypeCorrect, PTL DEF Spec

-----------------------------------------------------------------------------

\* What ShownIsWatched rests on: unless a statement failed, the epoch a user is
\* at has been assigned, or the rotator that wrote it is about to assign it.
Assigning(u) ==
    \E r \in Rotators : /\ rotator[r].at = "assign" /\ rotator[r].user = u
                        /\ rotator[r].next = epoch[u]
CurrentIsAssigned ==
    faults = 0 => \A u \in User :
        epoch[u] # NoRow => epoch[u] \in assigned[u] \/ Assigning(u)

\* Each statement of a rotation, whoever else rotates the same user.
LEMMA DirectoryAssigns ==
    ASSUME DirectoryTypes, CurrentIsAssigned, DirectoryStep
    PROVE  CurrentIsAssigned'
<1>1. (UNCHANGED <<epoch, assigned, rotator>> /\ faults' # 0) => CurrentIsAssigned'
  BY DEF CurrentIsAssigned
<1>2. (UNCHANGED <<epoch, assigned, rotator, faults>>) => CurrentIsAssigned'
  BY DEF CurrentIsAssigned, Assigning
<1>3. \A kind : Fault(kind) => faults' # 0
  BY FaultCounted, SMT
<1>4. CASE \E i \in Charge : OpenCharge(i) \/ CloseCharge(i)
  BY <1>2, <1>4 DEF OpenCharge, CloseCharge
<1>5. ASSUME NEW r \in Request, NEW u \in User, CreateUser(r, u)
      PROVE  CurrentIsAssigned'
  <2> SUFFICES ASSUME faults' = 0, NEW v \in User, epoch'[v] # NoRow
               PROVE  epoch'[v] \in assigned'[v] \/ Assigning(v)'
    BY DEF CurrentIsAssigned
  <2>1. CASE v = u
    BY <1>5, <2>1 DEF CreateUser, Assigning, Rotators, DirectoryTypes
  <2>2. CASE v # u
    <3>1. epoch'[v] = epoch[v] /\ assigned'[v] = assigned[v] /\ faults = 0
      BY <1>5, <2>2 DEF CreateUser
    <3>2. Assigning(v) => Assigning(v)'
      BY <1>5, <3>1 DEF CreateUser, Assigning, DirectoryTypes, Rotators
    <3> QED
      BY <3>1, <3>2 DEF CurrentIsAssigned
  <2> QED
    BY <2>1, <2>2
<1>6. ASSUME NEW r \in Rotators, NEW u \in User, GetUser(r, u),
             UNCHANGED <<epoch, assigned, faults>>
      PROVE  CurrentIsAssigned'
  <2>1. \A v \in User : Assigning(v) => Assigning(v)'
    BY <1>6 DEF GetUser, Assigning, DirectoryTypes
  <2> QED
    BY <1>6, <2>1 DEF CurrentIsAssigned
<1>7. ASSUME NEW r \in Rotators, Advance(r)
      PROVE  CurrentIsAssigned'
  <2> SUFFICES ASSUME faults' = 0, NEW v \in User, epoch'[v] # NoRow
               PROVE  epoch'[v] \in assigned'[v] \/ Assigning(v)'
    BY DEF CurrentIsAssigned
  <2>1. /\ rotator'[r].at = "assign" /\ rotator'[r].user = rotator[r].user
        /\ rotator'[r].next = rotator[r].next
    BY <1>7 DEF Advance, DirectoryTypes, Rotator
  <2>2. CASE v = rotator[r].user
    <3>1. epoch'[v] = rotator[r].next
      BY <1>7, <2>2 DEF Advance, DirectoryTypes
    <3> QED
      BY <2>1, <2>2, <3>1 DEF Assigning
  <2>3. CASE v # rotator[r].user
    <3>1. epoch'[v] = epoch[v] /\ assigned'[v] = assigned[v] /\ faults = 0
      BY <1>7, <2>3 DEF Advance, DirectoryTypes
    <3>2. Assigning(v) => Assigning(v)'
      BY <1>7, <3>1 DEF Advance, Assigning, DirectoryTypes
    <3> QED
      BY <3>1, <3>2 DEF CurrentIsAssigned
  <2> QED
    BY <2>2, <2>3
<1>8. ASSUME NEW r \in Rotators, Assign(r)
      PROVE  CurrentIsAssigned'
  <2> SUFFICES ASSUME faults' = 0, NEW v \in User, epoch'[v] # NoRow
               PROVE  epoch'[v] \in assigned'[v] \/ Assigning(v)'
    BY DEF CurrentIsAssigned
  <2>1. faults = 0 /\ epoch'[v] = epoch[v] /\ assigned[v] \subseteq assigned'[v]
    BY <1>8 DEF Assign, DirectoryTypes
  <2>2. CASE epoch[v] \in assigned[v]
    BY <2>1, <2>2
  <2>3. CASE rotator[r].user = v /\ rotator[r].next = epoch[v]
    BY <1>8, <2>1, <2>3 DEF Assign, DirectoryTypes
  <2>4. CASE ~(rotator[r].user = v /\ rotator[r].next = epoch[v]) /\ Assigning(v)
    BY <1>8, <2>1, <2>4 DEF Assign, Assigning, DirectoryTypes
  <2> QED
    BY <2>1, <2>2, <2>3, <2>4 DEF CurrentIsAssigned
<1>9. CASE \/ \E r \in Rotators : RotationFails(r)
           \/ ScanChargesFails \/ ScanEndpubsFails
  BY <1>3, <1>9 DEF RotationFails, ScanChargesFails, ScanEndpubsFails, CurrentIsAssigned
<1>10. CASE TickWakes \/ ScanCharges \/ ScanEndpubs
  BY <1>2, <1>10 DEF TickWakes, ScanCharges, ScanEndpubs, Publishes
<1>11. CASE \/ \E r \in Request, u \in User : AdminRotates(r, u)
            \/ \E u \in User : TickRotates(u)
  BY <1>6, <1>11 DEF AdminRotates, TickRotates, Rotators
<1> QED
  BY <1>4, <1>5, <1>7, <1>8, <1>9, <1>10, <1>11
     DEF DirectoryStep, Maintenance, Rotation, Rotators

\* The endpub an admin is shown for a user is among those to watch, unless a
\* rotation of that user is between its two statements or broke off there.
THEOREM ShownEndpubsAreWatched == Spec => []ShownIsWatched
<1>1. Init => CurrentIsAssigned
  BY DEF Init, InitDirectory, CurrentIsAssigned
<1>2. TypeOK /\ CurrentIsAssigned /\ [Next]_vars => CurrentIsAssigned'
  <2> SUFFICES ASSUME TypeOK, CurrentIsAssigned, [Next]_vars
               PROVE  CurrentIsAssigned'
    OBVIOUS
  <2>1. DirectoryTypes
    BY TypeHalves
  <2>2. \A kind : Fault(kind) => faults' # 0
    BY <2>1, FaultCounted, SMT
  <2>3. CASE DirectoryStep
    BY <2>1, <2>3, DirectoryAssigns
  <2>4. (UNCHANGED keyVars /\ (faults' = faults \/ faults' # 0)) => CurrentIsAssigned'
    BY DEF keyVars, CurrentIsAssigned, Assigning
  <2>5. CASE Restart
    BY <2>2, <2>5 DEF Restart, CurrentIsAssigned
  <2>6. CASE UNCHANGED vars
    BY <2>4, <2>6 DEF vars
  <2>7. CASE \E w \in Wrap : Publish(w) \/ Arrive(w)
    BY <2>4, <2>7 DEF Publish, Arrive
  <2>8. CASE \E w \in Wrap : HandleFetched(w) \/ HandleNotified(w)
    BY <2>2, <2>4, <2>8
       DEF HandleFetched, HandleNotified, HandleWrap, Skip, OverCeiling, NotOurs,
           Decline, OverBudget, Receive, Refuse, ReceiveFails
  <2>9. CASE \/ CatchUp \/ Subscribe \/ Listen \/ Resubscribe \/ Backfill \/ BackfillDone
             \/ CatchUpFails \/ SubscribeFails \/ ResubscribeFails \/ BackfillFails
    BY <2>2, <2>4, <2>9
       DEF CatchUp, Subscribe, Listen, Resubscribe, Backfill, BackfillDone,
           CatchUpFails, SubscribeFails, ResubscribeFails, BackfillFails
  <2> QED
    BY <2>3, <2>5, <2>6, <2>7, <2>8, <2>9 DEF Next, ServiceStep
<1>3. TypeOK /\ CurrentIsAssigned => ShownIsWatched
  <2> SUFFICES ASSUME DirectoryTypes, CurrentIsAssigned, NEW u \in User, NEW e \in Epochs,
                      CurrentEndpub(u, e), Rotated(u), faults = 0
               PROVE  <<u, e>> \in WatchedEndpubs
    BY TypeHalves DEF ShownIsWatched, WatchSet
  <2>1. epoch[u] = NoRow \/ epoch[u] <= e
    BY DEF CurrentIsAssigned, Assigning, Rotated, CurrentEndpub
  <2>2. e >= epoch[u] - Overlap
    BY <2>1, KeyDirectoryAssumption, SMT
       DEF KeyDirectoryAssumption, DirectoryTypes, Epochs, NoRow
  <2> QED
    BY <2>2 DEF WatchedEndpubs, Endpub, CurrentEndpub
<1> QED
  BY <1>1, <1>2, <1>3, InboxTypeCorrect, PTL DEF Spec

-----------------------------------------------------------------------------

\* What JustRotatedLands rests on: every key that the directory, the subscription
\* or a wrap in hand refers to was shown, and is watched or retired unless a scan
\* failed; the round under way will not lose it either.
Held == {Master} \cup snapshot \cup req \cup service.last \cup service.current
           \cup {Content[w].to : w \in queue \cup service.batch}

AssignedKey(k) == k \in Endpub /\ k[2] \in assigned[k[1]]
KeyKept(k) == blind \/ k \in Watched \/ Retired(k)
KeyScanned(k) ==
    (tick.at = "endpubs" /\ ~tick.blind) =>
        k = Master \/ k \in tick.keys \/ AssignedKey(k) \/ Retired(k)

KeysKept ==
    /\ \A k \in Held : Shown(k) /\ KeyKept(k) /\ KeyScanned(k)
    /\ \A k \in tick.keys : Shown(k)
    /\ \A u \in User : epoch[u] <= highest[u]

\* What was shown stays shown, what is retired stays retired.
LEMMA DirectoryLasts ==
    ASSUME DirectoryTypes, KeysKept, DirectoryStep
    PROVE  /\ \A k : Shown(k) => Shown(k)'
           /\ \A k : AssignedKey(k) => AssignedKey(k)'
           /\ \A k : Retired(k) => Retired(k)'
           /\ \A u \in User : epoch'[u] <= highest'[u]
<1>1. /\ \A i \in Charge : charge[i] # "absent" => charge'[i] # "absent"
      /\ \A i \in Charge : charge[i] = "closed" => charge'[i] = "closed"
  BY DEF DirectoryStep, OpenCharge, CloseCharge, CreateUser, AdminRotates, Rotation,
         Advance, Assign, RotationFails, Maintenance, TickWakes, TickRotates,
         ScanCharges, ScanEndpubs, ScanChargesFails, ScanEndpubsFails, Publishes,
         DirectoryTypes
<1>2. \A u \in User : assigned[u] \subseteq assigned'[u]
  <2>1. ASSUME NEW r \in Rotators, Assign(r)
        PROVE  \A u \in User : assigned[u] \subseteq assigned'[u]
    BY <2>1 DEF Assign, DirectoryTypes
  <2>2. UNCHANGED assigned \/ \E r \in Rotators : Assign(r)
    BY DEF DirectoryStep, OpenCharge, CloseCharge, CreateUser, AdminRotates, Rotation,
           Advance, RotationFails, Maintenance, TickWakes, TickRotates, ScanCharges,
           ScanEndpubs, ScanChargesFails, ScanEndpubsFails, Publishes, Rotators
  <2> QED
    BY <2>1, <2>2
<1>3. \A u \in User : highest[u] <= highest'[u] /\ epoch'[u] <= highest'[u]
  <2>1. \A u \in User : epoch[u] \in Int /\ highest[u] \in Int /\ epoch[u] <= highest[u]
    <3>1. Epochs \cup {NoRow} \subseteq Int
      BY SMT DEF Epochs, NoRow
    <3> QED
      BY <3>1 DEF DirectoryTypes, KeysKept
  <2>2. ASSUME NEW r, NEW u \in User, CreateUser(r, u)
        PROVE  \A v \in User : highest[v] <= highest'[v] /\ epoch'[v] <= highest'[v]
    BY <2>1, <2>2, SMT DEF CreateUser, Note, DirectoryTypes
  <2>3. ASSUME NEW r \in Rotators, Advance(r)
        PROVE  \A v \in User : highest[v] <= highest'[v] /\ epoch'[v] <= highest'[v]
    <3>1. rotator[r].next \in Int
      BY SMT DEF DirectoryTypes, Rotator, Epochs
    <3> QED
      BY <2>1, <2>3, <3>1, SMT DEF Advance, Note, DirectoryTypes
  <2>4. UNCHANGED <<epoch, highest>>
          => \A v \in User : highest[v] <= highest'[v] /\ epoch'[v] <= highest'[v]
    BY <2>1, SMT
  <2> QED
    BY <2>2, <2>3, <2>4
       DEF DirectoryStep, OpenCharge, CloseCharge, AdminRotates, Rotation, Assign,
           RotationFails, Maintenance, TickWakes, TickRotates, ScanCharges,
           ScanEndpubs, ScanChargesFails, ScanEndpubsFails, Publishes, Rotators
<1>4. \A k : AssignedKey(k) => AssignedKey(k)'
  BY <1>2 DEF AssignedKey, Endpub
<1>5. \A k : Shown(k) => Shown(k)'
  BY <1>1, <1>2 DEF Shown, Endpub
<1>6. ASSUME NEW k, Retired(k)
      PROVE  Retired(k)'
  <2>1. CASE k \in Charge /\ charge[k] = "closed"
    BY <1>1, <2>1 DEF Retired
  <2>2. CASE k \in Endpub /\ k[2] < highest[k[1]] - Overlap
    <3>1. k[1] \in User /\ k[2] \in Int
      BY <2>2, SMT DEF Endpub, Epochs
    <3>2. highest[k[1]] \in Int /\ highest'[k[1]] \in Int
      BY <3>1, DirectoryKeepsTypes, SMT DEF DirectoryTypes, Epochs, NoRow
    <3>3. k[2] < highest'[k[1]] - Overlap
      BY <1>3, <2>2, <3>1, <3>2, KeyDirectoryAssumption, SMT DEF KeyDirectoryAssumption
    <3> QED
      BY <2>2, <3>3 DEF Retired
  <2> QED
    BY <1>6, <2>1, <2>2 DEF Retired
<1> QED
  BY <1>3, <1>4, <1>5, <1>6

\* A step of the directory: a new snapshot holds what the last one held, but for
\* what was retired and what a failed scan lost.
LEMMA DirectoryKeepsKeys ==
    ASSUME DirectoryTypes, KeysKept, DirectoryStep, UNCHANGED inboxVars
    PROVE  KeysKept'
<1>1. ASSUME UNCHANGED <<snapshot, blind>>, tick'.keys = tick.keys,
             tick'.blind = tick.blind, tick'.at = "endpubs" => tick.at = "endpubs"
      PROVE  KeysKept'
  <2>1. Held' = Held
    BY <1>1 DEF Held, inboxVars
  <2> QED
    BY <1>1, <2>1, DirectoryLasts DEF KeysKept, KeyKept, KeyScanned, Watched
<1>2. CASE ScanCharges \/ ScanChargesFails
  <2>1. Held' = Held /\ UNCHANGED <<snapshot, blind, charge, assigned, highest>>
    BY <1>2 DEF ScanCharges, ScanChargesFails, Held, inboxVars
  <2>2. /\ tick'.keys \subseteq OpenCharges
        /\ tick'.blind \/ tick'.keys = OpenCharges
    BY <1>2 DEF ScanCharges, ScanChargesFails, DirectoryTypes, Ticks
  <2>3. \A k \in OpenCharges : Shown(k)
    BY DEF OpenCharges, Shown
  <2>4. ASSUME NEW k \in Held, ~tick'.blind
        PROVE  k = Master \/ k \in tick'.keys \/ AssignedKey(k) \/ Retired(k)
    <3>1. Shown(k)
      BY DEF KeysKept
    <3>2. ASSUME k \in Charge, charge[k] # "absent"
          PROVE  k \in OpenCharges \/ Retired(k)
      BY <3>2 DEF OpenCharges, Retired, DirectoryTypes
    <3> QED
      BY <2>2, <2>4, <3>1, <3>2 DEF Shown, AssignedKey
  <2>5. \A k \in Held' : KeyScanned(k)'
    BY <2>1, <2>4, DirectoryLasts DEF KeyScanned
  <2>6. \A k \in Held' : Shown(k)' /\ KeyKept(k)'
    BY <2>1, DirectoryLasts DEF KeysKept, KeyKept, Watched
  <2> QED
    BY <2>2, <2>3, <2>5, <2>6, DirectoryLasts DEF KeysKept
<1>3. CASE ScanEndpubs \/ ScanEndpubsFails
  <2>1. /\ tick.at = "endpubs" /\ tick' = Asleep
        /\ UNCHANGED <<epoch, assigned, charge, highest>>
        /\ tick.keys \subseteq snapshot'
        /\ snapshot' \subseteq tick.keys \cup WatchedEndpubs
        /\ blind' \/ (~tick.blind /\ WatchedEndpubs \subseteq snapshot')
    BY <1>3 DEF ScanEndpubs, ScanEndpubsFails, Publishes
  <2>2. \A k \in WatchedEndpubs : Shown(k)
    BY DEF WatchedEndpubs, Shown
  <2>3. \A k \in snapshot' : Shown(k)
    BY <2>1, <2>2 DEF KeysKept
  <2>4. \A k \in Held' : k \in Held \/ k \in snapshot'
    BY DEF Held, inboxVars
  <2>5. \A k \in Held' : Shown(k)'
    BY <2>3, <2>4, DirectoryLasts DEF KeysKept
  <2>6. ASSUME NEW k \in Held, ~blind'
        PROVE  k \in Watched' \/ Retired(k)
    <3>1. k = Master \/ k \in tick.keys \/ AssignedKey(k) \/ Retired(k)
      BY <2>1, <2>6 DEF KeysKept, KeyScanned
    <3>2. ASSUME AssignedKey(k), ~Retired(k)
          PROVE  k \in WatchedEndpubs
      <4>1. k \in Endpub /\ k[1] \in User /\ k[2] \in Int
        BY <3>2, SMT DEF AssignedKey, Endpub, Epochs
      <4>2. epoch[k[1]] \in Int /\ highest[k[1]] \in Int /\ epoch[k[1]] <= highest[k[1]]
        BY <4>1, SMT DEF DirectoryTypes, Epochs, NoRow, KeysKept
      <4>3. ~(k[2] < highest[k[1]] - Overlap)
        BY <3>2, <4>1 DEF Retired
      <4>4. k[2] >= epoch[k[1]] - Overlap
        BY <4>1, <4>2, <4>3, KeyDirectoryAssumption, SMT DEF KeyDirectoryAssumption
      <4> QED
        BY <3>2, <4>1, <4>4 DEF WatchedEndpubs, AssignedKey
    <3> QED
      BY <2>1, <2>6, <3>1, <3>2 DEF Watched
  <2>7. \A k \in Held' : KeyKept(k)'
    BY <2>4, <2>6, DirectoryLasts DEF KeyKept, Watched
  <2>8. tick'.at # "endpubs" /\ tick'.keys = {}
    BY <2>1 DEF Asleep
  <2> QED
    BY <2>5, <2>7, <2>8, DirectoryLasts DEF KeysKept, KeyScanned
<1>4. CASE TickWakes \/ \E u \in User : TickRotates(u)
  BY <1>1, <1>4 DEF TickWakes, TickRotates, DirectoryTypes, Ticks
<1>5. CASE \E r \in Rotators : RotationFails(r)
  BY <1>1, <1>5 DEF RotationFails, DirectoryTypes, Ticks
<1>6. CASE \/ \E i \in Charge : OpenCharge(i) \/ CloseCharge(i)
           \/ \E r \in Request, u \in User : CreateUser(r, u) \/ AdminRotates(r, u)
           \/ \E r \in Rotators : Rotation(r)
  BY <1>1, <1>6 DEF OpenCharge, CloseCharge, CreateUser, AdminRotates, Rotation,
                    Advance, Assign
<1> QED
  BY <1>2, <1>3, <1>4, <1>5, <1>6 DEF DirectoryStep, Maintenance, Rotators

\* A step of the service, of a payer or of a relay refers to no new key.
LEMMA InboxHoldsNoMore ==
    ASSUME InboxTypes,
           \/ \E w \in Wrap : Publish(w) \/ Arrive(w)
           \/ ServiceStep
           \/ CatchUpFails \/ SubscribeFails \/ ResubscribeFails \/ BackfillFails
    PROVE  UNCHANGED keyVars /\ Held' \subseteq Held
<1>1. UNCHANGED keyVars
  BY DEF Publish, Arrive, ServiceStep, CatchUp, Subscribe, Listen, HandleFetched,
         HandleNotified, Resubscribe, Backfill, BackfillDone, CatchUpFails,
         SubscribeFails, ResubscribeFails, BackfillFails
<1>2. snapshot' = snapshot
  BY <1>1 DEF keyVars
<1>3. ASSUME /\ req' \subseteq Held
             /\ service'.last \subseteq Held
             /\ service'.current \subseteq Held
             /\ \A w \in queue' \cup service'.batch : Content[w].to \in Held
      PROVE  Held' \subseteq Held
  BY <1>2, <1>3 DEF Held
<1>4. /\ Watched \subseteq Held /\ req \subseteq Held
      /\ service.last \subseteq Held /\ service.current \subseteq Held
      /\ \A w \in queue \cup service.batch : Content[w].to \in Held
  BY DEF Held, Watched
<1>5. \A K : K \subseteq Held => \A w \in Matching(K) : Content[w].to \in Held
  BY DEF Matching
<1>6. \A W : Tell(W) => queue' \subseteq queue \cup W
  BY DEF Tell
<1>7. CASE \E w \in Wrap : Publish(w) \/ Arrive(w)
  BY <1>1, <1>3, <1>4, <1>5, <1>6, <1>7 DEF Publish, Arrive
<1>8. CASE CatchUp \/ CatchUpFails
  <2>1. /\ req' = req /\ service'.last = Watched /\ service'.current = service.current
        /\ service'.batch \subseteq service.batch \cup Matching(Watched)
    BY <1>8 DEF CatchUp, CatchUpFails, InboxTypes, Service
  <2>2. queue' \subseteq queue \cup Matching(Watched)
    BY <1>6, <1>8 DEF CatchUp, CatchUpFails
  <2> QED
    BY <1>1, <1>3, <1>4, <1>5, <2>1, <2>2
<1>9. CASE \E w \in Wrap : HandleFetched(w) \/ HandleNotified(w)
  <2>1. /\ req' = req /\ queue' \subseteq queue /\ service'.batch \subseteq service.batch
        /\ service'.last = service.last /\ service'.current = service.current
    BY <1>9 DEF HandleFetched, HandleNotified, InboxTypes, Service
  <2> QED
    BY <1>1, <1>3, <1>4, <2>1
<1>10. CASE Subscribe \/ SubscribeFails \/ Listen
  <2>1. /\ req' \subseteq req \cup service.last /\ queue' = queue
        /\ service'.batch = service.batch
        /\ service'.last = service.last /\ service'.current = service.current
    BY <1>10 DEF Subscribe, SubscribeFails, Listen, Goto, InboxTypes, Service
  <2> QED
    BY <1>1, <1>3, <1>4, <2>1
<1>11. CASE Resubscribe \/ ResubscribeFails
  <2>1. /\ req' \subseteq req \cup Watched /\ queue' = queue
        /\ service'.batch = service.batch
        /\ service'.last \subseteq service.last \cup Watched
        /\ service'.current \subseteq service.current \cup Watched
    BY <1>11 DEF Resubscribe, ResubscribeFails, inboxVars, InboxTypes, Service
  <2> QED
    BY <1>1, <1>3, <1>4, <2>1
<1>12. CASE Backfill
  <2>1. /\ req' = req /\ service'.batch = Matching(Added)
        /\ service'.last = service.last /\ service'.current = service.current
    BY <1>12 DEF Backfill, InboxTypes, Service
  <2>2. queue' \subseteq queue \cup Matching(Added) /\ Added \subseteq Held
    BY <1>4, <1>6, <1>12 DEF Backfill, Added
  <2> QED
    BY <1>1, <1>3, <1>4, <1>5, <2>1, <2>2
<1>13. CASE BackfillFails \/ BackfillDone
  <2>1. /\ req' = req /\ queue' = queue /\ service'.batch = {}
        /\ service'.last = service.current /\ service'.current = {}
    BY <1>13 DEF BackfillFails, BackfillDone, Refreshed, InboxTypes, Service
  <2> QED
    BY <1>1, <1>3, <1>4, <2>1
<1> QED
  BY <1>1, <1>7, <1>8, <1>9, <1>10, <1>11, <1>12, <1>13 DEF ServiceStep

\* Every key in use was shown and is watched, retired, or lost to a failed scan.
LEMMA KeysStayKept == Spec => []KeysKept
<1>1. Init => KeysKept
  <2> SUFFICES ASSUME Init PROVE KeysKept
    OBVIOUS
  <2>1. Held = {Master} /\ tick.keys = {} /\ tick.at # "endpubs"
    BY DEF Init, InitDirectory, Held, Booting, Asleep
  <2>2. \A u \in User : epoch[u] <= highest[u]
    <3>1. NoRow <= NoRow
      BY SMT DEF NoRow
    <3> QED
      BY <3>1 DEF Init, InitDirectory
  <2> QED
    BY <2>1, <2>2 DEF KeysKept, Shown, KeyKept, KeyScanned, Watched
<1>2. TypeOK /\ KeysKept /\ [Next]_vars => KeysKept'
  <2> SUFFICES ASSUME DirectoryTypes, InboxTypes, KeysKept, [Next]_vars
               PROVE  KeysKept'
    BY TypeHalves
  <2>1. CASE DirectoryStep /\ UNCHANGED inboxVars
    BY <2>1, DirectoryKeepsKeys
  <2>2. (UNCHANGED keyVars /\ Held' \subseteq Held) => KeysKept'
    BY DEF keyVars, KeysKept, Shown, KeyKept, KeyScanned, AssignedKey, Watched, Retired
  <2>3. CASE Restart
    <3>1. /\ Held' = {Master} \cup OpenCharges \cup WatchedEndpubs /\ Held' = Watched'
          /\ tick'.keys = {} /\ tick'.at # "endpubs"
          /\ UNCHANGED <<epoch, assigned, charge, highest>>
      BY <2>3 DEF Restart, RestartDirectory, Held, Booting, Asleep, Watched
    <3>2. \A k \in {Master} \cup OpenCharges \cup WatchedEndpubs : Shown(k)
      BY DEF Shown, OpenCharges, WatchedEndpubs
    <3> QED
      BY <3>1, <3>2 DEF KeysKept, Shown, KeyKept, KeyScanned
  <2>4. CASE UNCHANGED vars
    BY <2>2, <2>4 DEF vars, inboxVars, keyVars, Held
  <2> QED
    BY <2>1, <2>2, <2>3, <2>4, InboxHoldsNoMore DEF Next
<1> QED
  BY <1>1, <1>2, InboxTypeCorrect, PTL DEF Spec

\* A payment is turned away as not ours only after a failed scan, for a closed
\* invoice, or for an endpub out of the overlap (endpub.rs, watched_pubkeys: "a
\* payment to a just-rotated endpub still lands within the window").
THEOREM RotatedKeysLand == Spec => JustRotatedLands
<1>1. ASSUME InboxTypes, KeysKept, [Next]_vars,
             NEW w \in Wrap, fate[w] # "unwatched", fate'[w] = "unwatched"
      PROVE  blind \/ Retired(Content[w].to)
  <2>1. \A v, f : (Becomes(v, f) /\ f # "unwatched") => fate'[w] # "unwatched"
    BY <1>1 DEF Becomes, InboxTypes
  <2>2. \A v : HandleWrap(v) => NotOurs(v)
    BY <1>1, <2>1 DEF HandleWrap, Skip, OverCeiling, Decline, OverBudget, Receive,
                      Refuse, ReceiveFails
  <2>3. \E v \in Wrap : HandleFetched(v) \/ HandleNotified(v)
    BY <1>1 DEF Next, ServiceStep, CatchUp, Subscribe, Listen, Resubscribe, Backfill,
                BackfillDone, CatchUpFails, SubscribeFails, ResubscribeFails,
                BackfillFails, Publish, Arrive, Restart, vars, inboxVars
  <2>4. PICK v \in queue \cup service.batch : NotOurs(v)
    BY <2>2, <2>3 DEF HandleFetched, HandleNotified
  <2>5. v = w
    BY <1>1, <2>4 DEF NotOurs, Becomes, InboxTypes
  <2>6. Content[w].to \in Held /\ Content[w].to \notin Watched
    BY <2>4, <2>5 DEF NotOurs, Held
  <2> QED
    BY <1>1, <2>6 DEF KeysKept, KeyKept
<1>2. TypeOK /\ KeysKept /\ [Next]_vars =>
        [\A w \in Wrap : (fate[w] # "unwatched" /\ fate'[w] = "unwatched")
            => blind \/ Retired(Content[w].to)]_vars
  BY <1>1, TypeHalves
<1> QED
  BY <1>2, InboxTypeCorrect, KeysStayKept, PTL DEF Spec, JustRotatedLands

=============================================================================
