----------------------------- MODULE TillProofs -----------------------------
(***************************************************************************)
(* Proofs about Till, for any number of runs at once.                      *)
(***************************************************************************)
EXTENDS TillProperties, TLAPS

-----------------------------------------------------------------------------
(* The inductive invariant.                                                *)

Length(shape) == CASE shape = "sealed" -> 3 [] shape = "plaintext" -> 5 [] shape = "manual" -> 4

\* What the first operations of a run that nobody disturbed have left.
Done(shape, step) ==
    CASE shape = "sealed" ->
            /\ disk["cred"] = wallet.password
            /\ step > 1 => disk["encrypted"] = "dropin"
            /\ step > 2 => disk["plain"] = NULL
            /\ step > 3 => disk["manual"] = NULL
      [] shape = "plaintext" ->
            /\ step > 2 => disk["plain"] = wallet.password
            /\ step > 3 => disk["cred"] = NULL
            /\ step > 4 => disk["encrypted"] = NULL
            /\ step > 5 => disk["manual"] = NULL
      [] shape = "manual" ->
            /\ step > 1 => disk["manual"] = "dropin"
            /\ step > 2 => disk["plain"] = NULL
            /\ step > 3 => disk["cred"] = NULL
            /\ step > 4 => disk["encrypted"] = NULL

RunOK(w) ==
    /\ wizard[w].at = "opening" =>
        /\ wizard[w].password \in Password
        /\ IF wizard[w].existing THEN wizard[w].words = NULL ELSE wizard[w].words \in Words
    /\ wizard[w].at \in {"sealing", "writing"} =>
        wallet # NoWallet /\ wizard[w].password = wallet.password
    /\ Writing(w) => last = NULL /\ wizard[w].step \in 1..Length(wizard[w].shape) + 1
    /\ wizard[w].alone => Writing(w) /\ \A v \in Wizard \ {w} : ~Writing(v)
    /\ wizard[w].alone => Done(wizard[w].shape, wizard[w].step)

RunsOK == \A w \in Wizard : RunOK(w)

\* Every run that is writing while the promise stands is alone, and unattended.
PromiseOK ==
    promised => /\ wallet # NoWallet
                /\ \A w \in Wizard : Writing(w) => wizard[w].alone /\ wizard[w].shape # "manual"

LastOK == last # NULL => wallet # NoWallet

IdentityOK ==
    /\ identity.key \in Key => wallet # NoWallet /\ identity.password = wallet.password
    /\ advertised # NULL => identity.key = advertised

ServiceOK ==
    /\ service.at = "opening" => service.password \in Password
    /\ (\/ service.at \in {"identifying", "saving"}
        \/ service.at = "opening" /\ service.shape = "sealed") =>
        wallet # NoWallet /\ service.password = wallet.password
    /\ service.at = "saving" => service.key \in Key /\ identity.key \notin Key

TillInv ==
    /\ TypeOK
    /\ RunsOK
    /\ PromiseOK /\ PasswordSurvives
    /\ LastOK /\ OneShape
    /\ IdentityOK
    /\ ServiceOK /\ SealedStarts

-----------------------------------------------------------------------------
(* Constants and records.                                                  *)

LEMMA Distinct ==
    /\ NULL \notin Words /\ NULL \notin Password /\ NULL \notin Key
    /\ TORN \notin Words /\ TORN \notin Password /\ TORN \notin Key
    /\ NULL # TORN
    /\ NULL \notin Shape /\ TORN \notin Shape
    /\ \A s \in {"dropin", "credential", "plaintext", "runtime"} : s # NULL /\ s # TORN
    /\ MaxRuns \in Nat
  BY SetupAssumption, TillAssumption DEF SetupAssumption, TillAssumption, Shape

LEMMA NoSuchWallet ==
    ASSUME wallet \in [words : Words, password : Password] \cup {NoWallet}
    PROVE  /\ wallet # NoWallet <=> wallet \in [words : Words, password : Password]
           /\ wallet # NoWallet <=> wallet.password \in Password
           /\ wallet = NoWallet <=> wallet.words = NULL
  BY Distinct DEF NoWallet

LEMMA IdleTyped == Idle \in Wizards
  BY DEF Idle, Wizards, Mode, Shape

LEMMA EnvPaths == \A shape \in Shape : EnvPath[shape] \in {"credential", "plaintext", "runtime"}
  BY DEF Shape, EnvPath

\* The scripts, operation by operation.
LEMMA Scripts ==
    ASSUME NEW shape \in Shape, NEW password
    PROVE  /\ DOMAIN Script(shape, password) = 1..Length(shape)
           /\ shape = "sealed" =>
                /\ Script(shape, password)[1] = <<"encrypted", "dropin">>
                /\ Script(shape, password)[2] = <<"plain", NULL>>
                /\ Script(shape, password)[3] = <<"manual", NULL>>
           /\ shape = "plaintext" =>
                /\ Script(shape, password)[1] = <<"plain", NULL>>
                /\ Script(shape, password)[2] = <<"plain", password>>
                /\ Script(shape, password)[3] = <<"cred", NULL>>
                /\ Script(shape, password)[4] = <<"encrypted", NULL>>
                /\ Script(shape, password)[5] = <<"manual", NULL>>
           /\ shape = "manual" =>
                /\ Script(shape, password)[1] = <<"manual", "dropin">>
                /\ Script(shape, password)[2] = <<"plain", NULL>>
                /\ Script(shape, password)[3] = <<"cred", NULL>>
                /\ Script(shape, password)[4] = <<"encrypted", NULL>>
<1>1. CASE shape = "sealed"
  BY <1>1 DEF Script, SealedScript, Length
<1>2. CASE shape = "plaintext"
  BY <1>2 DEF Script, PlaintextScript, Length
<1>3. CASE shape = "manual"
  BY <1>3 DEF Script, ManualScript, Length
<1> QED
  BY <1>1, <1>2, <1>3 DEF Shape

-----------------------------------------------------------------------------
(* The beginning, and the steps of the service and of the host.            *)

LEMMA InitHolds == TillInit => TillInv
<1> SUFFICES ASSUME TillInit PROVE TillInv
  OBVIOUS
<1>1. TypeOK
  <2>1. wallet \in [words : Words, password : Password] \cup {NoWallet}
    BY DEF TillInit, Init
  <2>2. DiskTypeOK
    BY DEF TillInit, Init, DiskTypeOK, Contents, File
  <2>3. wizard \in [Wizard -> Wizards]
    BY IdleTyped DEF TillInit, Init
  <2>4. service \in Services /\ identity \in [key : Key \cup {NULL, TORN}, password : Password \cup {NULL}]
    BY DEF TillInit, Stopped, Services, NoIdentity
  <2>5. runs \in 0..MaxRuns
    BY Distinct DEF TillInit, Init
  <2>6. promised \in BOOLEAN
    BY DEF TillInit, Init
  <2> QED
    BY <2>1, <2>2, <2>3, <2>4, <2>5, <2>6 DEF TypeOK, TillInit, Init
<1>2. RunsOK
  BY DEF RunsOK, RunOK, TillInit, Init, Idle, Writing
<1>3. PromiseOK /\ PasswordSurvives /\ LastOK /\ OneShape
  BY DEF PromiseOK, PasswordSurvives, LastOK, OneShape, TillInit, Init
<1>4. IdentityOK /\ ServiceOK /\ SealedStarts
  BY Distinct DEF IdentityOK, ServiceOK, SealedStarts, TillInit, NoIdentity, Stopped
<1> QED
  BY <1>1, <1>2, <1>3, <1>4 DEF TillInv

\* What the wizard's runs have to answer for is not touched by the service.
LEMMA SetupStays ==
    ASSUME TillInv, UNCHANGED setupVars
    PROVE  /\ RunsOK' /\ PromiseOK' /\ PasswordSurvives' /\ LastOK' /\ OneShape'
           /\ TypeOK' <=> /\ identity' \in [key : Key \cup {NULL, TORN}, password : Password \cup {NULL}]
                          /\ runtime' \in Password \cup {NULL}
                          /\ service' \in Services
                          /\ advertised' \in Key \cup {NULL}
<1>1. RunsOK'
  BY DEF TillInv, RunsOK, RunOK, Done, Writing, setupVars
<1>2. PromiseOK' /\ PasswordSurvives' /\ LastOK' /\ OneShape'
  BY DEF TillInv, PromiseOK, PasswordSurvives, Rewriting, Writing, LastOK, OneShape, setupVars
<1> QED
  BY <1>1, <1>2 DEF TillInv, TypeOK, DiskTypeOK, setupVars

LEMMA SecretTyped ==
    ASSUME TypeOK, NEW contents \in Password \cup {NULL, TORN}
    PROVE  Secret(contents) \in Password \cup {NULL}
  BY DEF Secret

LEMMA BootingTyped ==
    ASSUME NEW secret \in Password \cup {NULL}, NEW shape \in Shape \cup {NULL}
    PROVE  /\ Booting(secret, shape) \in Services
           /\ Booting(secret, shape).at \in {"opening", "exited"}
           /\ Booting(secret, shape).at = "opening" => secret \in Password
           /\ Booting(secret, shape).at = "exited" => secret = NULL
           /\ Booting(secret, shape).password = secret
           /\ Booting(secret, shape).shape = shape
  BY DEF Booting, Services

\* A till that was left sealed delivers the password of its wallet.
LEMMA SealedDelivers ==
    ASSUME TillInv, last = "sealed"
    PROVE  /\ Secrets = {wallet.password}
           /\ wallet # NoWallet /\ wallet.password \in Password
<1>1. wallet # NoWallet /\ wallet.password \in Password
  BY NoSuchWallet, Distinct DEF TillInv, LastOK, TypeOK, Shape
<1>2. disk = Layout("sealed", wallet.password)
  BY Distinct DEF TillInv, OneShape, Shape
<1>3. /\ disk["cred"] = wallet.password /\ disk["encrypted"] = "dropin"
      /\ disk["manual"] = NULL /\ disk["env"] = "credential"
  BY <1>2 DEF Layout, File, EnvPath
<1>4. Delivered = wallet.password
  BY <1>3, Distinct DEF Delivered
<1> QED
  BY <1>1, <1>3, <1>4, Distinct DEF Secrets, Secret

LEMMA StartServiceHolds == TillInv /\ StartService => TillInv'
<1> SUFFICES ASSUME TillInv, StartService PROVE TillInv'
  OBVIOUS
<1> USE DEF StartService
<1>1. PICK secret \in Secrets : service' = Booting(secret, last)
  OBVIOUS
<1>2. Delivered \in Password \cup {NULL, TORN}
  BY DEF TillInv, TypeOK, DiskTypeOK, Delivered
<1>3. secret \in Password \cup {NULL} /\ last \in Shape \cup {NULL}
  BY <1>2, SecretTyped DEF TillInv, TypeOK, Secrets
<1>4. TypeOK' /\ RunsOK' /\ PromiseOK' /\ PasswordSurvives' /\ LastOK' /\ OneShape'
  BY <1>1, <1>3, SetupStays, BootingTyped DEF TillInv, TypeOK
<1>5. IdentityOK'
  BY DEF TillInv, IdentityOK, setupVars
<1>6. last = "sealed" => secret = wallet.password /\ wallet # NoWallet /\ secret \in Password
  BY <1>1, SealedDelivers
<1>7. ServiceOK' /\ SealedStarts'
  BY <1>1, <1>3, <1>6, BootingTyped, Distinct DEF ServiceOK, SealedStarts, setupVars
<1> QED
  BY <1>4, <1>5, <1>7 DEF TillInv

LEMMA OpenWalletHolds == TillInv /\ OpenWallet => TillInv'
<1> SUFFICES ASSUME TillInv, OpenWallet PROVE TillInv'
  OBVIOUS
<1> USE DEF OpenWallet
<1>1. service' \in Services /\ service'.password = service.password /\ service'.shape = service.shape
  BY DEF TillInv, TypeOK, Services
<1>2. OpenAt(wallet, NULL, service.password, wallet) => wallet # NoWallet /\ service.password = wallet.password
  BY DEF OpenAt
<1>3. service.shape = "sealed" => OpenAt(wallet, NULL, service.password, wallet)
  BY DEF TillInv, ServiceOK, OpenAt
<1>4. TypeOK' /\ RunsOK' /\ PromiseOK' /\ PasswordSurvives' /\ LastOK' /\ OneShape'
  BY <1>1, SetupStays DEF TillInv, TypeOK
<1>5. IdentityOK' /\ wallet' = wallet
  BY DEF TillInv, IdentityOK, setupVars
<1>6. service'.at \in {"identifying", "exited"}
      /\ (service'.at = "identifying" <=> OpenAt(wallet, NULL, service.password, wallet))
  BY DEF TillInv, TypeOK, Services
<1>7. ServiceOK' /\ SealedStarts'
  BY <1>1, <1>2, <1>3, <1>5, <1>6 DEF ServiceOK, SealedStarts
<1> QED
  BY <1>4, <1>5, <1>7 DEF TillInv

LEMMA LoadIdentityHolds == TillInv /\ LoadIdentity => TillInv'
<1> SUFFICES ASSUME TillInv, LoadIdentity PROVE TillInv'
  OBVIOUS
<1> USE DEF LoadIdentity
<1>1. identity.password = service.password
  BY DEF TillInv, IdentityOK, ServiceOK
<1>2. service' = Up /\ advertised' = identity.key
  BY <1>1
<1>3. TypeOK' /\ RunsOK' /\ PromiseOK' /\ PasswordSurvives' /\ LastOK' /\ OneShape'
  BY <1>2, SetupStays DEF TillInv, TypeOK, Up, Stopped, Services
<1>4. IdentityOK'
  BY <1>2 DEF TillInv, IdentityOK, setupVars
<1>5. ServiceOK' /\ SealedStarts'
  BY <1>2 DEF ServiceOK, SealedStarts, Up, Stopped
<1> QED
  BY <1>3, <1>4, <1>5 DEF TillInv

LEMMA CreateIdentityHolds == \A key \in Key : TillInv /\ CreateIdentity(key) => TillInv'
<1> SUFFICES ASSUME NEW key \in Key, TillInv, CreateIdentity(key) PROVE TillInv'
  OBVIOUS
<1> USE DEF CreateIdentity
<1>1. /\ service' \in Services /\ service'.at = "saving" /\ service'.key = key
      /\ service'.password = service.password
  BY DEF TillInv, TypeOK, Services
<1>2. TypeOK' /\ RunsOK' /\ PromiseOK' /\ PasswordSurvives' /\ LastOK' /\ OneShape'
  BY <1>1, SetupStays DEF TillInv, TypeOK
<1>3. IdentityOK' /\ wallet' = wallet /\ identity' = identity
  BY DEF TillInv, IdentityOK, setupVars
<1>4. ServiceOK' /\ SealedStarts'
  BY <1>1, <1>3 DEF TillInv, ServiceOK, SealedStarts
<1> QED
  BY <1>2, <1>3, <1>4 DEF TillInv

LEMMA SaveIdentityHolds == TillInv /\ SaveIdentity => TillInv'
<1> SUFFICES ASSUME TillInv, SaveIdentity PROVE TillInv'
  OBVIOUS
<1> USE DEF SaveIdentity
<1>1. /\ service.key \in Key /\ wallet # NoWallet /\ service.password = wallet.password
      /\ service.password \in Password \cup {NULL}
  BY DEF TillInv, ServiceOK, TypeOK, Services
<1>2. TypeOK' /\ RunsOK' /\ PromiseOK' /\ PasswordSurvives' /\ LastOK' /\ OneShape'
  BY <1>1, SetupStays DEF TillInv, TypeOK, Up, Stopped, Services
<1>3. IdentityOK'
  BY <1>1 DEF IdentityOK, setupVars
<1>4. ServiceOK' /\ SealedStarts'
  BY DEF ServiceOK, SealedStarts, Up, Stopped
<1> QED
  BY <1>2, <1>3, <1>4 DEF TillInv

LEMMA StopServiceHolds == TillInv /\ StopService => TillInv'
<1> SUFFICES ASSUME TillInv, StopService PROVE TillInv'
  OBVIOUS
<1> USE DEF StopService
<1>1. TypeOK' /\ RunsOK' /\ PromiseOK' /\ PasswordSurvives' /\ LastOK' /\ OneShape'
  <2>1. identity' \in [key : Key \cup {NULL, TORN}, password : Password \cup {NULL}]
    BY DEF TillInv, TypeOK
  <2>2. service' \in Services
    BY DEF Stopped, Services
  <2> QED
    BY <2>1, <2>2, SetupStays DEF TillInv, TypeOK
<1>2. IdentityOK'
  <2>1. CASE UNCHANGED identity
    BY <2>1 DEF TillInv, IdentityOK, setupVars
  <2>2. CASE service.at = "saving" /\ identity' = [key |-> TORN, password |-> NULL]
    <3>1. advertised = NULL
      BY <2>2 DEF TillInv, IdentityOK, ServiceOK, TypeOK
    <3> QED
      BY <2>2, <3>1, Distinct DEF IdentityOK
  <2> QED
    BY <2>1, <2>2
<1>3. ServiceOK' /\ SealedStarts'
  BY DEF ServiceOK, SealedStarts, Stopped
<1> QED
  BY <1>1, <1>2, <1>3 DEF TillInv

LEMMA HostHolds ==
    /\ \A password \in Password : TillInv /\ FillRuntime(password) => TillInv'
    /\ TillInv /\ Reboot => TillInv'
<1> SUFFICES ASSUME TillInv, UNCHANGED <<setupVars, identity, service, advertised>>,
                    runtime' \in Password \cup {NULL}
             PROVE  TillInv'
  BY DEF FillRuntime, Reboot
<1>1. TypeOK' /\ RunsOK' /\ PromiseOK' /\ PasswordSurvives' /\ LastOK' /\ OneShape'
  BY SetupStays DEF TillInv, TypeOK
<1> QED
  BY <1>1 DEF TillInv, IdentityOK, ServiceOK, SealedStarts, setupVars

LEMMA WipeHolds == TillInv /\ Wipe => TillInv'
<1> SUFFICES ASSUME TillInv, Wipe PROVE TillInv'
  OBVIOUS
<1> USE DEF Wipe
<1>1. TypeOK'
  <2>1. DiskTypeOK'
    BY DEF TillInv, TypeOK, DiskTypeOK
  <2> QED
    BY <2>1, Distinct DEF TillInv, TypeOK, NoIdentity
<1>2. RunsOK'
  BY DEF TillInv, RunsOK, RunOK, Writing
<1>3. PromiseOK' /\ PasswordSurvives' /\ LastOK' /\ OneShape'
  BY DEF PromiseOK, PasswordSurvives, LastOK, OneShape
<1>4. IdentityOK' /\ ServiceOK' /\ SealedStarts'
  BY Distinct DEF TillInv, IdentityOK, ServiceOK, SealedStarts, NoIdentity
<1> QED
  BY <1>1, <1>2, <1>3, <1>4 DEF TillInv

-----------------------------------------------------------------------------
(* The steps of a run.                                                     *)

\* A run may make the wallet, and otherwise leaves the service alone.
LEMMA ServiceStays ==
    ASSUME TillInv, UNCHANGED serviceVars, wallet' = wallet \/ wallet = NoWallet
    PROVE  IdentityOK' /\ ServiceOK' /\ SealedStarts'
  BY DEF TillInv, IdentityOK, ServiceOK, SealedStarts, serviceVars

LEMMA RunTyped ==
    ASSUME TypeOK, NEW w \in Wizard
    PROVE  /\ wizard[w] \in Wizards
           /\ wizard[w].shape \in Shape
           /\ wizard[w].step \in Nat
           /\ wizard[w].password \in Password \cup {NULL}
           /\ wizard[w].alone \in BOOLEAN
<1>1. wizard[w] \in Wizards
  BY DEF TypeOK
<1> QED
  BY <1>1 DEF Wizards

\* A run that is not writing has nothing to answer for but its own answers.
LEMMA OtherRuns ==
    ASSUME TillInv, NEW w \in Wizard, NEW v \in Wizard, v # w,
           wizard'[v] = wizard[v],
           wallet' = wallet \/ wallet = NoWallet,
           Writing(w) \/ disk' = disk,
           last' = last \/ Writing(w),
           Writing(v) => last' = NULL,
           \A u \in Wizard : Writing(u)' => Writing(u)
    PROVE  RunOK(v)'
<1>1. RunOK(v) /\ RunOK(w)
  BY DEF TillInv, RunsOK
<1>2. wizard[v].alone => disk' = disk /\ wallet' = wallet
  BY <1>1 DEF RunOK, Writing
<1>3. wizard[v].alone => Done(wizard[v].shape, wizard[v].step)'
  BY <1>1, <1>2 DEF RunOK, Done
<1> QED
  BY <1>1, <1>2, <1>3 DEF RunOK, Writing

\* A run that begins has touched nothing.
LEMMA BeginHolds ==
    \A w \in Wizard, options \in Options :
      TillInv /\ Begin(w, options) /\ UNCHANGED serviceVars => TillInv'
<1> SUFFICES ASSUME NEW w \in Wizard, NEW options \in Options,
                    TillInv, Begin(w, options), UNCHANGED serviceVars
             PROVE  TillInv'
  OBVIOUS
<1> DEFINE begun == [Idle EXCEPT !.at = "asking", !.bare = options.bare]
<1>1. wizard' = [wizard EXCEPT ![w] = begun]
  BY DEF Begin
<1>2. begun \in Wizards /\ begun.at = "asking" /\ begun.alone = FALSE
  <2>1. options.bare \in BOOLEAN
    BY DEF Options
  <2>2. Idle.alone = FALSE
    BY DEF Idle
  <2> QED
    BY <2>1, <2>2, IdleTyped DEF Wizards
<1> HIDE DEF begun
<1>3. /\ wallet' = wallet /\ disk' = disk /\ last' = last /\ promised' = promised
      /\ runs' = runs + 1 /\ runs < MaxRuns
      /\ wizard[w].at = "idle"
  BY DEF Begin
<1>4. wizard'[w] = begun /\ \A v \in Wizard : v # w => wizard'[v] = wizard[v]
  BY <1>1 DEF TillInv, TypeOK
<1>5. TypeOK'
  <2>1. DiskTypeOK' /\ wizard' \in [Wizard -> Wizards]
    BY <1>1, <1>2, <1>3 DEF TillInv, TypeOK, DiskTypeOK
  <2>2. runs' \in 0..MaxRuns
    BY <1>3, Distinct DEF TillInv, TypeOK
  <2> QED
    BY <2>1, <2>2, <1>3 DEF TillInv, TypeOK, serviceVars
<1>6. ~Writing(w) /\ ~Writing(w)' /\ ~Rewriting(w) /\ \A v \in Wizard : v # w => (Writing(v)' <=> Writing(v))
  BY <1>2, <1>3, <1>4 DEF Writing, Rewriting
<1>7. RunsOK'
  <2>1. RunOK(w)'
    BY <1>2, <1>4 DEF RunOK, Writing
  <2>2. ASSUME NEW v \in Wizard, v # w PROVE RunOK(v)'
    <3>1. Writing(v) => last = NULL
      BY DEF TillInv, RunsOK, RunOK
    <3> QED
      BY <2>2, <3>1, <1>3, <1>4, <1>6, OtherRuns
  <2> QED
    BY <2>1, <2>2 DEF RunsOK
<1>8. PromiseOK' /\ PasswordSurvives' /\ LastOK' /\ OneShape'
  <2>1. \A v \in Wizard : Rewriting(v) => Rewriting(v)' /\ wizard'[v] = wizard[v]
    BY <1>4, <1>6 DEF Rewriting, Writing
  <2> QED
    BY <2>1, <1>3, <1>4, <1>6 DEF TillInv, PromiseOK, PasswordSurvives, LastOK, OneShape
<1>9. IdentityOK' /\ ServiceOK' /\ SealedStarts'
  BY <1>3, ServiceStays
<1> QED
  BY <1>5, <1>7, <1>8, <1>9 DEF TillInv


LEMMA AskHolds ==
    \A w \in Wizard, answers \in Answers :
      TillInv /\ Ask(w, answers) /\ UNCHANGED serviceVars => TillInv'
<1> SUFFICES ASSUME NEW w \in Wizard, NEW answers \in Answers,
                    TillInv, Ask(w, answers), UNCHANGED serviceVars
             PROVE  TillInv'
  OBVIOUS
<1> DEFINE bare == wizard[w].bare
           words == answers.words
           password == answers.password
           choice == answers.restart
           begun == [Idle EXCEPT !.at = "opening",
                                 !.bare = bare,
                                 !.existing = wallet # NoWallet,
                                 !.words = IF wallet # NoWallet THEN NULL ELSE words,
                                 !.password = password,
                                 !.mode = ModeOf(choice)]
<1>0. bare \in BOOLEAN /\ words \in Words /\ password \in Password /\ choice \in Mode \cup {"enter"}
  BY DEF TillInv, TypeOK, Wizards, Answers
<1>1. wizard' = [wizard EXCEPT ![w] = begun]
  BY DEF Ask
<1> HIDE DEF bare, words, password, choice
<1>2. begun \in Wizards /\ begun.at = "opening" /\ begun.password = password /\ begun.alone = FALSE
      /\ begun.existing = (wallet # NoWallet)
      /\ begun.words = IF wallet # NoWallet THEN NULL ELSE words
  <2>1. PICK existing \in BOOLEAN : existing = (wallet # NoWallet)
    OBVIOUS
  <2>2. ModeOf(choice) \in Mode
    BY <1>0 DEF ModeOf, CurrentMode, Mode
  <2>3. (IF wallet # NoWallet THEN NULL ELSE words) \in Words \cup {NULL}
    BY <1>0
  <2>4. Idle.alone = FALSE
    BY DEF Idle
  <2> DEFINE words0 == IF wallet # NoWallet THEN NULL ELSE words
             mode0 == ModeOf(choice)
             begun0 == [Idle EXCEPT !.at = "opening", !.bare = bare, !.existing = existing,
                                    !.words = words0, !.password = password, !.mode = mode0]
  <2>5. begun = begun0
    BY <2>1, Zenon
  <2>6. words0 \in Words \cup {NULL} /\ mode0 \in Mode
    BY <2>2, <2>3
  <2> HIDE DEF words0, mode0
  <2>7. /\ begun0 \in Wizards /\ begun0.at = "opening" /\ begun0.existing = existing
        /\ begun0.words = words0 /\ begun0.password = password /\ begun0.alone = FALSE
    BY <1>0, <2>4, <2>6, IdleTyped DEF Wizards
  <2> QED
    BY <2>1, <2>5, <2>7 DEF words0
<1> HIDE DEF begun
<1>3. /\ wallet' = wallet /\ disk' = disk /\ last' = last /\ promised' = promised
      /\ runs' = runs
      /\ wizard[w].at = "asking"
  BY DEF Ask
<1>4. wizard'[w] = begun /\ \A v \in Wizard : v # w => wizard'[v] = wizard[v]
  BY <1>1 DEF TillInv, TypeOK
<1>5. TypeOK'
  <2>1. DiskTypeOK' /\ wizard' \in [Wizard -> Wizards]
    BY <1>1, <1>2, <1>3 DEF TillInv, TypeOK, DiskTypeOK
  <2>2. runs' \in 0..MaxRuns
    BY <1>3, Distinct DEF TillInv, TypeOK
  <2> QED
    BY <2>1, <2>2, <1>3 DEF TillInv, TypeOK, serviceVars
<1>6. ~Writing(w) /\ ~Writing(w)' /\ ~Rewriting(w) /\ \A v \in Wizard : v # w => (Writing(v)' <=> Writing(v))
  BY <1>2, <1>3, <1>4 DEF Writing, Rewriting
<1>7. RunsOK'
  <2>1. RunOK(w)'
    BY <1>0, <1>2, <1>4 DEF RunOK, Writing
  <2>2. ASSUME NEW v \in Wizard, v # w PROVE RunOK(v)'
    <3>1. Writing(v) => last = NULL
      BY DEF TillInv, RunsOK, RunOK
    <3> QED
      BY <2>2, <3>1, <1>3, <1>4, <1>6, OtherRuns
  <2> QED
    BY <2>1, <2>2 DEF RunsOK
<1>8. PromiseOK' /\ PasswordSurvives' /\ LastOK' /\ OneShape'
  <2>1. \A v \in Wizard : Rewriting(v) => Rewriting(v)' /\ wizard'[v] = wizard[v]
    BY <1>4, <1>6 DEF Rewriting, Writing
  <2> QED
    BY <2>1, <1>3, <1>4, <1>6 DEF TillInv, PromiseOK, PasswordSurvives, LastOK, OneShape
<1>9. IdentityOK' /\ ServiceOK' /\ SealedStarts'
  BY <1>3, ServiceStays
<1> QED
  BY <1>5, <1>7, <1>8, <1>9 DEF TillInv

\* The wallet a run has opened is the wallet at rest, under the password the run
\* goes on with; a wallet that was there is unchanged.
LEMMA Opened ==
    ASSUME TillInv, NEW w \in Wizard, Open(w)
    PROVE  /\ wallet' \in [words : Words, password : Password]
           /\ wallet' # NoWallet
           /\ wallet' = wallet \/ wallet = NoWallet
           /\ OpeningPassword(w) = wallet'.password
<1>1. RunOK(w) /\ wizard[w].at = "opening"
  BY DEF TillInv, RunsOK, Open
<1>2. wallet \in [words : Words, password : Password] \cup {NoWallet}
  BY DEF TillInv, TypeOK
<1>3. OpenAt(wallet, wizard[w].words, OpeningPassword(w), wallet')
  BY DEF Open
<1>4. CASE wallet # NoWallet
  BY <1>2, <1>3, <1>4 DEF OpenAt
<1>5. CASE wallet = NoWallet
  <2>1. /\ wizard[w].words # NULL
        /\ wallet' = [words |-> wizard[w].words, password |-> OpeningPassword(w)]
    BY <1>3, <1>5 DEF OpenAt
  <2>2. ~wizard[w].existing /\ wizard[w].words \in Words /\ wizard[w].password \in Password
    BY <2>1, <1>1 DEF RunOK
  <2>3. OpeningPassword(w) = wizard[w].password
    BY <2>2 DEF OpeningPassword
  <2> QED
    BY <2>1, <2>2, <2>3, <1>5, Distinct DEF NoWallet
<1> QED
  BY <1>4, <1>5

LEMMA OpenHolds == \A w \in Wizard : TillInv /\ Open(w) /\ UNCHANGED serviceVars => TillInv'
<1> SUFFICES ASSUME NEW w \in Wizard, TillInv, Open(w), UNCHANGED serviceVars PROVE TillInv'
  OBVIOUS
<1> DEFINE opened == [Idle EXCEPT !.at = "sealing",
                                  !.bare = wizard[w].bare,
                                  !.password = OpeningPassword(w),
                                  !.mode = wizard[w].mode]
<1>1. wizard' = [wizard EXCEPT ![w] = opened]
  BY DEF Open
<1>2. /\ wallet' \in [words : Words, password : Password]
      /\ wallet' # NoWallet
      /\ wallet' = wallet \/ wallet = NoWallet
      /\ OpeningPassword(w) = wallet'.password
  BY Opened
<1>3. opened \in Wizards /\ opened.at = "sealing" /\ opened.alone = FALSE
      /\ opened.password = wallet'.password
  <2>1. wizard[w].bare \in BOOLEAN /\ wizard[w].mode \in Mode
    BY RunTyped DEF TillInv, Wizards
  <2>2. OpeningPassword(w) \in Password
    BY <1>2
  <2>3. Idle.alone = FALSE
    BY DEF Idle
  <2> DEFINE bare0 == wizard[w].bare
             mode0 == wizard[w].mode
             password0 == OpeningPassword(w)
  <2>4. bare0 \in BOOLEAN /\ mode0 \in Mode /\ password0 \in Password \cup {NULL}
    BY <2>1, <2>2
  <2> HIDE DEF bare0, mode0, password0
  <2> DEFINE opened0 == [Idle EXCEPT !.at = "sealing", !.bare = bare0, !.password = password0,
                                     !.mode = mode0]
  <2>5. /\ opened0 \in Wizards /\ opened0.at = "sealing" /\ opened0.password = password0
        /\ opened0.alone = FALSE
    BY <2>3, <2>4, IdleTyped DEF Wizards
  <2>6. opened = opened0 /\ password0 = wallet'.password
    BY <1>2 DEF bare0, mode0, password0
  <2> QED
    BY <2>5, <2>6
<1> HIDE DEF opened
<1>4. disk' = disk /\ last' = last /\ promised' = promised /\ runs' = runs
      /\ wizard[w].at = "opening"
  BY DEF Open
<1>5. wizard'[w] = opened /\ \A v \in Wizard : v # w => wizard'[v] = wizard[v]
  BY <1>1 DEF TillInv, TypeOK
<1>6. TypeOK'
  <2>1. DiskTypeOK' /\ wizard' \in [Wizard -> Wizards]
    BY <1>1, <1>3, <1>4 DEF TillInv, TypeOK, DiskTypeOK
  <2> QED
    BY <2>1, <1>2, <1>4 DEF TillInv, TypeOK, serviceVars
<1>7. ~Writing(w) /\ ~Writing(w)' /\ ~Rewriting(w) /\ \A v \in Wizard : v # w => (Writing(v)' <=> Writing(v))
  BY <1>3, <1>4, <1>5 DEF Writing, Rewriting
<1>8. RunsOK'
  <2>1. RunOK(w)'
    BY <1>2, <1>3, <1>5 DEF RunOK, Writing
  <2>2. ASSUME NEW v \in Wizard, v # w PROVE RunOK(v)'
    <3>1. Writing(v) => last = NULL
      BY DEF TillInv, RunsOK, RunOK
    <3> QED
      BY <2>2, <3>1, <1>2, <1>4, <1>5, <1>7, OtherRuns
  <2> QED
    BY <2>1, <2>2 DEF RunsOK
<1>9. PromiseOK' /\ PasswordSurvives' /\ LastOK' /\ OneShape'
  <2>1. \A v \in Wizard : Rewriting(v) => Rewriting(v)' /\ wizard'[v] = wizard[v]
    BY <1>5, <1>7 DEF Rewriting, Writing
  <2>2. promised \/ last # NULL => wallet' = wallet
    BY <1>2 DEF TillInv, PromiseOK, LastOK
  <2> QED
    BY <2>1, <2>2, <1>2, <1>4, <1>5, <1>7 DEF TillInv, PromiseOK, PasswordSurvives, LastOK, OneShape
<1>10. IdentityOK' /\ ServiceOK' /\ SealedStarts'
  BY <1>2, ServiceStays
<1> QED
  BY <1>6, <1>8, <1>9, <1>10 DEF TillInv

LEMMA PersistHolds ==
    \A w \in Wizard, shape \in Shape :
      TillInv /\ Persist(w, shape) /\ UNCHANGED serviceVars => TillInv'
<1> SUFFICES ASSUME NEW w \in Wizard, NEW shape \in Shape,
                    TillInv, Persist(w, shape), UNCHANGED serviceVars
             PROVE  TillInv'
  OBVIOUS
<1> DEFINE alone == \A v \in Wizard : ~Writing(v)
           bare0 == wizard[w].bare
           password0 == wizard[w].password
           step0 == 1
           begun == [Idle EXCEPT !.at = "writing", !.bare = bare0, !.password = password0,
                                 !.shape = shape, !.step = step0, !.alone = alone]
<1>1. /\ wizard[w].at = "sealing" /\ wallet' = wallet /\ runs' = runs /\ last' = NULL
      /\ shape \in ShapesOf(wizard[w].mode)
      /\ promised' = (promised /\ alone /\ shape # "manual")
      /\ disk' = IF shape = "sealed" THEN [disk EXCEPT !["cred"] = password0] ELSE disk
      /\ wizard' = [v \in Wizard |-> IF v = w THEN begun ELSE [wizard[v] EXCEPT !.alone = FALSE]]
  BY DEF Persist
<1>2. wallet # NoWallet /\ password0 = wallet.password /\ password0 \in Password
  BY <1>1, NoSuchWallet DEF TillInv, TypeOK, RunsOK, RunOK
<1>3. alone \in BOOLEAN /\ bare0 \in BOOLEAN
  <2>1. bare0 \in BOOLEAN
    BY RunTyped DEF TillInv, Wizards
  <2>2. alone \in BOOLEAN
    BY Zenon
  <2> QED
    BY <2>1, <2>2
<1>0. step0 = 1 /\ step0 \in 0..6
  OBVIOUS
<1> HIDE DEF bare0, password0, alone, step0
<1>4. /\ begun \in Wizards /\ begun.at = "writing" /\ begun.shape = shape
      /\ begun.password = password0 /\ begun.alone = alone
      /\ begun.step = step0
  BY <1>0, <1>2, <1>3, IdleTyped DEF Wizards
<1>5. begun.step = 1
  BY <1>0, <1>4
<1> HIDE DEF begun
<1>6. ASSUME NEW v \in Wizard, v # w
      PROVE  /\ wizard'[v] \in Wizards /\ wizard'[v].alone = FALSE
             /\ wizard'[v].at = wizard[v].at /\ wizard'[v].shape = wizard[v].shape
             /\ wizard'[v].step = wizard[v].step /\ wizard'[v].password = wizard[v].password
             /\ wizard'[v].existing = wizard[v].existing /\ wizard'[v].words = wizard[v].words
  <2>1. wizard'[v] = [wizard[v] EXCEPT !.alone = FALSE]
    BY <1>1, <1>6
  <2>2. wizard[v] \in Wizards
    BY RunTyped DEF TillInv
  <2> QED
    BY <2>1, <2>2 DEF Wizards
<1>7. wizard'[w] = begun
  BY <1>1
<1>8. DiskTypeOK' /\ (shape = "sealed" => disk'["cred"] = wallet.password)
      /\ (shape # "sealed" => disk' = disk)
      /\ disk'["plain"] = disk["plain"]
  BY <1>1, <1>2 DEF TillInv, TypeOK, DiskTypeOK, File, Contents
<1>9. TypeOK'
  <2>1. wizard' \in [Wizard -> Wizards]
    BY <1>1, <1>4, <1>6, <1>7
  <2>2. promised' \in BOOLEAN
    BY <1>1
  <2> QED
    BY <2>1, <2>2, <1>1, <1>8 DEF TillInv, TypeOK, serviceVars
<1>10. Writing(w)' /\ \A v \in Wizard : v # w => (Writing(v)' <=> Writing(v))
  BY <1>4, <1>6, <1>7 DEF Writing
<1>11. RunsOK'
  <2>1. RunOK(w)'
    <3>1. alone => \A v \in Wizard \ {w} : ~Writing(v)'
      BY <1>10 DEF alone
    <3>2. wizard'[w].step \in 1..Length(wizard'[w].shape) + 1
      BY <1>4, <1>5, <1>7 DEF Shape, Length
    <3>3. Done(wizard[w].shape, wizard[w].step)'
      <4>1. wizard'[w].shape = shape /\ wizard'[w].step = 1 /\ wallet'.password = wallet.password
        BY <1>1, <1>4, <1>5, <1>7
      <4>2. CASE shape = "sealed"
        BY <4>1, <4>2, <1>8 DEF Done
      <4>3. CASE shape = "plaintext"
        BY <4>1, <4>3 DEF Done
      <4>4. CASE shape = "manual"
        BY <4>1, <4>4 DEF Done
      <4> QED
        BY <4>2, <4>3, <4>4 DEF Shape
    <3> QED
      BY <3>1, <3>2, <3>3, <1>1, <1>2, <1>4, <1>7, <1>10 DEF RunOK
  <2>2. ASSUME NEW v \in Wizard, v # w PROVE RunOK(v)'
    <3>1. RunOK(v)
      BY DEF TillInv, RunsOK
    <3>2. wizard'[v].alone = FALSE
      BY <2>2, <1>6
    <3>3. /\ wizard'[v].at = wizard[v].at /\ wizard'[v].shape = wizard[v].shape
          /\ wizard'[v].step = wizard[v].step /\ wizard'[v].password = wizard[v].password
          /\ wizard'[v].existing = wizard[v].existing /\ wizard'[v].words = wizard[v].words
      BY <2>2, <1>6
    <3> QED
      BY <3>1, <3>2, <3>3, <1>1 DEF RunOK, Writing
  <2> QED
    BY <2>1, <2>2 DEF RunsOK
<1>12. PromiseOK' /\ PasswordSurvives'
  <2> SUFFICES ASSUME promised' PROVE PromiseOK' /\ PasswordSurvives'
    BY DEF PromiseOK, PasswordSurvives
  <2>1. promised /\ alone /\ shape # "manual"
    BY <1>1
  <2>2. PromiseOK'
    BY <2>1, <1>1, <1>2, <1>4, <1>7, <1>10 DEF PromiseOK, alone
  <2>3. wallet.password \in {disk["plain"], disk["cred"]}
    BY <2>1 DEF TillInv, PasswordSurvives, Rewriting, alone
  <2>4. wallet'.password \in {disk'["plain"], disk'["cred"]}
    BY <2>3, <1>1, <1>8
  <2> QED
    BY <2>2, <2>4, <1>1, <1>2 DEF PasswordSurvives
<1>13. LastOK' /\ OneShape'
  BY <1>1 DEF LastOK, OneShape
<1>14. IdentityOK' /\ ServiceOK' /\ SealedStarts'
  BY <1>1, ServiceStays
<1> QED
  BY <1>9, <1>11, <1>12, <1>13, <1>14 DEF TillInv

\* The operation a run is at.
At(w, shape, step, file, contents) ==
    /\ wizard[w].shape = shape /\ wizard[w].step = step
    /\ Operation(w)[1] = file /\ Operation(w)[2] = contents

LEMMA OperationIs ==
    ASSUME TillInv, NEW w \in Wizard, Writing(w), More(w)
    PROVE  \/ At(w, "sealed", 1, "encrypted", "dropin")
           \/ At(w, "sealed", 2, "plain", NULL)
           \/ At(w, "sealed", 3, "manual", NULL)
           \/ At(w, "plaintext", 1, "plain", NULL)
           \/ At(w, "plaintext", 2, "plain", wallet.password)
           \/ At(w, "plaintext", 3, "cred", NULL)
           \/ At(w, "plaintext", 4, "encrypted", NULL)
           \/ At(w, "plaintext", 5, "manual", NULL)
           \/ At(w, "manual", 1, "manual", "dropin")
           \/ At(w, "manual", 2, "plain", NULL)
           \/ At(w, "manual", 3, "cred", NULL)
           \/ At(w, "manual", 4, "encrypted", NULL)
<1>1. wizard[w].shape \in Shape
  BY RunTyped DEF TillInv
<1>2. wizard[w].step \in 1..Length(wizard[w].shape)
  BY <1>1, Scripts DEF More
<1>3. wizard[w].password = wallet.password
  BY DEF TillInv, RunsOK, RunOK, Writing
<1>4. CASE wizard[w].shape = "sealed"
  <2>1. wizard[w].step = 1 \/ wizard[w].step = 2 \/ wizard[w].step = 3
    BY <1>2, <1>4 DEF Length
  <2> QED
    BY <2>1, <1>1, <1>4, Scripts DEF Operation, At
<1>5. CASE wizard[w].shape = "plaintext"
  <2>1. \/ wizard[w].step = 1 \/ wizard[w].step = 2 \/ wizard[w].step = 3
        \/ wizard[w].step = 4 \/ wizard[w].step = 5
    BY <1>2, <1>5 DEF Length
  <2> QED
    BY <2>1, <1>1, <1>3, <1>5, Scripts DEF Operation, At
<1>6. CASE wizard[w].shape = "manual"
  <2>1. \/ wizard[w].step = 1 \/ wizard[w].step = 2 \/ wizard[w].step = 3
        \/ wizard[w].step = 4
    BY <1>2, <1>6 DEF Length
  <2> QED
    BY <2>1, <1>1, <1>6, Scripts DEF Operation, At
<1> QED
  BY <1>1, <1>4, <1>5, <1>6 DEF Shape

LEMMA WriteHolds == \A w \in Wizard : TillInv /\ Write(w) /\ UNCHANGED serviceVars => TillInv'
<1> SUFFICES ASSUME NEW w \in Wizard, TillInv, Write(w), UNCHANGED serviceVars PROVE TillInv'
  OBVIOUS
<1> DEFINE file == Operation(w)[1]
           contents == Operation(w)[2]
           shape == wizard[w].shape
           step == wizard[w].step
<1>1. /\ Writing(w) /\ More(w)
      /\ disk' = [disk EXCEPT ![file] = contents]
      /\ wizard' = [wizard EXCEPT ![w].step = step + 1]
      /\ wallet' = wallet /\ runs' = runs /\ last' = last /\ promised' = promised
  BY DEF Write
<1>2. \/ shape = "sealed" /\ step = 1 /\ file = "encrypted" /\ contents = "dropin"
      \/ shape = "sealed" /\ step = 2 /\ file = "plain" /\ contents = NULL
      \/ shape = "sealed" /\ step = 3 /\ file = "manual" /\ contents = NULL
      \/ shape = "plaintext" /\ step = 1 /\ file = "plain" /\ contents = NULL
      \/ shape = "plaintext" /\ step = 2 /\ file = "plain" /\ contents = wallet.password
      \/ shape = "plaintext" /\ step = 3 /\ file = "cred" /\ contents = NULL
      \/ shape = "plaintext" /\ step = 4 /\ file = "encrypted" /\ contents = NULL
      \/ shape = "plaintext" /\ step = 5 /\ file = "manual" /\ contents = NULL
      \/ shape = "manual" /\ step = 1 /\ file = "manual" /\ contents = "dropin"
      \/ shape = "manual" /\ step = 2 /\ file = "plain" /\ contents = NULL
      \/ shape = "manual" /\ step = 3 /\ file = "cred" /\ contents = NULL
      \/ shape = "manual" /\ step = 4 /\ file = "encrypted" /\ contents = NULL
  BY <1>1, OperationIs DEF At
<1>3. /\ RunOK(w) /\ wallet # NoWallet /\ wallet.password \in Password
      /\ wizard[w] \in Wizards /\ last = NULL
  BY <1>1, NoSuchWallet, RunTyped DEF TillInv, TypeOK, RunsOK, RunOK, Writing
<1> HIDE DEF file, contents, shape, step
<1>4. DiskTypeOK'
  <2>1. /\ file \in File \ {"env"} /\ contents \in Contents
        /\ file = "plain" => contents \in Password \cup {NULL}
        /\ file = "cred" => contents = NULL
        /\ file \in {"encrypted", "manual"} => contents \in {NULL, "dropin"}
    BY <1>2, <1>3 DEF File, Contents
  <2>2. disk \in [File -> Contents] /\ disk' \in [File -> Contents]
    BY <1>1, <2>1 DEF TillInv, TypeOK, DiskTypeOK
  <2>3. \A f \in File : disk'[f] = IF f = file THEN contents ELSE disk[f]
    BY <1>1, <2>2
  <2> QED
    BY <2>1, <2>2, <2>3 DEF TillInv, TypeOK, DiskTypeOK, File
<1>5. \A f \in File : disk'[f] = IF f = file THEN contents ELSE disk[f]
  BY <1>1 DEF TillInv, TypeOK, DiskTypeOK
<1>6. /\ wizard'[w] = [wizard[w] EXCEPT !.step = step + 1]
      /\ \A v \in Wizard : v # w => wizard'[v] = wizard[v]
  BY <1>1 DEF TillInv, TypeOK
<1>7. step \in 1..Length(shape) /\ Length(shape) \in {3, 4, 5}
  BY <1>2 DEF Length
<1>8. step + 1 \in 0..6 /\ step + 1 \in 1..Length(shape) + 1
  BY <1>7
<1>9. /\ wizard'[w] \in Wizards /\ wizard'[w].step = step + 1
      /\ wizard'[w].at = wizard[w].at /\ wizard'[w].shape = shape
      /\ wizard'[w].password = wizard[w].password
      /\ wizard'[w].alone = wizard[w].alone
  <2> DEFINE next == step + 1
  <2>1. next \in 0..6
    BY <1>8
  <2> HIDE DEF next
  <2>2. wizard'[w] = [wizard[w] EXCEPT !.step = next]
    BY <1>6 DEF next
  <2>3. /\ wizard'[w] \in Wizards /\ wizard'[w].step = next
        /\ wizard'[w].at = wizard[w].at /\ wizard'[w].shape = wizard[w].shape
        /\ wizard'[w].password = wizard[w].password
        /\ wizard'[w].alone = wizard[w].alone
    BY <2>1, <2>2, <1>3 DEF Wizards
  <2> QED
    BY <2>3 DEF next, shape
<1>10. TypeOK'
  <2>1. wizard' \in [Wizard -> Wizards]
    <3>1. \A v \in Wizard : wizard'[v] \in Wizards
      BY <1>6, <1>9 DEF TillInv, TypeOK
    <3>2. wizard' = [v \in Wizard |-> wizard'[v]]
      BY <1>1 DEF TillInv, TypeOK
    <3> QED
      BY <3>1, <3>2
  <2> QED
    BY <2>1, <1>1, <1>4 DEF TillInv, TypeOK, serviceVars
<1>11. \A v \in Wizard : Writing(v)' <=> Writing(v)
  BY <1>6, <1>9 DEF Writing
<1>12. wizard[w].alone => Done(wizard[w].shape, wizard[w].step)'
  <2> SUFFICES ASSUME wizard[w].alone PROVE Done(wizard[w].shape, wizard[w].step)'
    OBVIOUS
  <2>1. Done(shape, step)
    BY <1>3 DEF RunOK, shape, step
  <2>2. /\ wizard'[w].shape = shape /\ wizard'[w].step = step + 1
        /\ wallet'.password = wallet.password
    BY <1>1, <1>9
  <2>3. CASE shape = "sealed"
    BY <2>1, <2>2, <2>3, <1>2, <1>5 DEF Done, File
  <2>4. CASE shape = "plaintext"
    BY <2>1, <2>2, <2>4, <1>2, <1>5 DEF Done, File
  <2>5. CASE shape = "manual"
    BY <2>1, <2>2, <2>5, <1>2, <1>5 DEF Done, File
  <2> QED
    BY <2>3, <2>4, <2>5, <1>2
<1>13. RunsOK'
  <2>1. RunOK(w)'
    BY <1>1, <1>3, <1>8, <1>9, <1>11, <1>12 DEF RunOK, Writing, shape
  <2>2. ASSUME NEW v \in Wizard, v # w PROVE RunOK(v)'
    BY <2>2, <1>1, <1>3, <1>6, <1>11, OtherRuns
  <2> QED
    BY <2>1, <2>2 DEF RunsOK
<1>14. PromiseOK' /\ PasswordSurvives'
  <2> SUFFICES ASSUME promised PROVE PromiseOK' /\ PasswordSurvives'
    BY <1>1 DEF PromiseOK, PasswordSurvives
  <2>1. wizard[w].alone /\ shape # "manual" /\ Done(shape, step)
    BY <1>1, <1>3 DEF TillInv, PromiseOK, RunOK, shape, step
  <2>2. PromiseOK'
    <3>1. \A v \in Wizard : Writing(v)' => v = w
      BY <2>1, <1>3, <1>11 DEF RunOK
    <3> QED
      BY <3>1, <2>1, <1>1, <1>3, <1>9 DEF PromiseOK
  <2>3. shape = "sealed" => disk'["cred"] = wallet.password
    BY <2>1, <1>2, <1>5 DEF Done, File
  <2>4. shape = "plaintext" /\ step > 1 => disk'["plain"] = wallet.password
    BY <2>1, <1>2, <1>5 DEF Done, File
  <2>5. shape = "plaintext" /\ step = 1 => Rewriting(w)' /\ wizard'[w].password = wallet.password
    BY <1>1, <1>3, <1>9, <1>11 DEF Rewriting, RunOK, Writing
  <2> QED
    BY <2>1, <2>2, <2>3, <2>4, <2>5, <1>1, <1>2, <1>3 DEF PasswordSurvives
<1>15. LastOK' /\ OneShape'
  BY <1>1, <1>3 DEF LastOK, OneShape
<1>16. IdentityOK' /\ ServiceOK' /\ SealedStarts'
  BY <1>1, ServiceStays
<1> QED
  BY <1>10, <1>13, <1>14, <1>15, <1>16 DEF TillInv

\* What a cut-off write can leave empty: never the sealed credential.
LEMMA TornIs ==
    ASSUME TillInv, NEW w \in Wizard, NEW file \in Torn(w)
    PROVE  /\ Writing(w)
           /\ file \in {"plain", "encrypted", "manual", "env"}
           /\ file = "plain" => Rewriting(w)
<1>1. Writing(w)
  BY DEF Torn
<1>2. CASE ~More(w)
  BY <1>1, <1>2 DEF Torn
<1>3. CASE More(w)
  <2>1. file = Operation(w)[1] /\ Operation(w)[2] # NULL
    BY <1>1, <1>3 DEF Torn
  <2> QED
    BY <2>1, <1>1, <1>3, OperationIs DEF At, Rewriting
<1> QED
  BY <1>2, <1>3

LEMMA AbortHolds == \A w \in Wizard : TillInv /\ Abort(w) /\ UNCHANGED serviceVars => TillInv'
<1> SUFFICES ASSUME NEW w \in Wizard, TillInv, Abort(w), UNCHANGED serviceVars PROVE TillInv'
  OBVIOUS
<1>1. /\ wallet' = wallet /\ runs' = runs /\ last' = last
      /\ wizard' = [wizard EXCEPT ![w] = Idle]
      /\ promised' = (promised /\ (Rewriting(w) => disk["cred"] = wallet.password))
  BY DEF Abort
<1>2. \/ disk' = disk
      \/ \E file \in Torn(w) : disk' = [disk EXCEPT ![file] = TORN]
  BY DEF Abort
<1>3. /\ DiskTypeOK' /\ disk'["cred"] = disk["cred"]
      /\ ~Rewriting(w) => disk'["plain"] = disk["plain"]
      /\ ~Writing(w) => disk' = disk
  <2>1. CASE disk' = disk
    BY <2>1 DEF TillInv, TypeOK, DiskTypeOK
  <2>2. ASSUME NEW file \in Torn(w), disk' = [disk EXCEPT ![file] = TORN]
        PROVE  /\ DiskTypeOK' /\ disk'["cred"] = disk["cred"]
               /\ ~Rewriting(w) => disk'["plain"] = disk["plain"]
               /\ ~Writing(w) => disk' = disk
    <3>1. /\ Writing(w) /\ file \in {"plain", "encrypted", "manual", "env"}
          /\ file = "plain" => Rewriting(w)
      BY <2>2, TornIs
    <3> QED
      BY <3>1, <2>2 DEF TillInv, TypeOK, DiskTypeOK, Contents, File
  <2> QED
    BY <1>2, <2>1, <2>2
<1>4. wizard'[w] = Idle /\ \A v \in Wizard : v # w => wizard'[v] = wizard[v]
  BY <1>1 DEF TillInv, TypeOK
<1>5. TypeOK'
  <2>1. wizard' \in [Wizard -> Wizards]
    BY <1>1, IdleTyped DEF TillInv, TypeOK
  <2>2. promised' \in BOOLEAN
    BY <1>1
  <2> QED
    BY <2>1, <2>2, <1>1, <1>3 DEF TillInv, TypeOK, serviceVars
<1>6. ~Writing(w)' /\ \A v \in Wizard : v # w => (Writing(v)' <=> Writing(v))
  BY <1>4 DEF Writing, Idle
<1>7. RunsOK'
  <2>1. RunOK(w)'
    BY <1>4 DEF RunOK, Writing, Idle
  <2>2. ASSUME NEW v \in Wizard, v # w PROVE RunOK(v)'
    <3>1. Writing(v) => last = NULL
      BY DEF TillInv, RunsOK, RunOK
    <3> QED
      BY <2>2, <3>1, <1>1, <1>3, <1>4, <1>6, OtherRuns
  <2> QED
    BY <2>1, <2>2 DEF RunsOK
<1>8. PromiseOK' /\ PasswordSurvives'
  <2> SUFFICES ASSUME promised' PROVE PromiseOK' /\ PasswordSurvives'
    BY DEF PromiseOK, PasswordSurvives
  <2>1. promised /\ (Rewriting(w) => disk["cred"] = wallet.password)
    BY <1>1
  <2>2. PromiseOK'
    BY <2>1, <1>1, <1>4, <1>6 DEF TillInv, PromiseOK
  <2>3. CASE wallet.password \in {disk["plain"], disk["cred"]}
    <3>1. wallet' = wallet /\ wallet # NoWallet
      BY <2>1, <1>1 DEF TillInv, PromiseOK
    <3>2. CASE Rewriting(w)
      <4>1. disk'["cred"] = wallet'.password
        BY <3>1, <3>2, <2>1, <1>3
      <4> QED
        BY <3>1, <4>1, <2>2 DEF PasswordSurvives
    <3>3. CASE ~Rewriting(w)
      <4>1. disk'["cred"] = disk["cred"] /\ disk'["plain"] = disk["plain"]
        BY <3>3, <1>3
      <4> QED
        BY <3>1, <4>1, <2>2, <2>3 DEF PasswordSurvives
    <3> QED
      BY <3>2, <3>3
  <2>4. CASE Rewriting(w)
    BY <2>1, <2>3, <2>4
  <2>5. ASSUME NEW v \in Wizard, v # w, Rewriting(v), wizard[v].password = wallet.password
        PROVE  PasswordSurvives'
    <3>1. Rewriting(v)' /\ wizard'[v].password = wallet'.password
      BY <2>5, <1>1, <1>4, <1>6 DEF Rewriting
    <3>2. wallet' # NoWallet
      BY <2>1, <1>1 DEF TillInv, PromiseOK
    <3> QED
      BY <3>1, <3>2 DEF PasswordSurvives
  <2> QED
    BY <2>1, <2>2, <2>3, <2>4, <2>5 DEF TillInv, PasswordSurvives
<1>9. LastOK' /\ OneShape'
  <2>1. last # NULL => disk' = disk
    BY <1>3 DEF TillInv, RunsOK, RunOK
  <2> QED
    BY <2>1, <1>1 DEF TillInv, LastOK, OneShape
<1>10. IdentityOK' /\ ServiceOK' /\ SealedStarts'
  BY <1>1, ServiceStays
<1> QED
  BY <1>5, <1>7, <1>8, <1>9, <1>10 DEF TillInv

LEMMA EndOfRunHolds == \A w \in Wizard : TillInv /\ EndOfRun(w) => TillInv'
<1> SUFFICES ASSUME NEW w \in Wizard, TillInv, EndOfRun(w) PROVE TillInv'
  OBVIOUS
<1> DEFINE shape == wizard[w].shape
<1>1. /\ Writing(w) /\ ~More(w)
      /\ disk' = [disk EXCEPT !["env"] = EnvPath[shape]]
      /\ wizard' = [wizard EXCEPT ![w] = Idle]
      /\ wallet' = wallet /\ runs' = runs
      /\ last' = IF wizard[w].alone THEN shape ELSE NULL
      /\ promised' = IF wizard[w].alone THEN shape # "manual" ELSE promised
      /\ identity' = identity /\ runtime' = runtime /\ advertised' = advertised
  BY DEF EndOfRun, Finish
<1>2. /\ RunOK(w) /\ wallet # NoWallet /\ wallet.password \in Password
      /\ wizard[w].password = wallet.password
      /\ shape \in Shape /\ last = NULL /\ wizard[w].alone \in BOOLEAN
  BY <1>1, NoSuchWallet, RunTyped DEF TillInv, TypeOK, RunsOK, RunOK, Writing
<1>3. wizard[w].step = Length(shape) + 1 /\ Length(shape) \in {3, 4, 5}
  <2>1. wizard[w].step \notin 1..Length(shape)
    BY <1>1, <1>2, Scripts DEF More
  <2>2. wizard[w].step \in 1..Length(shape) + 1
    BY <1>1, <1>2 DEF RunOK
  <2>3. Length(shape) \in {3, 4, 5}
    BY <1>2 DEF Length, Shape
  <2> QED
    BY <2>1, <2>2, <2>3
<1>4. /\ DiskTypeOK' /\ disk'["env"] = EnvPath[shape]
      /\ \A file \in {"plain", "cred", "encrypted", "manual"} : disk'[file] = disk[file]
  <2>1. EnvPath[shape] \in {"credential", "plaintext", "runtime"}
    BY <1>2, EnvPaths
  <2> QED
    BY <2>1, <1>1 DEF TillInv, TypeOK, DiskTypeOK, Contents, File
<1> HIDE DEF shape
<1>5. wizard'[w] = Idle /\ \A v \in Wizard : v # w => wizard'[v] = wizard[v]
  BY <1>1 DEF TillInv, TypeOK
<1>6. ~Writing(w)' /\ \A v \in Wizard : v # w => (Writing(v)' <=> Writing(v))
  BY <1>5 DEF Writing, Idle
<1>7. service' = service
      \/ \E secret \in Password : service' = Booting(secret, NULL)
  <2>1. WrittenSecret(w) \in Password \cup {NULL, TORN}
    BY <1>2 DEF WrittenSecret, TillInv, TypeOK, DiskTypeOK, Shape, shape
  <2>2. CASE service' = service
    BY <2>2
  <2>3. CASE Secret(WrittenSecret(w)) # NULL /\ service' = Booting(WrittenSecret(w), NULL)
    BY <2>1, <2>3, Distinct DEF Secret
  <2> QED
    BY <2>2, <2>3 DEF EndOfRun
<1>8. service' \in Services
  BY <1>7, BootingTyped DEF TillInv, TypeOK
<1>9. TypeOK'
  <2>1. wizard' \in [Wizard -> Wizards]
    BY <1>1, IdleTyped DEF TillInv, TypeOK
  <2>2. promised' \in BOOLEAN
    <3>1. (shape # "manual") \in BOOLEAN
      BY Zenon
    <3>2. promised \in BOOLEAN
      BY DEF TillInv, TypeOK
    <3> QED
      BY <1>1, <3>1, <3>2, Zenon
  <2>3. last' \in Shape \cup {NULL}
    BY <1>1, <1>2
  <2> QED
    BY <2>1, <2>2, <2>3, <1>1, <1>4, <1>8 DEF TillInv, TypeOK
<1>10. RunsOK'
  <2>1. RunOK(w)'
    BY <1>5 DEF RunOK, Writing, Idle
  <2>2. ASSUME NEW v \in Wizard, v # w PROVE RunOK(v)'
    <3>1. Writing(v) => last' = NULL
      BY <2>2, <1>1, <1>2 DEF RunOK
    <3> QED
      BY <2>2, <3>1, <1>1, <1>5, <1>6, OtherRuns
  <2> QED
    BY <2>1, <2>2 DEF RunsOK
<1>11. wizard[w].alone => disk' = Layout(shape, wallet.password)
  <2> SUFFICES ASSUME wizard[w].alone PROVE disk' = Layout(shape, wallet.password)
    OBVIOUS
  <2>1. Done(shape, Length(shape) + 1)
    BY <1>2, <1>3 DEF RunOK, shape
  <2>2. /\ shape = "sealed" => /\ disk["cred"] = wallet.password
                               /\ disk["encrypted"] = "dropin"
                               /\ disk["plain"] = NULL /\ disk["manual"] = NULL
        /\ shape = "plaintext" => /\ disk["plain"] = wallet.password
                                  /\ disk["cred"] = NULL
                                  /\ disk["encrypted"] = NULL /\ disk["manual"] = NULL
        /\ shape = "manual" => /\ disk["manual"] = "dropin"
                               /\ disk["plain"] = NULL
                               /\ disk["cred"] = NULL /\ disk["encrypted"] = NULL
    <3>1. CASE shape = "sealed"
      <4>1. Done("sealed", 4)
        BY <2>1, <3>1 DEF Length
      <4> QED
        BY <4>1, <3>1 DEF Done
    <3>2. CASE shape = "plaintext"
      <4>1. Done("plaintext", 6)
        BY <2>1, <3>2 DEF Length
      <4> QED
        BY <4>1, <3>2 DEF Done
    <3>3. CASE shape = "manual"
      <4>1. Done("manual", 5)
        BY <2>1, <3>3 DEF Length
      <4> QED
        BY <4>1, <3>3 DEF Done
    <3> QED
      BY <1>2, <3>1, <3>2, <3>3 DEF Shape
  <2>3. \A file \in File : disk'[file] = Layout(shape, wallet.password)[file]
    BY <2>2, <1>2, <1>4 DEF Layout, File, Shape
  <2>4. disk' = [file \in File |-> disk'[file]]
    BY <1>4 DEF DiskTypeOK
  <2> QED
    BY <2>3, <2>4 DEF Layout
<1>12. LastOK' /\ OneShape'
  BY <1>1, <1>2, <1>11, Distinct DEF LastOK, OneShape
<1>13. PromiseOK' /\ PasswordSurvives'
  <2> SUFFICES ASSUME promised' PROVE PromiseOK' /\ PasswordSurvives'
    BY DEF PromiseOK, PasswordSurvives
  <2>1. CASE wizard[w].alone
    <3>1. shape # "manual"
      BY <2>1, <1>1
    <3>2. \A v \in Wizard : ~Writing(v)'
      BY <2>1, <1>2, <1>6 DEF RunOK
    <3>3. wallet.password \in {disk'["plain"], disk'["cred"]}
      BY <2>1, <3>1, <1>2, <1>11 DEF Layout, File, Shape
    <3> QED
      BY <3>2, <3>3, <1>1, <1>2 DEF PromiseOK, PasswordSurvives
  <2>2. CASE ~wizard[w].alone
    BY <2>2, <1>1 DEF TillInv, PromiseOK
  <2> QED
    BY <2>1, <2>2
<1>14. IdentityOK'
  BY <1>1 DEF TillInv, IdentityOK
<1>15. ServiceOK' /\ SealedStarts'
  <2>1. CASE service' = service
    BY <2>1, <1>1 DEF TillInv, ServiceOK, SealedStarts
  <2>2. ASSUME NEW secret \in Password, service' = Booting(secret, NULL)
        PROVE  ServiceOK' /\ SealedStarts'
    <3>1. /\ service'.at \in {"opening", "exited"} /\ service'.password = secret
          /\ service'.shape = NULL
      BY <2>2, BootingTyped
    <3> QED
      BY <3>1, Distinct DEF ServiceOK, SealedStarts, Shape
  <2> QED
    BY <1>7, <2>1, <2>2
<1> QED
  BY <1>9, <1>10, <1>12, <1>13, <1>14, <1>15 DEF TillInv

-----------------------------------------------------------------------------
(* The theorems.                                                           *)

LEMMA StepHolds == TillInv /\ [Next]_vars => TillInv'
<1> SUFFICES ASSUME TillInv, [Next]_vars PROVE TillInv'
  OBVIOUS
<1>1. CASE SetupStep
  BY <1>1, BeginHolds, AskHolds, OpenHolds, PersistHolds, WriteHolds, AbortHolds DEF SetupStep
<1>2. CASE \E w \in Wizard : EndOfRun(w)
  BY <1>2, EndOfRunHolds
<1>3. CASE StartService \/ OpenWallet \/ LoadIdentity \/ SaveIdentity \/ StopService
  BY <1>3, StartServiceHolds, OpenWalletHolds, LoadIdentityHolds, SaveIdentityHolds,
     StopServiceHolds
<1>4. CASE \E key \in Key : CreateIdentity(key)
  BY <1>4, CreateIdentityHolds
<1>5. CASE (\E password \in Password : FillRuntime(password)) \/ Reboot
  BY <1>5, HostHolds
<1>6. CASE Wipe
  BY <1>6, WipeHolds
<1>7. CASE UNCHANGED vars
  <2>1. UNCHANGED setupVars /\ UNCHANGED serviceVars
    BY <1>7 DEF vars
  <2>2. TypeOK'
    BY <2>1, SetupStays DEF TillInv, TypeOK, serviceVars
  <2>3. RunsOK' /\ PromiseOK' /\ PasswordSurvives' /\ LastOK' /\ OneShape'
    BY <2>1, SetupStays
  <2>4. IdentityOK' /\ ServiceOK' /\ SealedStarts'
    BY <2>1, ServiceStays DEF setupVars
  <2> QED
    BY <2>2, <2>3, <2>4 DEF TillInv
<1> QED
  BY <1>1, <1>2, <1>3, <1>4, <1>5, <1>6, <1>7 DEF Next

LEMMA Invariant == Spec => []TillInv
<1>1. TillInit => TillInv
  BY InitHolds
<1>2. TillInv /\ [Next]_vars => TillInv'
  BY StepHolds
<1> QED
  BY <1>1, <1>2, PTL DEF Spec

\* No process ever takes an empty file for the wallet password, however many
\* runs and starts there are.
THEOREM TillTyped == Spec => []TypeOK
<1>1. TillInv => TypeOK
  BY DEF TillInv
<1> QED
  BY <1>1, Invariant, PTL

\* A run that nobody overlapped leaves the files of one shape and no other,
\* whatever was cut short before it.
THEOREM ShapeIsOne == Spec => []OneShape
<1>1. TillInv => OneShape
  BY DEF TillInv
<1> QED
  BY <1>1, Invariant, PTL

\* An unattended till keeps a record of its password through every later
\* unattended run.
THEOREM PasswordIsKept == Spec => []PasswordSurvives
<1>1. TillInv => PasswordSurvives
  BY DEF TillInv
<1> QED
  BY <1>1, Invariant, PTL

\* A start of a till that was left sealed never ends in an error.
THEOREM SealedTillStarts == Spec => []SealedStarts
<1>1. TillInv => SealedStarts
  BY DEF TillInv
<1> QED
  BY <1>1, Invariant, PTL

\* The advertised key is the one in the identity file, under the password of
\* the wallet.
THEOREM IdentityIsKept == Spec => []IdentityStands
<1>1. TillInv => IdentityStands
  <2> SUFFICES ASSUME TillInv, advertised # NULL PROVE IdentityStands
    BY DEF IdentityStands
  <2>1. /\ identity \in [key : Key \cup {NULL, TORN}, password : Password \cup {NULL}]
        /\ advertised \in Key /\ identity.key = advertised
        /\ identity.password = wallet.password
    BY DEF TillInv, TypeOK, IdentityOK
  <2>2. identity = [key |-> identity.key, password |-> identity.password]
    BY <2>1
  <2> QED
    BY <2>1, <2>2 DEF IdentityStands
<1> QED
  BY <1>1, Invariant, PTL

\* Only the operator makes room for another seed: no step replaces one.
THEOREM SeedStays == Spec => SeedIsKept
<1>1. TillInv /\ [Next]_vars =>
        [wallet' = wallet \/ wallet = NoWallet \/ wallet' = NoWallet]_vars
  <2> SUFFICES ASSUME TillInv, Next
               PROVE  wallet' = wallet \/ wallet = NoWallet \/ wallet' = NoWallet
    OBVIOUS
  <2>1. CASE SetupStep
    BY <2>1, Opened DEF SetupStep, Begin, Ask, Persist, Write, Abort
  <2>2. CASE \E w \in Wizard : EndOfRun(w)
    BY <2>2 DEF EndOfRun, Finish
  <2>3. CASE StartService \/ OpenWallet \/ LoadIdentity \/ SaveIdentity \/ StopService
    BY <2>3 DEF StartService, OpenWallet, LoadIdentity, SaveIdentity, StopService, setupVars
  <2>4. CASE \E key \in Key : CreateIdentity(key)
    BY <2>4 DEF CreateIdentity, setupVars
  <2>5. CASE (\E password \in Password : FillRuntime(password)) \/ Reboot \/ Wipe
    BY <2>5 DEF FillRuntime, Reboot, Wipe, setupVars
  <2> QED
    BY <2>1, <2>2, <2>3, <2>4, <2>5 DEF Next
<1> QED
  BY <1>1, Invariant, PTL DEF Spec, SeedIsKept

=============================================================================
