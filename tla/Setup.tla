------------------------------- MODULE Setup --------------------------------
(***************************************************************************)
(* `gp-server setup` and what it leaves on disk (gp-server::setup,         *)
(* gp-core::setup, gp-wallet's open_at): the encrypted seed, the wallet    *)
(* password in one of three shapes, the unit's drop-ins and the env file.  *)
(* A run checks what is there, asks its questions, opens or creates the    *)
(* wallet, and changes the files one system call at a time; nothing locks  *)
(* them, so runs may overlap, and each may end at any step, by an error    *)
(* return as well as by a kill.                                            *)
(***************************************************************************)
EXTENDS Naturals, Sequences

CONSTANTS
    Wizard,   \* processes that run `gp-server setup`
    Words,    \* mnemonics
    Password, \* what an operator may type
    NULL,     \* an absent file, an unset value
    TORN,     \* a file that was created and not written
    MaxRuns   \* bound: runs of the wizard

VARIABLES
    wallet,   \* the seed at rest: its words and the password it opens with
    disk,     \* the other files: contents, NULL when absent
    wizard,   \* the run of each process
    runs,     \* how many runs there have been
    last,     \* history: the shape left by the last run, NULL once another writes
    promised  \* history: an unattended run has said the till restarts by itself

setupVars == <<wallet, disk, wizard, runs, last, promised>>

ASSUME SetupAssumption ==
    /\ NULL \notin Words \cup Password
    /\ TORN \notin Words \cup Password \cup {NULL}
    /\ {NULL, TORN} \cap {"dropin", "sealed", "plaintext", "manual", "credential", "runtime"} = {}
    /\ MaxRuns \in Nat

NoWallet == [words |-> NULL, password |-> NULL]

\* The till is told how to restart; unattended, it depends on systemd-creds
\* whether the password is sealed or left in the 0400 file.
Mode == {"unattended", "manual"}
Shape == {"sealed", "plaintext", "manual"}
ShapesOf(mode) == IF mode = "manual" THEN {"manual"} ELSE {"sealed", "plaintext"}

\* Paths: wallet_password, wallet_password.cred, encrypted.conf, manual.conf and
\* goblinpay.env, of which GP_WALLET_PASSWORD_FILE matters here.
File == {"plain", "cred", "encrypted", "manual", "env"}
EnvPath == [sealed |-> "credential", plaintext |-> "plaintext", manual |-> "runtime"]

-----------------------------------------------------------------------------
(* Opening the wallet.                                                     *)

\* Mutant: a run that holds a mnemonic creates the wallet it has planned.
OpenAtAsPlanned(held, words, password, opened) ==
    \/ /\ words = NULL
       /\ held.password = password
       /\ opened = held
    \/ /\ words # NULL
       /\ opened = [words |-> words, password |-> password]

\* open_at, of the wallet it finds and the one it leaves; it refuses where no
\* disjunct holds.  A seed that is there is only ever opened, and a mnemonic
\* only compared with it.
OpenAt(held, words, password, opened) ==
    \/ /\ held # NoWallet
       /\ held.password = password
       /\ words \in {NULL, held.words}
       /\ opened = held
    \/ /\ held = NoWallet
       /\ words # NULL
       /\ opened = [words |-> words, password |-> password]

-----------------------------------------------------------------------------
(* Where the password goes.                                                *)

\* apply_restart_persistence after the seal: the file operations of each shape,
\* in order, each a file and its contents.

\* Mutant: the sealed shape does not clear the drop-in of the manual one.
SealedScriptKeepsManual == << <<"encrypted", "dropin">>, <<"plain", NULL>> >>
SealedScript == << <<"encrypted", "dropin">>, <<"plain", NULL>>, <<"manual", NULL>> >>

\* Mutant: the fallback clears the sealed shape before it writes its own.
PlaintextScriptClearsFirst(password) ==
    << <<"plain", NULL>>, <<"cred", NULL>>, <<"encrypted", NULL>>, <<"manual", NULL>>,
       <<"plain", password>> >>
\* write_secret_file removes the file before it writes it.
PlaintextScript(password) ==
    << <<"plain", NULL>>, <<"plain", password>>, <<"cred", NULL>>, <<"encrypted", NULL>>,
       <<"manual", NULL>> >>

ManualScript ==
    << <<"manual", "dropin">>, <<"plain", NULL>>, <<"cred", NULL>>, <<"encrypted", NULL>> >>

Script(shape, password) ==
    CASE shape = "sealed"    -> SealedScript
      [] shape = "plaintext" -> PlaintextScript(password)
      [] shape = "manual"    -> ManualScript

\* What a run that nobody disturbed leaves.
Layout(shape, password) ==
    [file \in File |->
        CASE file = "plain"     -> IF shape = "plaintext" THEN password ELSE NULL
          [] file = "cred"      -> IF shape = "sealed" THEN password ELSE NULL
          [] file = "encrypted" -> IF shape = "sealed" THEN "dropin" ELSE NULL
          [] file = "manual"    -> IF shape = "manual" THEN "dropin" ELSE NULL
          [] file = "env"       -> EnvPath[shape]]

-----------------------------------------------------------------------------
(* One run of the wizard.                                                  *)

Idle == [at |-> "idle", bare |-> FALSE, existing |-> FALSE, words |-> NULL, password |-> NULL,
         mode |-> "unattended", shape |-> "sealed", step |-> 0, alone |-> FALSE]

Writing(w) == wizard[w].at = "writing"

\* The window of write_secret_file in which the only plaintext copy is in memory.
Rewriting(w) == Writing(w) /\ wizard[w].shape = "plaintext" /\ wizard[w].step = 2

Init ==
    /\ wallet = NoWallet
    /\ disk = [file \in File |-> NULL]
    /\ wizard = [w \in Wizard |-> Idle]
    /\ runs = 0
    /\ last = NULL
    /\ promised = FALSE

\* How a run is launched: a bare `gp-server` on a terminal, or `gp-server setup`
\* with or without --reconfigure.
Options == {o \in [bare : BOOLEAN, reconfigure : BOOLEAN] : o.bare => ~o.reconfigure}

\* A run that is not told to reconfigure wants nothing there, and so does the
\* offer of the wizard to a bare `gp-server` (needs_first_run_setup).
Admitted(options) ==
    options.reconfigure \/ (wallet = NoWallet /\ disk["env"] = NULL)

\* What the questions about a wallet end with: a password that is not empty, for
\* a new wallet typed twice, and a seed whose backup the operator has confirmed.
Answers == [words : Words, password : Password, restart : Mode \cup {"enter"}]

\* Enter at the restart question takes the mode a till is in, which only
\* manual.conf tells, or for a new till unattended.
CurrentMode == IF disk["manual"] # NULL THEN "manual" ELSE "unattended"
ModeOf(restart) ==
    IF restart # "enter" THEN restart
    ELSE IF wallet # NoWallet THEN CurrentMode ELSE "unattended"

\* The checks, and the questions about addresses and the node.
Begin(w, options) ==
    /\ wizard[w].at = "idle" /\ runs < MaxRuns
    /\ Admitted(options)
    /\ runs' = runs + 1
    /\ wizard' = [wizard EXCEPT ![w] = [Idle EXCEPT !.at = "asking", !.bare = options.bare]]
    /\ UNCHANGED <<wallet, disk, last, promised>>

\* Only now does the run look whether it is to keep a wallet, and asks for the
\* rest; one that was let in because there was none may find one.
Ask(w, answers) ==
    /\ wizard[w].at = "asking"
    /\ wizard' = [wizard EXCEPT ![w] =
                    [Idle EXCEPT !.at = "opening",
                                 !.bare = wizard[w].bare,
                                 !.existing = wallet # NoWallet,
                                 !.words = IF wallet # NoWallet THEN NULL ELSE answers.words,
                                 !.password = answers.password,
                                 !.mode = ModeOf(answers.restart)]]
    /\ UNCHANGED <<wallet, disk, runs, last, promised>>

\* A reconfigure takes the password of the 0400 file when there is one, and
\* asks for it only when there is none.
OpeningPassword(w) ==
    IF wizard[w].existing /\ disk["plain"] # NULL THEN disk["plain"] ELSE wizard[w].password

Open(w) ==
    /\ wizard[w].at = "opening"
    /\ OpenAt(wallet, wizard[w].words, OpeningPassword(w), wallet')
    /\ wizard' = [wizard EXCEPT ![w] =
                    [Idle EXCEPT !.at = "sealing",
                                 !.bare = wizard[w].bare,
                                 !.password = OpeningPassword(w),
                                 !.mode = wizard[w].mode]]
    /\ UNCHANGED <<disk, runs, last, promised>>

\* Sealing writes the credential at once; from here on the run changes files, and
\* a run that finds or meets another that does can promise nothing.
Persist(w, shape) ==
    LET alone == \A v \in Wizard : ~Writing(v) IN
    /\ wizard[w].at = "sealing"
    /\ shape \in ShapesOf(wizard[w].mode)
    /\ disk' = IF shape = "sealed" THEN [disk EXCEPT !["cred"] = wizard[w].password] ELSE disk
    /\ wizard' = [v \in Wizard |->
                    IF v = w
                    THEN [Idle EXCEPT !.at = "writing",
                                      !.bare = wizard[w].bare,
                                      !.password = wizard[w].password,
                                      !.shape = shape,
                                      !.step = 1,
                                      !.alone = alone]
                    ELSE [wizard[v] EXCEPT !.alone = FALSE]]
    /\ last' = NULL
    /\ promised' = (promised /\ alone /\ shape # "manual")
    /\ UNCHANGED <<wallet, runs>>

Operation(w) == Script(wizard[w].shape, wizard[w].password)[wizard[w].step]
More(w) == wizard[w].step \in DOMAIN Script(wizard[w].shape, wizard[w].password)

Write(w) ==
    /\ Writing(w) /\ More(w)
    /\ disk' = [disk EXCEPT ![Operation(w)[1]] = Operation(w)[2]]
    /\ wizard' = [wizard EXCEPT ![w].step = @ + 1]
    /\ UNCHANGED <<wallet, runs, last, promised>>

\* The env file names the password's path and ends the run.
Finish(w) ==
    /\ Writing(w) /\ ~More(w)
    /\ disk' = [disk EXCEPT !["env"] = EnvPath[wizard[w].shape]]
    /\ wizard' = [wizard EXCEPT ![w] = Idle]
    /\ last' = IF wizard[w].alone THEN wizard[w].shape ELSE NULL
    /\ promised' = IF wizard[w].alone THEN wizard[w].shape # "manual" ELSE promised
    /\ UNCHANGED <<wallet, runs>>

\* The file the run was about to write, if its next operation is a write.
Torn(w) ==
    IF ~Writing(w) THEN {}
    ELSE IF ~More(w) THEN {"env"}
    ELSE {file \in {Operation(w)[1]} : Operation(w)[2] # NULL}

\* An error return, a refused password, an end of input or a kill.  Written over
\* in place, the file at hand may be left empty; a rewrite that is cut short may
\* have held the last copy of the password.
Abort(w) ==
    /\ wizard[w].at # "idle"
    /\ \/ UNCHANGED disk
       \/ \E file \in Torn(w) : disk' = [disk EXCEPT ![file] = TORN]
    /\ wizard' = [wizard EXCEPT ![w] = Idle]
    /\ promised' = (promised /\ (Rewriting(w) => disk["cred"] = wallet.password))
    /\ UNCHANGED <<wallet, runs, last>>

=============================================================================
