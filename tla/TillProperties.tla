--------------------------- MODULE TillProperties ---------------------------
(***************************************************************************)
(* What the operator of a till counts on.                                  *)
(***************************************************************************)
EXTENDS Till

Wizards ==
    [at       : {"idle", "asking", "opening", "sealing", "writing"},
     bare     : BOOLEAN,
     existing : BOOLEAN,
     words    : Words \cup {NULL},
     password : Password \cup {NULL},
     mode     : Mode,
     shape    : Shape,
     step     : 0..6,
     alone    : BOOLEAN]

Services ==
    [at       : {"stopped", "opening", "identifying", "saving", "up", "exited"},
     password : Password \cup {NULL},
     key      : Key \cup {NULL},
     shape    : Shape \cup {NULL}]

Contents ==
    Password \cup {NULL, TORN, "dropin", "credential", "plaintext", "runtime"}

DiskTypeOK ==
    /\ disk \in [File -> Contents]
    /\ disk["plain"] \in Password \cup {NULL, TORN}
    /\ disk["cred"] \in Password \cup {NULL}
    /\ disk["encrypted"] \in {NULL, TORN, "dropin"}
    /\ disk["manual"] \in {NULL, TORN, "dropin"}
    /\ disk["env"] \in {NULL, TORN, "credential", "plaintext", "runtime"}

\* Types.  The part that can go wrong: no process ever takes an empty file for
\* the wallet password.
TypeOK ==
    /\ wallet \in [words : Words, password : Password] \cup {NoWallet}
    /\ DiskTypeOK
    /\ wizard \in [Wizard -> Wizards]
    /\ runs \in 0..MaxRuns
    /\ last \in Shape \cup {NULL}
    /\ promised \in BOOLEAN
    /\ identity \in [key : Key \cup {NULL, TORN}, password : Password \cup {NULL}]
    /\ runtime \in Password \cup {NULL}
    /\ service \in Services
    /\ advertised \in Key \cup {NULL}

\* A seed that is at rest is never replaced, though a run decides at its first
\* question whether there is one and creates it many questions later, and
\* another run, or another terminal, may have created it in between: only the
\* operator, by removing the data directory, makes room for another
\* (setup.rs run, lib.rs open_at).
SeedIsKept == [][wallet' = wallet \/ wallet = NoWallet \/ wallet' = NoWallet]_vars

\* After a run that no other run overlapped the files are those of one shape and
\* of no other, with the password that opens the wallet, whatever earlier runs
\* were cut short where (apply_restart_persistence, write_env_file).
OneShape == last # NULL => disk = Layout(last, wallet.password)

\* Once an unattended run has told the operator that the till restarts by itself,
\* some record on disk holds the password of its wallet, through every later
\* unattended run, finished or not.  The exception is a run that rewrites the
\* only plaintext record: it is off the disk while it is rewritten, and a run
\* that ends right there has broken the promise (apply_restart_persistence,
\* write_secret_file).
PasswordSurvives ==
    promised =>
        /\ wallet # NoWallet
        /\ \/ wallet.password \in {disk["plain"], disk["cred"]}
           \/ \E w \in Wizard : Rewriting(w) /\ wizard[w].password = wallet.password

\* A till whose last run sealed its password starts without anybody's help: a
\* start of it never ends in an error, whatever wallets, passwords and
\* identities the host held before (main.rs start_ingest, identity.rs).
SealedStarts == service.at = "exited" => service.shape # "sealed"

\* The key that payers were told stays the till's key: the identity file holds
\* it, under the password of the wallet (identity.rs load_or_create).
IdentityStands ==
    advertised # NULL => identity = [key |-> advertised, password |-> wallet.password]

=============================================================================
