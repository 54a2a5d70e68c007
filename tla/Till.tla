-------------------------------- MODULE Till --------------------------------
(***************************************************************************)
(* The till over its life: runs of the wizard (Setup) and starts of the    *)
(* service over the files they leave, with crashes of both, reboots, and   *)
(* the operator who starts over from a seed.  A start reads the secret the *)
(* unit and the env file lead it to, opens the wallet, and then loads its  *)
(* Nostr identity or makes one (gp-server::main, gp-core::config,          *)
(* gp-nostr::identity).                                                    *)
(***************************************************************************)
EXTENDS Setup

CONSTANTS Key   \* Nostr keys

VARIABLES
    identity,   \* identity.json: its key, TORN or NULL, and its password
    runtime,    \* /run/goblinpay/wallet_password, which the operator fills
    service,    \* the gp-server process
    advertised  \* history: the key the till has told payers

serviceVars == <<identity, runtime, service, advertised>>
vars == <<setupVars, serviceVars>>

ASSUME TillAssumption == {NULL, TORN} \cap Key = {}

NoIdentity == [key |-> NULL, password |-> NULL]
Stopped == [at |-> "stopped", password |-> NULL, key |-> NULL, shape |-> NULL]

Up == [Stopped EXCEPT !.at = "up"]

TillInit ==
    /\ Init
    /\ identity = NoIdentity
    /\ runtime = NULL
    /\ service = Stopped
    /\ advertised = NULL

-----------------------------------------------------------------------------
(* Starting the service.                                                   *)

\* The credential systemd delivers: manual.conf is read after encrypted.conf, and
\* each resets what was set before it.
Delivered ==
    IF disk["manual"] = "dropin" THEN runtime
    ELSE IF disk["encrypted"] = "dropin" THEN disk["cred"]
    ELSE disk["plain"]

\* Mutant: an empty credential file is a password.
SecretEvenEmpty(contents) == contents
\* secret, on the file it could read; an empty one is an error, told by NULL.
Secret(contents) == IF contents = TORN THEN NULL ELSE contents

\* GP_WALLET_PASSWORD_FILE as a start finds it: EnvironmentFile= wins over the
\* unit's Environment=, a torn env file may have lost the line, and the
\* DynamicUser reads neither the secrets directory nor /run/goblinpay.
Secrets ==
    CASE disk["env"] = "credential" -> {Secret(Delivered)}
      [] disk["env"] = TORN         -> {Secret(Delivered), NULL}
      [] OTHER                      -> {NULL}

Booting(secret, shape) ==
    [at       |-> IF secret = NULL THEN "exited" ELSE "opening",
     password |-> secret,
     key      |-> NULL,
     shape    |-> shape]

\* systemctl start, a boot of the host, or Restart=on-failure.
StartService ==
    /\ service.at \in {"stopped", "exited"}
    /\ disk["env"] # NULL /\ Delivered # NULL
    /\ \E secret \in Secrets : service' = Booting(secret, last)
    /\ UNCHANGED <<setupVars, identity, runtime, advertised>>

\* config_from_written_env, read by root in the process that ran the wizard.
WrittenSecret(w) ==
    CASE wizard[w].shape = "sealed"    -> NULL
      [] wizard[w].shape = "plaintext" -> disk["plain"]
      [] wizard[w].shape = "manual"    -> runtime

\* The end of a run; a bare `gp-server` goes on to boot from what it wrote, or
\* says how to start the service and exits.
EndOfRun(w) ==
    /\ Finish(w)
    /\ IF /\ wizard[w].bare
          /\ service.at \in {"stopped", "exited"}
          /\ Secret(WrittenSecret(w)) # NULL
       THEN service' = Booting(WrittenSecret(w), NULL)
       ELSE UNCHANGED service
    /\ UNCHANGED <<identity, runtime, advertised>>

\* Mutant: the identity is resolved before the wallet is opened.
OpenWalletLater ==
    /\ service.at = "opening"
    /\ service' = [service EXCEPT !.at = "identifying"]
    /\ UNCHANGED <<setupVars, identity, runtime, advertised>>

\* start_ingest: the wallet first; an error of it ends the process.
OpenWallet ==
    /\ service.at = "opening"
    /\ service' = [service EXCEPT !.at =
                     IF OpenAt(wallet, NULL, service.password, wallet) THEN "identifying"
                     ELSE "exited"]
    /\ UNCHANGED <<setupVars, identity, runtime, advertised>>

\* load_or_create: a file that parses is unlocked, and anything else is taken for
\* no identity at all.
LoadIdentity ==
    /\ service.at = "identifying" /\ identity.key \in Key
    /\ IF identity.password = service.password
       THEN /\ service' = Up
            /\ advertised' = identity.key
       ELSE /\ service' = [service EXCEPT !.at = "exited"]
            /\ UNCHANGED advertised
    /\ UNCHANGED <<setupVars, identity, runtime>>

\* Mutant: every start makes an identity.
CreateIdentityAnew(key) ==
    /\ service.at = "identifying"
    /\ service' = [service EXCEPT !.at = "saving", !.key = key]
    /\ UNCHANGED <<setupVars, identity, runtime, advertised>>

CreateIdentity(key) ==
    /\ service.at = "identifying" /\ identity.key \notin Key
    /\ service' = [service EXCEPT !.at = "saving", !.key = key]
    /\ UNCHANGED <<setupVars, identity, runtime, advertised>>

\* save, and only then the key is printed, watched and shown to payers.
SaveIdentity ==
    /\ service.at = "saving"
    /\ identity' = [key |-> service.key, password |-> service.password]
    /\ service' = Up
    /\ advertised' = service.key
    /\ UNCHANGED <<setupVars, runtime>>

\* A stop, a kill or a crash; one in the middle of save leaves an empty file.
StopService ==
    /\ service.at # "stopped"
    /\ service' = Stopped
    /\ \/ UNCHANGED identity
       \/ service.at = "saving" /\ identity' = [key |-> TORN, password |-> NULL]
    /\ UNCHANGED <<setupVars, runtime, advertised>>

-----------------------------------------------------------------------------
(* The operator and the host.                                              *)

\* The step manual.conf and the last screen ask for before each start.
FillRuntime(password) ==
    /\ disk["manual"] # NULL
    /\ runtime' = password
    /\ UNCHANGED <<setupVars, identity, service, advertised>>

\* /run is a tmpfs; what ran has been stopped.
Reboot ==
    /\ service.at = "stopped" /\ \A w \in Wizard : wizard[w].at = "idle"
    /\ runtime' = NULL
    /\ UNCHANGED <<setupVars, identity, service, advertised>>

\* Restoring a till from a seed: the operator removes the data directory.
Wipe ==
    /\ service.at = "stopped" /\ \A w \in Wizard : wizard[w].at = "idle"
    /\ wallet' = NoWallet /\ identity' = NoIdentity
    /\ last' = NULL /\ promised' = FALSE /\ advertised' = NULL
    /\ UNCHANGED <<disk, wizard, runs, runtime, service>>

-----------------------------------------------------------------------------

SetupStep ==
    /\ \E w \in Wizard :
        \/ \E options \in Options : Begin(w, options)
        \/ \E answers \in Answers : Ask(w, answers)
        \/ Open(w)
        \/ \E shape \in Shape : Persist(w, shape)
        \/ Write(w)
        \/ Abort(w)
    /\ UNCHANGED serviceVars

Next ==
    \/ SetupStep
    \/ \E w \in Wizard : EndOfRun(w)
    \/ StartService \/ OpenWallet \/ LoadIdentity \/ SaveIdentity \/ StopService
    \/ \E key \in Key : CreateIdentity(key)
    \/ \E password \in Password : FillRuntime(password)
    \/ Reboot \/ Wipe

Spec == TillInit /\ [][Next]_vars

=============================================================================
