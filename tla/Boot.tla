-------------------------------- MODULE Boot ---------------------------------
(***************************************************************************)
(* The API process: the secret it works with (env.ts), the provider keys   *)
(* it resolves once at start (server.ts), the settings and channel configs *)
(* sealed with the secret while it serves (settings.ts, channels.ts), the  *)
(* publish worker that opens them (publish-job.ts), and its shutdown.      *)
(*                                                                         *)
(* A secret is read three times: loadEnv's memo, taken when queue.ts is    *)
(* imported, .env.local, which only ensureSecretKey reads and writes, and  *)
(* process.env, which ensureSecretKey overwrites.                          *)
(***************************************************************************)
EXTENDS Integers

CONSTANTS
    Secrets,        \* values of JHEO_SECRET_KEY an operator sets
    Generated,      \* the key of randomBytes(32)
    NoSecret,
    Keys,           \* provider keys a user saves
    MaxBoots,       \* bound: starts of the process
    MaxBootOps      \* bound: settings and channels saved, secrets set, containers replaced

VARIABLES
    dotenv,     \* JHEO_SECRET_KEY of the environment or .env
    envLocal,   \* the key in .env.local
    proc,       \* the process
    setting,    \* the Setting row of the provider, and the environment it was saved in
    sealedChannel, \* DistributionChannel.configEncrypted: what it is sealed with, and where
    bootUsed    \* what of the bounds is used

bootVars == <<dotenv, envLocal, proc, setting, sealedChannel, bootUsed>>

NoSetting == [key |-> "none", sealed |-> NoSecret, in |-> NoSecret]
NoChannel == [sealed |-> NoSecret, in |-> NoSecret]
Down == [pc |-> "down", memo |-> NoSecret, processEnv |-> NoSecret, fresh |-> FALSE, key |-> "none"]
Known == Secrets \cup {Generated, NoSecret}

BootInit ==
    /\ dotenv \in Secrets \cup {NoSecret}
    /\ envLocal = NoSecret
    /\ proc = Down
    /\ setting = NoSetting /\ sealedChannel = NoChannel
    /\ bootUsed = [boots |-> 0, ops |-> 0]

Spend == bootUsed.ops < MaxBootOps /\ bootUsed' = [bootUsed EXCEPT !.ops = @ + 1]

-----------------------------------------------------------------------------
(* Start and end *)

\* The operator changes the secret, or replaces the container and with it the
\* working directory.
Reconfigure ==
    /\ proc.pc \in {"down", "refused"} /\ Spend
    /\ \/ \E s \in Secrets \cup {NoSecret} : dotenv' = s /\ UNCHANGED envLocal
       \/ envLocal' = NoSecret /\ UNCHANGED dotenv
    /\ UNCHANGED <<proc, setting, sealedChannel>>

\* Faulty variant: the key found in .env.local replaces process.env's as well.
EnsureSecretKeyExports ==
    /\ proc' = [Down EXCEPT !.pc = "resolving", !.memo = dotenv, !.processEnv = Generated, !.fresh = (envLocal = NoSecret)]
    /\ envLocal' = Generated

\* A .env.local with a key is left alone and its key put nowhere; without one a
\* key is generated, whether or not the environment has one.
EnsureSecretKey ==
    IF envLocal # NoSecret
    THEN proc' = [Down EXCEPT !.pc = "resolving", !.memo = dotenv, !.processEnv = dotenv] /\ UNCHANGED envLocal
    ELSE /\ proc' = [Down EXCEPT !.pc = "resolving", !.memo = dotenv, !.processEnv = Generated, !.fresh = TRUE]
         /\ envLocal' = Generated

Start ==
    /\ proc.pc \in {"down", "refused"}
    /\ bootUsed.boots < MaxBoots /\ bootUsed' = [bootUsed EXCEPT !.boots = @ + 1]
    /\ EnsureSecretKey
    /\ UNCHANGED <<dotenv, setting, sealedChannel>>

\* Faulty variant: the environment's key is preferred to the row.
ResolveEnvFirst ==
    /\ proc.pc = "resolving"
    /\ proc' = [proc EXCEPT !.pc = "serving", !.key = "env"]
    /\ UNCHANGED <<dotenv, envLocal, setting, sealedChannel, bootUsed>>

\* resolveKey: a row without a secret gives no key, a row sealed with another
\* secret rejects and the process ends before it listens.
Resolve ==
    /\ proc.pc = "resolving"
    /\ proc' = CASE setting = NoSetting -> [proc EXCEPT !.pc = "serving", !.key = "env"]
                 [] setting # NoSetting /\ proc.memo = NoSecret -> [proc EXCEPT !.pc = "serving"]
                 [] setting # NoSetting /\ proc.memo = setting.sealed -> [proc EXCEPT !.pc = "serving", !.key = setting.key]
                 [] OTHER -> [Down EXCEPT !.pc = "refused"]
    /\ UNCHANGED <<dotenv, envLocal, setting, sealedChannel, bootUsed>>

\* The first signal closes server, workers, queues and database; a second one
\* is ignored.
Signal ==
    /\ proc.pc = "serving"
    /\ proc' = [proc EXCEPT !.pc = "closing"]
    /\ UNCHANGED <<dotenv, envLocal, setting, sealedChannel, bootUsed>>

\* Everything is settled and the process exits, or it is killed in any state.
Exit ==
    /\ proc.pc \notin {"down", "refused"}
    /\ proc' = Down
    /\ UNCHANGED <<dotenv, envLocal, setting, sealedChannel, bootUsed>>

-----------------------------------------------------------------------------
(* Requests of a serving process *)

\* Faulty variant: the routes seal with process.env, as the worker opens.
SealWithProcessEnv == proc.processEnv

Seal == proc.memo

\* 503 without a secret.
PutSetting(k) ==
    /\ proc.pc = "serving" /\ Spend
    /\ setting' = IF Seal = NoSecret THEN setting ELSE [key |-> k, sealed |-> Seal, in |-> dotenv]
    /\ UNCHANGED <<dotenv, envLocal, proc, sealedChannel>>

DeleteSetting ==
    /\ proc.pc = "serving" /\ setting # NoSetting /\ Spend
    /\ setting' = NoSetting
    /\ UNCHANGED <<dotenv, envLocal, proc, sealedChannel>>

SaveChannel ==
    /\ proc.pc = "serving" /\ Spend
    /\ sealedChannel' = IF Seal = NoSecret THEN sealedChannel ELSE [sealed |-> Seal, in |-> dotenv]
    /\ UNCHANGED <<dotenv, envLocal, proc, setting>>

\* The publish worker: process.env's key, or a failed publish.
Opens == proc.processEnv # NoSecret /\ sealedChannel.sealed = proc.processEnv

BootNext ==
    \/ Reconfigure \/ Start \/ Resolve \/ Signal \/ Exit
    \/ \E k \in Keys : PutSetting(k)
    \/ DeleteSetting \/ SaveChannel
BootSpec == BootInit /\ [][BootNext]_bootVars

-----------------------------------------------------------------------------
BootTypeOK ==
    /\ dotenv \in Secrets \cup {NoSecret} /\ envLocal \in {Generated, NoSecret}
    /\ proc \in [pc : {"down", "resolving", "serving", "closing", "refused"}, memo : Known, processEnv : Known,
                 fresh : BOOLEAN, key : Keys \cup {"env", "none"}]
    /\ setting \in [key : Keys \cup {"none"}, sealed : Known, in : Known]
    /\ sealedChannel \in [sealed : Known, in : Known]

\* A start is refused only for a setting saved under another secret than the
\* environment's; it can then not be deleted, for no process serves.
RefusedOnlyForAChangedSecret ==
    [][proc.pc = "resolving" /\ proc'.pc = "refused" => setting # NoSetting /\ setting.in # dotenv]_bootVars

\* After a restart in the environment they were saved in, saved keys are in use.
SavedKeyServesAfterRestart ==
    [][proc.pc = "resolving" /\ proc'.pc = "serving" /\ setting # NoSetting /\ setting.in = dotenv
           => proc'.key = setting.key]_bootVars

\* A channel saved in the environment of this process is opened by its worker,
\* unless this start found no .env.local.
ChannelsOpenUnlessFresh ==
    proc.pc = "serving" /\ sealedChannel # NoChannel /\ sealedChannel.in = dotenv /\ ~proc.fresh => Opens

\* What users sealed is opened again: channels by the worker, keys at the next
\* start, unless the environment changed under them (env.ts, server.ts).
SealedIsOpened ==
    /\ [](BootTypeOK /\ ChannelsOpenUnlessFresh)
    /\ SavedKeyServesAfterRestart /\ RefusedOnlyForAChangedSecret
=============================================================================
