------------------------------ MODULE Providers ------------------------------
(***************************************************************************)
(* What the admin API replaces in the running server: the OAuth provider   *)
(* of one name, kept in a table, in the configuration file and in the      *)
(* registry in memory, and the SMS sender, kept in the settings table and  *)
(* in an atomic.Value.  A configuration is its version: 0 has no client_id *)
(* and FromFile is the one of the file.  atomic.Value panics when it is    *)
(* given a sender of another concrete type.                                *)
(***************************************************************************)
EXTENDS Integers

CONSTANTS
  Operator,    \* admin requests served at a time
  MaxVersion,  \* bound on the versions of the provider's configuration
  FromFile     \* the version in the configuration file

ASSUME VersionAssumption == MaxVersion \in Nat /\ FromFile \in Nat \ 0..MaxVersion

VARIABLES
  provider,    \* the row of oauth_provider_configs
  version,     \* the last version an operator wrote
  registry,    \* the version in Registry.providers, 0 when there is none
  setting,     \* platform_settings, sms_provider; "none" when there is no row
  conf,        \* the configuration file
  sender,      \* the concrete type in HotSender.cur
  call,        \* the request each operator is waiting for
  serving,     \* the server is up
  loaded,      \* history: the registry could be loaded from the table at start
  edited,      \* history: the row was written since the start
  overlapped,  \* history: a row was written before an earlier write had reached the registry
  restored,    \* history: the settings table could be read at start
  chosen,      \* history: the setting was saved since the start
  panicked     \* history: UpdateSMSChannel panicked

oauthVars == <<provider, version, registry, loaded, edited, overlapped>>
smsVars == <<setting, sender, restored, chosen, panicked>>
providerVars == <<oauthVars, smsVars, conf, call, serving>>

-----------------------------------------------------------------------------
Ready == [pc |-> "idle", copy |-> [st |-> "none", ver |-> 0]]

Conf == [sms : {"mock", "mq", "aliyun"}, mq : BOOLEAN, declared : BOOLEAN]

InForce(r) == r.st = "on" /\ r.ver > 0

\* Where the row cannot be read, or there is none, the file speaks; one that says
\* "" says "mock".
currentSMSProvider(readable) ==
  IF readable /\ setting # "none" THEN setting ELSE conf.sms

\* NewHot gets the sender the configuration file names.
NewHot == IF conf.sms = "aliyun" THEN "cloud" ELSE conf.sms

RestoredSender(readable) ==
  IF currentSMSProvider(readable) = "mq" /\ conf.mq THEN "mq" ELSE "mock"

ProviderInit ==
  /\ provider = [st |-> "none", ver |-> 0] /\ version = 0
  /\ registry = 0
  /\ setting = "none"
  /\ conf \in Conf
  /\ sender = "none"
  /\ call = [p \in Operator |-> Ready]
  /\ serving = FALSE
  /\ loaded = FALSE /\ edited = FALSE /\ overlapped = FALSE
  /\ restored = FALSE /\ chosen = FALSE /\ panicked = FALSE

-----------------------------------------------------------------------------
\* The row in force takes the place of the file's provider, if the table can be
\* read.
loadOAuthProvidersFromDB(readable) ==
  IF readable /\ InForce(provider) THEN provider.ver
  ELSE IF conf.declared THEN FromFile ELSE 0

\* New, to its end: the registry is filled, and RestoreSMSChannel puts
\* the sender of the settings in place of the file's, which panics if the type
\* is another.  Either table may turn out not to be readable, and no one is told.
StartServer ==
  /\ ~serving
  /\ loaded' \in BOOLEAN /\ restored' \in BOOLEAN
  /\ NewHot = RestoredSender(restored')
  /\ serving' = TRUE /\ sender' = RestoredSender(restored')
  /\ registry' = loadOAuthProvidersFromDB(loaded')
  /\ edited' = FALSE /\ overlapped' = FALSE /\ chosen' = FALSE
  /\ UNCHANGED <<provider, version, setting, panicked, conf, call>>

\* The process ends, or crashes.
StopServer ==
  /\ serving /\ serving' = FALSE
  /\ sender' = "none" /\ registry' = 0
  /\ call' = [p \in Operator |-> Ready]
  /\ UNCHANGED <<provider, version, setting, restored, chosen, panicked>>
  /\ UNCHANGED <<loaded, edited, overlapped, conf>>

\* The file is edited between two runs of the server, or after a start that panicked.
Configure ==
  /\ ~serving /\ conf' \in Conf
  /\ UNCHANGED <<oauthVars, smsVars, call, serving>>

-----------------------------------------------------------------------------
\* UpsertOAuthProvider reads the row and changes its copy: a request that does
\* not say "enabled" enables it, and one without a client_id keeps the old.  Not
\* finding the row, it means to create it; gorm replaces a false "enabled" of a
\* new row, and in the caller's copy, by the column's default, true.
UpsertOAuthProvider(p) ==
  /\ serving /\ call[p].pc = "idle" /\ version < MaxVersion
  /\ \E st \in {"on", "off"}, ver \in {provider.ver, version + 1} :
       /\ version' = IF ver = provider.ver THEN version ELSE ver
       /\ call' = [call EXCEPT ![p] =
            IF provider.st = "none"
            THEN [pc |-> "create", copy |-> [st |-> "on", ver |-> ver]]
            ELSE [pc |-> "save", copy |-> [st |-> st, ver |-> ver]]]
  /\ UNCHANGED <<provider, registry, loaded, edited, overlapped, smsVars, conf, serving>>

WriteProvider(p) ==
  /\ serving
  /\ call[p].pc = "save" \/ (call[p].pc = "create" /\ provider.st = "none")
  /\ provider' = call[p].copy
  /\ call' = [call EXCEPT ![p].pc = "upsert"]
  /\ edited' = TRUE
  /\ overlapped' = (overlapped \/ \E q \in Operator : call[q].pc = "upsert")
  /\ UNCHANGED <<version, registry, loaded, smsVars, conf, serving>>

\* The name is unique, and the database may fail.
WriteProviderFails(p) ==
  /\ serving /\ call[p].pc \in {"save", "create"}
  /\ call' = [call EXCEPT ![p] = Ready]
  /\ UNCHANGED <<oauthVars, smsVars, conf, serving>>

\* Mutant: a provider that was disabled stays.
UpsertOnly(p) ==
  /\ serving /\ call[p].pc = "upsert"
  /\ registry' = IF InForce(call[p].copy) THEN call[p].copy.ver ELSE registry
  /\ call' = [call EXCEPT ![p] = Ready]
  /\ UNCHANGED <<provider, version, loaded, edited, overlapped, smsVars, conf, serving>>

\* Registry.Upsert or Registry.Remove, under the registry's lock.
UpsertOrRemove(p) ==
  /\ serving /\ call[p].pc = "upsert"
  /\ registry' = IF InForce(call[p].copy) THEN call[p].copy.ver ELSE 0
  /\ call' = [call EXCEPT ![p] = Ready]
  /\ UNCHANGED <<provider, version, loaded, edited, overlapped, smsVars, conf, serving>>

-----------------------------------------------------------------------------
Provided(s) == s = "mq" => conf.mq

\* Mutant: the setting is saved first.
SwapAfterSave(p) ==
  /\ serving /\ call[p].pc = "idle"
  /\ \E s \in {"mock", "mq"} : Provided(s) /\ setting' = s
  /\ chosen' = TRUE
  /\ UNCHANGED <<oauthVars, sender, restored, panicked, conf, call, serving>>

\* HotSender.Swap with a sender of the type in use; then the row is written.
UpdateSMSChannel(p) ==
  /\ serving /\ call[p].pc = "idle"
  /\ \E s \in {"mock", "mq"} :
       /\ Provided(s) /\ s = sender
       /\ call' = [call EXCEPT ![p].pc = s]
  /\ UNCHANGED <<oauthVars, smsVars, conf, serving>>

\* With one of another type: gin recovers from the panic and answers 500.
SwapPanics(p) ==
  /\ serving /\ call[p].pc = "idle"
  /\ \E s \in {"mock", "mq"} : Provided(s) /\ s # sender
  /\ panicked' = TRUE
  /\ UNCHANGED <<oauthVars, setting, sender, restored, chosen, conf, call, serving>>

SaveSetting(p) ==
  /\ serving /\ call[p].pc \in {"mock", "mq"}
  /\ setting' = call[p].pc /\ chosen' = TRUE
  /\ call' = [call EXCEPT ![p] = Ready]
  /\ UNCHANGED <<oauthVars, sender, restored, panicked, conf, serving>>

SaveSettingFails(p) ==
  /\ serving /\ call[p].pc \in {"mock", "mq"}
  /\ call' = [call EXCEPT ![p] = Ready]
  /\ UNCHANGED <<oauthVars, smsVars, conf, serving>>

ProviderNext ==
  \/ StartServer \/ StopServer \/ Configure
  \/ \E p \in Operator :
       \/ UpsertOAuthProvider(p) \/ WriteProvider(p) \/ WriteProviderFails(p)
       \/ UpsertOrRemove(p)
       \/ UpdateSMSChannel(p) \/ SwapPanics(p) \/ SaveSetting(p) \/ SaveSettingFails(p)

ProviderSpec == ProviderInit /\ [][ProviderNext]_providerVars

-----------------------------------------------------------------------------
\* While no write is on its way to the registry, the registry has the provider of
\* the row: the version in force, none once an operator has disabled it, and the
\* file's version only until the row is written or a row in force is loaded.
\* Exceptions: two writes that overlapped since the start, a table that could
\* not be read at start (UpsertOAuthProvider, loadOAuthProvidersFromDB and
\* Registry).
RegistryFollows ==
  serving /\ ~overlapped /\ (loaded \/ edited) /\ (\A p \in Operator : call[p].pc # "upsert")
  => registry = IF InForce(provider) THEN provider.ver
                ELSE IF conf.declared /\ ~edited THEN FromFile
                ELSE 0

\* The channel the admin API reports, when it can read the setting, is the one
\* that sends.  Exceptions: a setting that could not be read at start, until one is
\* saved, since the server then sends by the file; and a setting "mq" left from
\* before MQ was switched off in the file (currentSMSProvider, UpdateSMSChannel and
\* RestoreSMSChannel).
SmsAgrees ==
  serving /\ (restored \/ chosen) =>
    \/ currentSMSProvider(TRUE) = sender
    \/ currentSMSProvider(TRUE) = "mq" /\ ~conf.mq

\* A switch between "mock" and "mq" the API admits never panics
\* (UpdateSMSChannel and HotSender.Swap).
SmsSwitches == ~panicked
=============================================================================
