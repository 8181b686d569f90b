------------------------------ MODULE Profiles ------------------------------
(***************************************************************************)
(* The configuration of the CLI and the files it leads to                  *)
(* (bin/alpen/src/settings.rs, cmd/network.rs): the root file, which       *)
(* either is a flat configuration or selects a deployment profile, the     *)
(* profiles' files, `alpen network use`, which replaces the root file, and *)
(* the wallet and descriptor files of the data directories.  Users edit    *)
(* the configuration at any time and commands read it file by file.  Of a  *)
(* file's settings the model keeps the network and which groups of the     *)
(* others are mistaken: the code checks them in two places, when a command *)
(* loads its settings and when `network use` validates a profile.          *)
(***************************************************************************)
EXTENDS Integers

CONSTANTS
  Procs,
  Networks, \* the Bitcoin networks a file may name
  Mistakes, \* sets of settings a file may have wrong, of Checked
  Missing,  \* no root file
  Empty,    \* the root file as settings create it
  Torn,     \* a root file that was not written whole
  MaxEdits  \* bound: edits of configuration files

DeploymentProfiles == {"mainnet", "testnet"}
ExpectedNetwork == [mainnet |-> "bitcoin", testnet |-> "signet"]

\* What a command that loads its settings checks apart from the network; "file"
\* stands for a file that is missing or does not deserialize.
Checked == {"file", "backend", "params", "address", "gapLimit", "lookahead", "feeRate"}

ASSUME ProfilesAssumption ==
  /\ Networks \subseteq {"bitcoin", "signet", "regtest"}
  /\ Mistakes \subseteq SUBSET Checked /\ {} \in Mistakes
  /\ MaxEdits \in Nat
  /\ Missing # Empty /\ Empty # Torn /\ Missing # Torn

\* A configuration file that holds settings.
Files == [network : Networks, wrong : Mistakes]

\* A root file is flat or selects a profile, with or without a [profiles] table;
\* what settings a selector holds besides is not looked at.
Flat == [active : {"flat"}, table : BOOLEAN, file : Files]
Selectors ==
  [active : DeploymentProfiles, table : BOOLEAN, file : [network : Networks, wrong : {{}}]]
RootConfigs == Flat \cup Selectors
NotFiles == {Missing, Empty, Torn}

ASSUME NotFilesAssumption == NotFiles \cap RootConfigs = {}

\* The data directory itself, for flat files, and one per profile.
Dirs == {"root"} \cup DeploymentProfiles
Names == {"default", "default-bitcoin", "descriptors", "descriptors-bitcoin"}

VARIABLES
  config,   \* the root file
  durable,  \* what a power loss may leave of the root file
  profiles, \* the file of each profile
  data,     \* the networks whose data is in each file of the data directories
  pc,
  target,   \* the profile a process selects or loads
  temp,     \* the new root file a process writes
  settings, \* the directory and network a command runs with
  authored, \* what the user wrote in the root file, whatever it selects
  slipped,  \* whether the user saved a root file that was being replaced
  vouched,  \* profiles that `network use` accepted and nobody edited since
  edits

configVars == <<config, durable, profiles>>
runVars == <<pc, target, temp, settings>>
ghostVars == <<authored, slipped, vouched>>
vars == <<configVars, data, runVars, ghostVars, edits>>

\* A root file apart from what it selects.
Rest(c) == IF c \in NotFiles THEN Missing ELSE [c EXCEPT !.active = "flat"]

ProfilesTypeOK ==
  /\ config \in RootConfigs \cup NotFiles
  /\ durable \in SUBSET (RootConfigs \cup NotFiles)
  /\ config \in durable
  /\ profiles \in [DeploymentProfiles -> Files]
  /\ data \in [Dirs \X Names -> SUBSET Networks]
  /\ pc \in [Procs -> {"idle", "profile", "loaded", "open",
                       "validated", "written", "synced"}]
  /\ target \in [Procs -> DeploymentProfiles]
  /\ temp \in [Procs -> RootConfigs \cup {Missing}]
  /\ settings \in [Procs -> [dir : Dirs, network : Networks \cup {"none"}]]
  /\ authored \in Flat \cup {Missing}
  /\ slipped \in BOOLEAN
  /\ vouched \subseteq DeploymentProfiles
  /\ edits \in 0 .. MaxEdits

NoSettings == [dir |-> "root", network |-> "none"]

Init ==
  /\ config \in RootConfigs \cup {Missing}
  /\ durable = {config}
  /\ profiles \in [DeploymentProfiles -> Files]
  /\ data = [f \in Dirs \X Names |-> {}]
  /\ pc = [p \in Procs |-> "idle"]
  /\ target = [p \in Procs |-> "testnet"]
  /\ temp = [p \in Procs |-> Missing]
  /\ settings = [p \in Procs |-> NoSettings]
  /\ authored = Rest(config)
  /\ slipped = FALSE
  /\ vouched = {}
  /\ edits = 0

Goto(p, step) == pc' = [pc EXCEPT ![p] = step]

\* The process is over.
Exit(p) ==
  /\ Goto(p, "idle")
  /\ target' = [target EXCEPT ![p] = "testnet"]
  /\ temp' = [temp EXCEPT ![p] = Missing]
  /\ settings' = [settings EXCEPT ![p] = NoSettings]

-----------------------------------------------------------------------------
(* Settings::load, and the command that runs with them.                    *)

CreateConfigFile(p) ==
  /\ pc[p] = "idle"
  /\ config = Missing
  /\ config' = Empty
  /\ durable' = durable \cup {Empty}
  /\ UNCHANGED <<profiles, data, runVars, ghostVars, edits>>

\* The backend's settings, resolve_seed_recovery_gap_limit and the like; a load
\* that fails here has changed nothing.
Resolves(file) == file.wrong = {}

LoadFlat(p) ==
  /\ pc[p] = "idle"
  /\ config \in Flat
  /\ Resolves(config.file)
  /\ settings' = [settings EXCEPT ![p] =
                    [dir |-> "root", network |-> config.file.network]]
  /\ Goto(p, "loaded")
  /\ UNCHANGED <<configVars, data, target, temp, ghostVars, edits>>

LoadSelector(p) ==
  /\ pc[p] = "idle"
  /\ config \in Selectors
  /\ config.table
  /\ target' = [target EXCEPT ![p] = config.active]
  /\ Goto(p, "profile")
  /\ UNCHANGED <<configVars, data, temp, settings, ghostVars, edits>>

\* Mutant: any network is allowed in a profile.
AnyNetwork(f) == TRUE

\* validate_profile_network
ProfileNetworkOk(f) == profiles[f].network = ExpectedNetwork[f]

\* Whether a command can load its settings from the profile's file.
ProfileLoads(f) == ProfileNetworkOk(f) /\ Resolves(profiles[f])

LoadProfile(p) ==
  /\ pc[p] = "profile"
  /\ ProfileLoads(target[p])
  /\ settings' = [settings EXCEPT ![p] =
                    [dir |-> target[p], network |-> profiles[target[p]].network]]
  /\ Goto(p, "loaded")
  /\ UNCHANGED <<configVars, data, target, temp, ghostVars, edits>>

\* One of its settings is refused; for the backend's the command aborts.
LoadProfileFails(p) ==
  /\ pc[p] = "profile"
  /\ ~ProfileLoads(target[p])
  /\ Exit(p)
  /\ UNCHANGED <<configVars, data, ghostVars, edits>>

\* db_path
WalletFile(s) ==
  <<s.dir, IF s.network = "bitcoin" THEN "default-bitcoin" ELSE "default">>

\* Mutant: the file's name does not tell the network.
OneDescriptorFile(s) == <<s.dir, "descriptors">>

\* descriptor_file; in a profile's own directory the plain name will do.
DescriptorFile(s) ==
  <<s.dir, IF s.dir = "root" /\ s.network = "bitcoin"
           THEN "descriptors-bitcoin" ELSE "descriptors">>

\* The wallet library refuses to load a file of another network.
OpenWallet(p) ==
  /\ pc[p] = "loaded"
  /\ LET f == WalletFile(settings[p])
     IN  /\ data[f] \subseteq {settings[p].network}
         /\ data' = [data EXCEPT ![f] = {settings[p].network}]
  /\ Goto(p, "open")
  /\ UNCHANGED <<configVars, target, temp, settings, ghostVars, edits>>

OpenWalletPanics(p) ==
  /\ pc[p] = "loaded"
  /\ ~ data[WalletFile(settings[p])] \subseteq {settings[p].network}
  /\ Exit(p)
  /\ UNCHANGED <<configVars, data, ghostVars, edits>>

\* deposit; the database itself does not know a network.
SaveDescriptor(p) ==
  /\ pc[p] = "open"
  /\ data' = [data EXCEPT ![DescriptorFile(settings[p])] = @ \cup {settings[p].network}]
  /\ Exit(p)
  /\ UNCHANGED <<configVars, ghostVars, edits>>

EndCommand(p) ==
  /\ pc[p] = "open"
  /\ Exit(p)
  /\ UNCHANGED <<configVars, data, ghostVars, edits>>

-----------------------------------------------------------------------------
(* network use: set_active_profile.                                        *)

\* Mutant: the fee rate is left to the commands, too.
ValidatesLess == {"file", "params", "address"}

\* What validate_deployment_profile looks at, of what a load checks.
Validated == {"file", "params", "address", "feeRate"}

\* A flat file may have the table of profiles as well.
ValidateProfile(p, f) ==
  /\ pc[p] = "idle"
  /\ config \in RootConfigs
  /\ config.table
  /\ ProfileNetworkOk(f)
  /\ profiles[f].wrong \cap Validated = {}
  /\ vouched' = vouched \cup {f}
  /\ target' = [target EXCEPT ![p] = f]
  /\ Goto(p, "validated")
  /\ UNCHANGED <<configVars, data, temp, settings, authored, slipped, edits>>

\* Mutant: the document is built from what was deserialized.
ReplacesAll(p) ==
  /\ pc[p] = "validated"
  /\ config \in Selectors
  /\ \E n \in Networks :
       temp' = [temp EXCEPT ![p] = [active |-> target[p], table |-> TRUE,
                                    file |-> [network |-> n, wrong |-> {}]]]
  /\ Goto(p, "written")
  /\ UNCHANGED <<configVars, data, target, settings, ghostVars, edits>>

\* Only the selector changes; the file is read anew and a flat one is refused.
ReplaceActiveProfile(p) ==
  /\ pc[p] = "validated"
  /\ config \in Selectors
  /\ temp' = [temp EXCEPT ![p] = [config EXCEPT !.active = target[p]]]
  /\ Goto(p, "written")
  /\ UNCHANGED <<configVars, data, target, settings, ghostVars, edits>>

FlatRefused(p) ==
  /\ pc[p] = "validated"
  /\ config \notin Selectors
  /\ Exit(p)
  /\ UNCHANGED <<configVars, data, ghostVars, edits>>

\* Mutant: the temporary file is not synced.
NoSync(p) ==
  /\ pc[p] = "written"
  /\ config' = temp[p]
  /\ durable' = durable \cup {temp[p], Torn}
  /\ Exit(p)
  /\ UNCHANGED <<profiles, data, ghostVars, edits>>

SyncTemporary(p) ==
  /\ pc[p] = "written"
  /\ Goto(p, "synced")
  /\ UNCHANGED <<configVars, data, target, temp, settings, ghostVars, edits>>

\* The rename; until it is flushed a power loss brings back the older file.
Persist(p) ==
  /\ pc[p] = "synced"
  /\ config' = temp[p]
  /\ durable' = durable \cup {temp[p]}
  /\ Exit(p)
  /\ UNCHANGED <<profiles, data, ghostVars, edits>>

-----------------------------------------------------------------------------
(* The user, the operating system.                                         *)

EditConfig(c) ==
  /\ edits < MaxEdits
  /\ edits' = edits + 1
  /\ config' = c
  /\ durable' = {c}
  /\ authored' = Rest(c)
  /\ slipped' = (slipped \/ \E p \in Procs : pc[p] \in {"written", "synced"})
  /\ UNCHANGED <<profiles, data, runVars, vouched>>

EditProfile(f, file) ==
  /\ edits < MaxEdits
  /\ edits' = edits + 1
  /\ profiles' = [profiles EXCEPT ![f] = file]
  /\ vouched' = vouched \ {f}
  /\ UNCHANGED <<config, durable, data, runVars, authored, slipped>>

Kill(p) ==
  /\ pc[p] # "idle"
  /\ Exit(p)
  /\ UNCHANGED <<configVars, data, ghostVars, edits>>

Flush ==
  /\ durable' = {config}
  /\ UNCHANGED <<config, profiles, data, runVars, ghostVars, edits>>

PowerLoss ==
  /\ config' \in durable
  /\ durable' = {config'}
  /\ pc' = [p \in Procs |-> "idle"]
  /\ target' = [p \in Procs |-> "testnet"]
  /\ temp' = [p \in Procs |-> Missing]
  /\ settings' = [p \in Procs |-> NoSettings]
  /\ UNCHANGED <<profiles, data, ghostVars, edits>>

Load(p) ==
  \/ CreateConfigFile(p)
  \/ LoadFlat(p) \/ LoadSelector(p)
  \/ LoadProfile(p) \/ LoadProfileFails(p)

Run(p) ==
  OpenWallet(p) \/ OpenWalletPanics(p) \/ SaveDescriptor(p) \/ EndCommand(p)

NetworkUse(p) ==
  \/ \E f \in DeploymentProfiles : ValidateProfile(p, f)
  \/ ReplaceActiveProfile(p) \/ FlatRefused(p)
  \/ SyncTemporary(p) \/ Persist(p)

User ==
  \/ \E c \in RootConfigs : EditConfig(c)
  \/ \E f \in DeploymentProfiles, file \in Files : EditProfile(f, file)

Next ==
  \/ \E p \in Procs : Load(p) \/ Run(p) \/ NetworkUse(p) \/ Kill(p)
  \/ User \/ Flush \/ PowerLoss

Spec == Init /\ [][Next]_vars

-----------------------------------------------------------------------------

(***************************************************************************)
(* The root file is whole: whatever moment the power goes, `network use`   *)
(* leaves the old file or the new one.                                     *)
(***************************************************************************)
ConfigWhole == ProfilesTypeOK /\ Torn \notin durable

(***************************************************************************)
(* `network use` changes the selector alone: what else the user last wrote *)
(* in the root file is there after any number of replacements, kills and   *)
(* power losses, unless the user saved while a replacement was under way,  *)
(* which takes no lock.                                                    *)
(***************************************************************************)
EditsSurvive == slipped \/ Rest(config) = authored

(***************************************************************************)
(* A profile that `network use` accepted and that nobody edited since is   *)
(* refused by the commands only for what validate_deployment_profile does  *)
(* not look at: the backend, the gap limit and the lookahead.              *)
(***************************************************************************)
AcceptedLoads ==
  \A f \in vouched :
    ProfileLoads(f) \/ profiles[f].wrong \cap {"backend", "gapLimit", "lookahead"} # {}

(***************************************************************************)
(* "Wallet and recovery-descriptor data are stored separately" (README):   *)
(* no file of the data directories ever mixes data of Bitcoin with that of *)
(* a test network, in neither layout, however often the layout, the        *)
(* profile and the networks are changed between a command's steps.         *)
(***************************************************************************)
NetworksApart ==
  \A f \in DOMAIN data : "bitcoin" \in data[f] => data[f] = {"bitcoin"}

(***************************************************************************)
(* A profile's directory holds data of its network only.                   *)
(***************************************************************************)
OwnDirectory ==
  \A f \in DeploymentProfiles, n \in Names :
    data[<<f, n>>] \subseteq {ExpectedNetwork[f]}
=============================================================================
