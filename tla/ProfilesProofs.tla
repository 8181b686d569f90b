--------------------------- MODULE ProfilesProofs ---------------------------
(***************************************************************************)
(* Proofs about Profiles, for any number of processes and edits and any    *)
(* mistakes in the files.  The files are kept apart because a command that *)
(* runs with a profile's directory runs with the profile's network; the    *)
(* user's edits survive because a replacement under way holds the rest of  *)
(* the root file as it is, or the user has slipped one in.                 *)
(***************************************************************************)
EXTENDS Profiles, TLAPS

Replacing == {"written", "synced"}

\* A command runs with a network that a file named, in a profile's directory with
\* the profile's own.
SettingsMatch(p) ==
  pc[p] \in {"loaded", "open"} =>
    /\ settings[p].network \in Networks
    /\ settings[p].dir # "root" => settings[p].network = ExpectedNetwork[settings[p].dir]

\* A replacement holds what the user wrote.
TempKeepsRest(p) ==
  pc[p] \in Replacing =>
    temp[p] \in Selectors /\ (slipped \/ Rest(temp[p]) = authored)

\* Every file that a power loss may leave holds what the user wrote.
DurableKeepsRest ==
  /\ Torn \notin durable
  /\ slipped \/ \A c \in durable : Rest(c) = authored

Accepted ==
  \A f \in vouched : ProfileNetworkOk(f) /\ profiles[f].wrong \cap Validated = {}

\* In a profile's directory the network is the profile's, among the flat files it
\* is told by the name.
Separate ==
  \A d \in Dirs, n \in Names :
    /\ d # "root" => data[<<d, n>>] \subseteq {ExpectedNetwork[d]}
    /\ d = "root" =>
         IF n \in {"default-bitcoin", "descriptors-bitcoin"}
         THEN data[<<d, n>>] \subseteq {"bitcoin"}
         ELSE "bitcoin" \notin data[<<d, n>>]

IInv ==
  /\ ProfilesTypeOK
  /\ \A p \in Procs : SettingsMatch(p)
  /\ \A p \in Procs : TempKeepsRest(p)
  /\ DurableKeepsRest
  /\ Accepted
  /\ Separate

-----------------------------------------------------------------------------
(* Lemmas about the configuration files.                                   *)

LEMMA SelectorRest ==
  ASSUME NEW c \in Selectors, NEW f \in DeploymentProfiles
  PROVE  /\ [c EXCEPT !.active = f] \in Selectors
         /\ Rest([c EXCEPT !.active = f]) = Rest(c)
<1>1. [c EXCEPT !.active = f] \in Selectors
  BY DEF Selectors
<1>2. c \notin NotFiles /\ [c EXCEPT !.active = f] \notin NotFiles
  BY <1>1, NotFilesAssumption DEF RootConfigs
<1> QED
  BY <1>1, <1>2 DEF Rest, Selectors

LEMMA RestTyped ==
  ASSUME NEW c \in RootConfigs \cup NotFiles
  PROVE  Rest(c) \in Flat \cup {Missing}
<1>1. CASE c \in NotFiles
  BY <1>1 DEF Rest
<1>2. CASE c \notin NotFiles
  BY <1>2, ProfilesAssumption DEF Rest, RootConfigs, Flat, Selectors, Files
<1> QED
  BY <1>1, <1>2

LEMMA RestMissing == Rest(Missing) = Missing /\ Rest(Empty) = Missing
BY DEF Rest, NotFiles

-----------------------------------------------------------------------------
(* The invariant.                                                          *)

LEMMA InitInv == Init => IInv
<1> SUFFICES ASSUME Init PROVE IInv
  OBVIOUS
<1>1. config \in RootConfigs \cup NotFiles /\ config # Torn
  BY NotFilesAssumption, ProfilesAssumption DEF Init, NotFiles
<1>2. ProfilesTypeOK
  <2>1. 0 \in 0 .. MaxEdits
    BY ProfilesAssumption
  <2> QED
    BY <1>1, <2>1, RestTyped
       DEF Init, ProfilesTypeOK, NoSettings, Dirs, DeploymentProfiles
<1>3. DurableKeepsRest
  BY <1>1 DEF Init, DurableKeepsRest
<1>4. Separate
  BY DEF Init, Separate, Dirs, Names
<1> QED
  BY <1>2, <1>3, <1>4
     DEF Init, IInv, SettingsMatch, TempKeepsRest, Replacing, Accepted

(* A process that ends leaves nothing to be kept.                          *)
LEMMA ExitInv ==
  ASSUME IInv, NEW p \in Procs, Exit(p)
  PROVE  /\ pc' \in [Procs -> {"idle", "profile", "loaded", "open",
                               "validated", "written", "synced"}]
         /\ target' \in [Procs -> DeploymentProfiles]
         /\ temp' \in [Procs -> RootConfigs \cup {Missing}]
         /\ settings' \in [Procs -> [dir : Dirs, network : Networks \cup {"none"}]]
         /\ \A q \in Procs : SettingsMatch(q)'
         /\ \A q \in Procs \ {p} : temp'[q] = temp[q] /\ pc'[q] = pc[q]
         /\ pc'[p] = "idle"
BY DEF IInv, ProfilesTypeOK, Exit, Goto, NoSettings, SettingsMatch, Dirs, DeploymentProfiles

(* Steps that change a process and nothing else.                           *)
LEMMA OtherStepsInv ==
  ASSUME IInv, NEW p \in Procs, UNCHANGED <<configVars, data, ghostVars, edits>>,
         \/ LoadFlat(p) \/ LoadSelector(p) \/ LoadProfile(p) \/ LoadProfileFails(p)
         \/ OpenWalletPanics(p) \/ EndCommand(p)
         \/ ReplaceActiveProfile(p) \/ FlatRefused(p) \/ SyncTemporary(p) \/ Kill(p)
  PROVE  IInv'
<1> USE DEF configVars, ghostVars
<1>1. Accepted' /\ Separate' /\ DurableKeepsRest'
  BY DEF IInv, Accepted, ProfileNetworkOk, Separate, DurableKeepsRest
<1>2. CASE Exit(p)
  <2>1. ProfilesTypeOK' /\ \A q \in Procs : SettingsMatch(q)'
    BY <1>2, ExitInv DEF IInv, ProfilesTypeOK
  <2>2. \A q \in Procs : TempKeepsRest(q)'
    BY <1>2, ExitInv DEF IInv, TempKeepsRest, Replacing
  <2> QED
    BY <1>1, <2>1, <2>2 DEF IInv
<1>3. CASE LoadFlat(p)
  <2>1. config.file.network \in Networks
    BY <1>3 DEF LoadFlat, Flat, Files
  <2>2. ProfilesTypeOK' /\ \A q \in Procs : SettingsMatch(q)'
    BY <1>3, <2>1 DEF LoadFlat, Goto, IInv, ProfilesTypeOK, SettingsMatch, Dirs
  <2>3. \A q \in Procs : TempKeepsRest(q)'
    BY <1>3 DEF LoadFlat, Goto, IInv, ProfilesTypeOK, TempKeepsRest, Replacing
  <2> QED
    BY <1>1, <2>2, <2>3 DEF IInv
<1>4. CASE LoadSelector(p)
  <2>1. ProfilesTypeOK' /\ \A q \in Procs : SettingsMatch(q)'
    BY <1>4 DEF LoadSelector, Selectors, Goto, IInv, ProfilesTypeOK, SettingsMatch
  <2>2. \A q \in Procs : TempKeepsRest(q)'
    BY <1>4 DEF LoadSelector, Goto, IInv, ProfilesTypeOK, TempKeepsRest, Replacing
  <2> QED
    BY <1>1, <2>1, <2>2 DEF IInv
<1>5. CASE LoadProfile(p)
  <2>1. /\ target[p] \in DeploymentProfiles
        /\ profiles[target[p]].network \in Networks
        /\ profiles[target[p]].network = ExpectedNetwork[target[p]]
    BY <1>5 DEF LoadProfile, ProfileLoads, ProfileNetworkOk, IInv, ProfilesTypeOK, Files
  <2>2. ProfilesTypeOK' /\ \A q \in Procs : SettingsMatch(q)'
    BY <1>5, <2>1 DEF LoadProfile, Goto, IInv, ProfilesTypeOK, SettingsMatch, Dirs
  <2>3. \A q \in Procs : TempKeepsRest(q)'
    BY <1>5 DEF LoadProfile, Goto, IInv, ProfilesTypeOK, TempKeepsRest, Replacing
  <2> QED
    BY <1>1, <2>2, <2>3 DEF IInv
<1>6. CASE ReplaceActiveProfile(p)
  <2> DEFINE t == [config EXCEPT !.active = target[p]]
  <2>1. t \in Selectors /\ Rest(t) = Rest(config)
    BY <1>6, SelectorRest DEF ReplaceActiveProfile, IInv, ProfilesTypeOK
  <2>2. ProfilesTypeOK' /\ \A q \in Procs : SettingsMatch(q)'
    BY <1>6, <2>1 DEF ReplaceActiveProfile, Goto, IInv, ProfilesTypeOK, SettingsMatch, RootConfigs
  <2>3. slipped \/ Rest(t) = authored
    BY <2>1 DEF IInv, ProfilesTypeOK, DurableKeepsRest
  <2>4. \A q \in Procs : TempKeepsRest(q)'
    BY <1>6, <2>1, <2>3 DEF ReplaceActiveProfile, Goto, IInv, ProfilesTypeOK, TempKeepsRest, Replacing
  <2> QED
    BY <1>1, <2>2, <2>4 DEF IInv
<1>7. CASE SyncTemporary(p)
  <2>1. ProfilesTypeOK' /\ \A q \in Procs : SettingsMatch(q)'
    BY <1>7 DEF SyncTemporary, Goto, IInv, ProfilesTypeOK, SettingsMatch
  <2>2. \A q \in Procs : TempKeepsRest(q)'
    BY <1>7 DEF SyncTemporary, Goto, IInv, ProfilesTypeOK, TempKeepsRest, Replacing
  <2> QED
    BY <1>1, <2>1, <2>2 DEF IInv
<1> QED
  BY <1>2, <1>3, <1>4, <1>5, <1>6, <1>7
     DEF LoadProfileFails, OpenWalletPanics, EndCommand, FlatRefused, Kill

-----------------------------------------------------------------------------
(* Steps that write the data of a network.                                 *)

(* Where a command's files are, the network of its settings may be.        *)
LEMMA FilesMatch ==
  ASSUME IInv, NEW p \in Procs, pc[p] \in {"loaded", "open"},
         NEW f \in {WalletFile(settings[p]), DescriptorFile(settings[p])}
  PROVE  /\ f \in Dirs \X Names
         /\ f[1] = settings[p].dir
         /\ f[1] = "root" =>
              (settings[p].network = "bitcoin"
                 <=> f[2] \in {"default-bitcoin", "descriptors-bitcoin"})
         /\ f[1] # "root" => settings[p].network = ExpectedNetwork[f[1]]
<1>1. settings[p].dir \in Dirs
  BY DEF IInv, ProfilesTypeOK
<1> QED
  BY <1>1 DEF WalletFile, DescriptorFile, Names, IInv, SettingsMatch

LEMMA WriteSeparate ==
  ASSUME IInv, NEW p \in Procs, pc[p] \in {"loaded", "open"},
         NEW f \in {WalletFile(settings[p]), DescriptorFile(settings[p])},
         NEW S, S \subseteq data[f] \cup {settings[p].network},
         data' = [data EXCEPT ![f] = S]
  PROVE  Separate' /\ data' \in [Dirs \X Names -> SUBSET Networks]
<1>1. f \in Dirs \X Names
  BY FilesMatch
<1>2. settings[p].network \in Networks
  BY DEF IInv, SettingsMatch
<1>3. data' \in [Dirs \X Names -> SUBSET Networks]
  BY <1>1, <1>2 DEF IInv, ProfilesTypeOK
<1>4. ASSUME NEW d \in Dirs, NEW n \in Names
      PROVE  /\ d # "root" => data'[<<d, n>>] \subseteq {ExpectedNetwork[d]}
             /\ d = "root" =>
                  IF n \in {"default-bitcoin", "descriptors-bitcoin"}
                  THEN data'[<<d, n>>] \subseteq {"bitcoin"}
                  ELSE "bitcoin" \notin data'[<<d, n>>]
  <2>1. CASE <<d, n>> # f
    <3>1. data'[<<d, n>>] = data[<<d, n>>]
      BY <1>1, <2>1 DEF IInv, ProfilesTypeOK
    <3> QED
      BY <3>1 DEF IInv, Separate
  <2>2. CASE <<d, n>> = f
    <3>1. data'[<<d, n>>] \subseteq data[<<d, n>>] \cup {settings[p].network}
      BY <1>1, <2>2 DEF IInv, ProfilesTypeOK
    <3>2. /\ d = settings[p].dir
          /\ d = "root" =>
               (settings[p].network = "bitcoin"
                  <=> n \in {"default-bitcoin", "descriptors-bitcoin"})
          /\ d # "root" => settings[p].network = ExpectedNetwork[d]
      <4>1. f[1] = d /\ f[2] = n
        BY <2>2
      <4> QED
        BY <4>1, FilesMatch
    <3> QED
      BY <3>1, <3>2 DEF IInv, Separate
  <2> QED
    BY <2>1, <2>2
<1> QED
  BY <1>3, <1>4 DEF Separate

LEMMA OpenWalletInv ==
  ASSUME IInv, NEW p \in Procs, OpenWallet(p)
  PROVE  IInv'
<1> USE DEF configVars, ghostVars
<1>1. Separate' /\ data' \in [Dirs \X Names -> SUBSET Networks]
  BY WriteSeparate DEF OpenWallet
<1>2. ProfilesTypeOK' /\ \A q \in Procs : SettingsMatch(q)'
  BY <1>1 DEF OpenWallet, Goto, IInv, ProfilesTypeOK, SettingsMatch
<1>3. \A q \in Procs : TempKeepsRest(q)'
  BY DEF OpenWallet, Goto, IInv, ProfilesTypeOK, TempKeepsRest, Replacing
<1>4. Accepted' /\ DurableKeepsRest'
  BY DEF OpenWallet, IInv, Accepted, ProfileNetworkOk, DurableKeepsRest
<1> QED
  BY <1>1, <1>2, <1>3, <1>4 DEF IInv

LEMMA SaveDescriptorInv ==
  ASSUME IInv, NEW p \in Procs, SaveDescriptor(p)
  PROVE  IInv'
<1> USE DEF configVars, ghostVars
<1>1. Separate' /\ data' \in [Dirs \X Names -> SUBSET Networks]
  BY WriteSeparate DEF SaveDescriptor
<1>2. Exit(p)
  BY DEF SaveDescriptor
<1>3. ProfilesTypeOK' /\ \A q \in Procs : SettingsMatch(q)'
  BY <1>1, <1>2, ExitInv DEF SaveDescriptor, IInv, ProfilesTypeOK
<1>4. \A q \in Procs : TempKeepsRest(q)'
  BY <1>2, ExitInv DEF SaveDescriptor, IInv, TempKeepsRest, Replacing
<1>5. Accepted' /\ DurableKeepsRest'
  BY DEF SaveDescriptor, IInv, Accepted, ProfileNetworkOk, DurableKeepsRest
<1> QED
  BY <1>1, <1>3, <1>4, <1>5 DEF IInv

-----------------------------------------------------------------------------
(* Steps that write the root file, and those of `network use`.             *)

LEMMA CreateConfigFileInv ==
  ASSUME IInv, NEW p \in Procs, CreateConfigFile(p)
  PROVE  IInv'
<1> USE DEF runVars, ghostVars
<1>1. ProfilesTypeOK'
  BY DEF CreateConfigFile, IInv, ProfilesTypeOK, NotFiles
<1>2. DurableKeepsRest'
  BY RestMissing, ProfilesAssumption
     DEF CreateConfigFile, IInv, ProfilesTypeOK, DurableKeepsRest
<1>3. Accepted' /\ Separate' /\ \A q \in Procs : SettingsMatch(q)' /\ TempKeepsRest(q)'
  BY DEF CreateConfigFile, IInv, Accepted, ProfileNetworkOk, Separate, SettingsMatch, TempKeepsRest
<1> QED
  BY <1>1, <1>2, <1>3 DEF IInv

LEMMA ValidateProfileInv ==
  ASSUME IInv, NEW p \in Procs, NEW f \in DeploymentProfiles, ValidateProfile(p, f)
  PROVE  IInv'
<1> USE DEF configVars
<1>1. ProfilesTypeOK' /\ \A q \in Procs : SettingsMatch(q)'
  BY DEF ValidateProfile, Goto, IInv, ProfilesTypeOK, SettingsMatch
<1>2. \A q \in Procs : TempKeepsRest(q)'
  BY DEF ValidateProfile, Goto, IInv, ProfilesTypeOK, TempKeepsRest, Replacing
<1>3. Accepted'
  BY DEF ValidateProfile, IInv, Accepted, ProfileNetworkOk
<1>4. Separate' /\ DurableKeepsRest'
  BY DEF ValidateProfile, IInv, Separate, DurableKeepsRest
<1> QED
  BY <1>1, <1>2, <1>3, <1>4 DEF IInv

LEMMA PersistInv ==
  ASSUME IInv, NEW p \in Procs, Persist(p)
  PROVE  IInv'
<1> USE DEF ghostVars
<1>1. Exit(p)
  BY DEF Persist
<1>2. temp[p] \in Selectors /\ (slipped \/ Rest(temp[p]) = authored)
  BY DEF Persist, IInv, TempKeepsRest, Replacing
<1>3. temp[p] # Torn
  BY <1>2, NotFilesAssumption DEF RootConfigs, NotFiles
<1>4. ProfilesTypeOK' /\ \A q \in Procs : SettingsMatch(q)'
  BY <1>1, <1>2, ExitInv DEF Persist, IInv, ProfilesTypeOK, RootConfigs
<1>5. \A q \in Procs : TempKeepsRest(q)'
  BY <1>1, ExitInv DEF Persist, IInv, TempKeepsRest, Replacing
<1>6. DurableKeepsRest'
  BY <1>2, <1>3 DEF Persist, IInv, DurableKeepsRest
<1>7. Accepted' /\ Separate'
  BY DEF Persist, IInv, Accepted, ProfileNetworkOk, Separate
<1> QED
  BY <1>4, <1>5, <1>6, <1>7 DEF IInv

-----------------------------------------------------------------------------
(* The user and the operating system.                                      *)

LEMMA EditConfigInv ==
  ASSUME IInv, NEW c \in RootConfigs, EditConfig(c)
  PROVE  IInv'
<1> USE DEF runVars
<1>1. c # Torn
  BY NotFilesAssumption DEF NotFiles
<1>2. ProfilesTypeOK'
  <2>1. edits' \in 0 .. MaxEdits
    BY ProfilesAssumption DEF EditConfig, IInv, ProfilesTypeOK
  <2>2. authored' \in Flat \cup {Missing}
    BY RestTyped DEF EditConfig
  <2>3. slipped' \in BOOLEAN
    BY DEF EditConfig, IInv, ProfilesTypeOK
  <2> QED
    BY <2>1, <2>2, <2>3 DEF EditConfig, IInv, ProfilesTypeOK
<1>3. DurableKeepsRest'
  BY <1>1 DEF EditConfig, DurableKeepsRest
<1>4. \A q \in Procs : TempKeepsRest(q)'
  BY DEF EditConfig, IInv, TempKeepsRest, Replacing
<1>5. Accepted' /\ Separate' /\ \A q \in Procs : SettingsMatch(q)'
  BY DEF EditConfig, IInv, Accepted, ProfileNetworkOk, Separate, SettingsMatch
<1> QED
  BY <1>2, <1>3, <1>4, <1>5 DEF IInv

LEMMA EditProfileInv ==
  ASSUME IInv, NEW f \in DeploymentProfiles, NEW file \in Files, EditProfile(f, file)
  PROVE  IInv'
<1> USE DEF runVars
<1>1. ProfilesTypeOK'
  BY ProfilesAssumption DEF EditProfile, IInv, ProfilesTypeOK
<1>2. Accepted'
  BY DEF EditProfile, IInv, Accepted, ProfileNetworkOk, ProfilesTypeOK
<1>3. DurableKeepsRest' /\ Separate'
      /\ \A q \in Procs : SettingsMatch(q)' /\ TempKeepsRest(q)'
  BY DEF EditProfile, IInv, DurableKeepsRest, Separate, SettingsMatch, TempKeepsRest
<1> QED
  BY <1>1, <1>2, <1>3 DEF IInv

LEMMA FlushInv == ASSUME IInv, Flush PROVE IInv'
<1> USE DEF runVars, ghostVars
<1>1. ProfilesTypeOK' /\ DurableKeepsRest'
  BY DEF Flush, IInv, ProfilesTypeOK, DurableKeepsRest
<1>2. Accepted' /\ Separate' /\ \A q \in Procs : SettingsMatch(q)' /\ TempKeepsRest(q)'
  BY DEF Flush, IInv, Accepted, ProfileNetworkOk, Separate, SettingsMatch, TempKeepsRest
<1> QED
  BY <1>1, <1>2 DEF IInv

LEMMA PowerLossInv == ASSUME IInv, PowerLoss PROVE IInv'
<1> USE DEF ghostVars
<1>1. ProfilesTypeOK'
  BY DEF PowerLoss, IInv, ProfilesTypeOK, NoSettings, Dirs, DeploymentProfiles
<1>2. DurableKeepsRest'
  BY DEF PowerLoss, IInv, DurableKeepsRest
<1>3. \A q \in Procs : SettingsMatch(q)' /\ TempKeepsRest(q)'
  BY DEF PowerLoss, SettingsMatch, TempKeepsRest, Replacing
<1>4. Accepted' /\ Separate'
  BY DEF PowerLoss, IInv, Accepted, ProfileNetworkOk, Separate
<1> QED
  BY <1>1, <1>2, <1>3, <1>4 DEF IInv

LEMMA NextInv == IInv /\ [Next]_vars => IInv'
<1> SUFFICES ASSUME IInv, [Next]_vars PROVE IInv'
  OBVIOUS
<1>1. CASE UNCHANGED vars
  BY <1>1 DEF vars, configVars, runVars, ghostVars, IInv, ProfilesTypeOK, SettingsMatch,
              TempKeepsRest, DurableKeepsRest, Accepted, ProfileNetworkOk, Separate
<1>2. ASSUME NEW p \in Procs, Load(p) PROVE IInv'
  BY <1>2, CreateConfigFileInv, OtherStepsInv
     DEF Load, LoadFlat, LoadSelector, LoadProfile, LoadProfileFails, configVars, ghostVars
<1>3. ASSUME NEW p \in Procs, Run(p) PROVE IInv'
  BY <1>3, OpenWalletInv, SaveDescriptorInv, OtherStepsInv
     DEF Run, OpenWalletPanics, EndCommand, configVars, ghostVars
<1>4. ASSUME NEW p \in Procs, NetworkUse(p) PROVE IInv'
  BY <1>4, ValidateProfileInv, PersistInv, OtherStepsInv
     DEF NetworkUse, ReplaceActiveProfile, FlatRefused, SyncTemporary, configVars, ghostVars
<1>5. ASSUME NEW p \in Procs, Kill(p) PROVE IInv'
  BY <1>5, OtherStepsInv DEF Kill, configVars, ghostVars
<1>6. CASE User
  BY <1>6, EditConfigInv, EditProfileInv DEF User
<1> QED
  BY <1>1, <1>2, <1>3, <1>4, <1>5, <1>6, FlushInv, PowerLossInv DEF Next

LEMMA Invariance == Spec => []IInv
BY InitInv, NextInv, PTL DEF Spec

-----------------------------------------------------------------------------
(* Theorems.                                                               *)

(* The root file is whole whenever the power goes, however many users of   *)
(* `network use` and edits there are (set_active_profile).                 *)
THEOREM RootFileWhole == Spec => []ConfigWhole
<1>1. IInv => ConfigWhole
  BY DEF IInv, DurableKeepsRest, ConfigWhole
<1> QED
  BY <1>1, Invariance, PTL

(* What the user wrote survives every replacement of the root file that    *)
(* the user did not overlap (replace_active_profile).                      *)
THEOREM UserEditsSurvive == Spec => []EditsSurvive
<1>1. IInv => EditsSurvive
  BY DEF IInv, DurableKeepsRest, ProfilesTypeOK, EditsSurvive
<1> QED
  BY <1>1, Invariance, PTL

(* A profile `network use` accepted is refused only for what it does not   *)
(* look at (validate_deployment_profile, Settings::load_from).             *)
THEOREM AcceptedProfilesLoad == Spec => []AcceptedLoads
<1>1. IInv => AcceptedLoads
  <2> SUFFICES ASSUME IInv, NEW f \in vouched, ~ProfileLoads(f)
               PROVE  profiles[f].wrong \cap {"backend", "gapLimit", "lookahead"} # {}
    BY DEF AcceptedLoads
  <2>1. profiles[f].wrong \subseteq Checked
    BY ProfilesAssumption DEF IInv, ProfilesTypeOK, Files
  <2>2. profiles[f].wrong \cap Validated = {} /\ profiles[f].wrong # {}
    BY DEF IInv, Accepted, ProfileLoads, Resolves
  <2> QED
    BY <2>1, <2>2 DEF Checked, Validated
<1> QED
  BY <1>1, Invariance, PTL

(* No file mixes data of Bitcoin with that of a test network (db_path,     *)
(* descriptor_file).                                                       *)
THEOREM BitcoinApart == Spec => []NetworksApart
<1>1. IInv => NetworksApart
  <2> SUFFICES ASSUME IInv, NEW d \in Dirs, NEW n \in Names, "bitcoin" \in data[<<d, n>>]
               PROVE  data[<<d, n>>] = {"bitcoin"}
    BY DEF NetworksApart, IInv, ProfilesTypeOK
  <2> QED
    BY DEF IInv, Separate
<1> QED
  BY <1>1, Invariance, PTL

(* A profile's directory holds data of the profile's network only.         *)
THEOREM ProfilesOwnDirectory == Spec => []OwnDirectory
<1>1. IInv => OwnDirectory
  BY DEF IInv, Separate, OwnDirectory, Dirs, DeploymentProfiles
<1> QED
  BY <1>1, Invariance, PTL
=============================================================================
