------------------------------- MODULE RigConfig -------------------------------
(***************************************************************************)
(* The settings of the Android application: MinerViewModel.kt, which keeps *)
(* what the user sees, and ConfigManager.kt, which keeps one MinerConfig   *)
(* in the shared preferences.  Each operation runs on the main thread.     *)
(*                                                                         *)
(* saveConfig() applies to the preferences in memory at once and to the    *)
(* file later: a process that dies may lose the last changes.  The service *)
(* runs in another process and only gets the config of a START.            *)
(***************************************************************************)
EXTENDS Integers, Sequences, FiniteSets, SequencesExt

CONSTANTS
  Rigs,       \* names of rigs, but for "default"
  Addresses,  \* addresses the user enters
  Valid,      \* those of them with 95 characters or more
  NoAddress,  \* the empty string
  Imported,   \* the configs the user imports
  MaxStarts,  \* bound on the STARTs sent
  MaxListed,  \* bound on the names in availableRigs
  MaxEdits    \* bound on the edits of the settings

ASSUME ConfigAssumption ==
  /\ Valid \subseteq Addresses
  /\ NoAddress \notin Addresses
  /\ MaxStarts \in Nat /\ MaxListed \in Nat \ {0} /\ MaxEdits \in Nat

Default == "default"
ASSUME DefaultAssumption == Default \notin Rigs

\* What a rig may be called: nothing keeps a user from "default".
Names == Rigs \cup {Default}

\* What a field for an address may hold.
Entered == Addresses \cup {NoAddress}

Monitors == 1 .. MaxStarts
RigMaps == UNION {[R -> Entered] : R \in {D \in SUBSET Names : IsFiniteSet(D)}}
\* No START has been sent.
NoStart == [wallet |-> NoAddress, unusable |-> FALSE]

NoRigs == [r \in {} |-> NoAddress]

\* MinerConfig, with the fields of SubaddressConfig that decide who is paid; of
\* the pool, whether there is a host and a port in range.
Config ==
  [wallet : Entered, worker : Seq(Rigs), pool : BOOLEAN,
   enabled : BOOLEAN, subaddress : Entered, rigs : RigMaps]

ASSUME ImportAssumption == Imported \subseteq Config

DefaultConfig ==
  [wallet |-> NoAddress, worker |-> <<>>, pool |-> TRUE,
   enabled |-> FALSE, subaddress |-> NoAddress, rigs |-> NoRigs]

VARIABLES
  prefs,      \* the stored config; worker is the list of suffixes it has grown
  disk,       \* the one in the file
  uiConfig,   \* what _uiState shows of it
  available,  \* _uiState.availableRigs
  selected,   \* _uiState.selectedRig
  isMining,   \* _uiState.isMining
  status,     \* _uiState.status
  monitor,    \* the coroutines of startMonitoring()
  starts,     \* STARTs sent so far
  edits,      \* edits made so far
  sent,       \* the wallet of the last START, and whether its pool was unusable
              \* though nothing had been typed over it
  mainWallet, \* history: the wallet of the last config imported
  doubled,    \* history: the names added to the list when they were on it
  dropped,    \* history: "default" has been removed from the list
  typed       \* history: the pool that is shown has been typed over

store == <<prefs, disk>>
ui == <<uiConfig, available, selected, isMining, status>>
history == <<mainWallet, doubled, dropped, typed>>
vars == <<store, ui, monitor, starts, edits, sent, history>>

\* The names in the order of the map, which is as good as any.
GetRigNames(c) == <<Default>> \o SetToSeq(DOMAIN c.rigs)

\* loadSavedConfig: the settings are shown anew, isMining and status stay.
LoadSavedConfig(c) ==
  /\ uiConfig' = c
  /\ available' = GetRigNames(c)
  /\ selected' = Default
  /\ doubled' = {}
  /\ dropped' = FALSE
  /\ typed' = FALSE

Init ==
  /\ prefs = DefaultConfig /\ disk = DefaultConfig
  /\ uiConfig = DefaultConfig
  /\ available = GetRigNames(DefaultConfig)
  /\ selected = Default
  /\ isMining = FALSE
  /\ status = "Stopped"
  /\ monitor = [m \in Monitors |-> "none"]
  /\ starts = 0
  /\ edits = 0
  /\ sent = NoStart
  /\ mainWallet = NoAddress
  /\ doubled = {}
  /\ dropped = FALSE
  /\ typed = FALSE

\* getActiveMiningAddress.
ActiveAddress ==
  CASE selected = Default /\ prefs.enabled /\ prefs.subaddress # NoAddress -> prefs.subaddress
    [] selected # Default /\ selected \in DOMAIN prefs.rigs -> prefs.rigs[selected]
    [] OTHER -> prefs.wallet

\* getWorkerName.
WorkerName == IF selected = Default THEN prefs.worker ELSE Append(prefs.worker, selected)

With(rigs, r, a) == [x \in DOMAIN rigs \cup {r} |-> IF x = r THEN a ELSE rigs[x]]
Without(rigs, r) == [x \in DOMAIN rigs \ {r} |-> rigs[x]]

-----------------------------------------------------------------------------
(* Guards and effects of the actions below.  Where a definition is named   *)
(* Faulty..., it is the next definition with a plausible slip; no action   *)
(* uses it.                                                                *)

\* List minus element drops its first occurrence.
FaultyAvailableAfterRemove(r) == available
AvailableAfterRemove(r) == RemoveFirst(available, r)

FaultySelectedAfterRemove(r) == IF selected = r THEN NoAddress ELSE selected
SelectedAfterRemove(r) == IF selected = r THEN Default ELSE selected

\* validateConfig: the address that will be paid is checked.
FaultyAddressValid == uiConfig.wallet \in Valid
AddressValid == ActiveAddress \in Valid

\* The pool that is checked is the one shown.
FaultyPoolValid == TRUE
PoolValid == uiConfig.pool

\* The condition of the monitoring loop.
FaultyMonitorGoesOn == TRUE
MonitorGoesOn == isMining

-----------------------------------------------------------------------------
(* The operations                                                          *)

Edit == edits < MaxEdits /\ edits' = edits + 1

\* importConfigFromJson with a MinerConfig; other text leaves the store as it
\* was and loads it again.
Import ==
  \E c \in Imported :
    /\ Edit
    /\ prefs' = c
    /\ LoadSavedConfig(c)
    /\ mainWallet' = c.wallet
    /\ UNCHANGED <<disk, isMining, status, monitor, starts, sent>>

ImportGarbage ==
  /\ LoadSavedConfig(prefs)
  /\ UNCHANGED <<store, isMining, status, monitor, starts, sent, mainWallet, edits>>

SelectRig(r) ==
  /\ r \in ToSet(available)
  /\ selected' = r
  /\ UNCHANGED <<store, uiConfig, available, isMining, status, monitor, starts, sent,
                 history, edits>>

ToggleSubaddress(en) ==
  /\ Edit
  /\ uiConfig' = [uiConfig EXCEPT !.enabled = en]
  /\ prefs' = [prefs EXCEPT !.enabled = en]
  /\ UNCHANGED <<disk, available, selected, isMining, status, monitor, starts, sent,
                 history>>

UpdateMiningSubaddress(a) ==
  /\ Edit
  /\ uiConfig' = [uiConfig EXCEPT !.subaddress = a]
  /\ prefs' = [prefs EXCEPT !.subaddress = a]
  /\ UNCHANGED <<disk, available, selected, isMining, status, monitor, starts, sent,
                 history>>

AddRig(r, a) ==
  LET rigs == With(uiConfig.rigs, r, a) IN
  /\ Edit
  /\ Len(available) < MaxListed
  /\ uiConfig' = [uiConfig EXCEPT !.rigs = rigs]
  /\ available' = Append(available, r)
  /\ prefs' = [prefs EXCEPT !.rigs = rigs]
  /\ doubled' = IF r \in ToSet(available) THEN doubled \cup {r} ELSE doubled
  /\ UNCHANGED <<disk, selected, isMining, status, monitor, starts, sent, mainWallet,
                 dropped, typed>>

RemoveRig(r) ==
  LET rigs == Without(uiConfig.rigs, r) IN
  /\ Edit
  /\ uiConfig' = [uiConfig EXCEPT !.rigs = rigs]
  /\ available' = AvailableAfterRemove(r)
  /\ selected' = SelectedAfterRemove(r)
  /\ prefs' = [prefs EXCEPT !.rigs = rigs]
  /\ dropped' = (dropped \/ r = Default)
  /\ UNCHANGED <<disk, isMining, status, monitor, starts, sent, mainWallet, doubled,
                 typed>>

\* updatePoolHost and updatePoolPort change what is shown and save nothing.
UpdatePool(pool) ==
  /\ Edit
  /\ uiConfig' = [uiConfig EXCEPT !.pool = pool]
  /\ typed' = TRUE
  /\ UNCHANGED <<store, available, selected, isMining, status, monitor, starts, sent,
                 mainWallet, doubled, dropped>>

\* So do updateWallet, updateWorker and updateThreads; nobody reads what they
\* change.
UpdateWallet(a) ==
  /\ Edit
  /\ uiConfig' = [uiConfig EXCEPT !.wallet = a]
  /\ UNCHANGED <<store, available, selected, isMining, status, monitor, starts, sent,
                 history>>

\* startMining saves the active address as the wallet and the worker's new
\* name as its name, sends START, and launches a monitor.
StartMining ==
  LET c == [prefs EXCEPT !.wallet = ActiveAddress, !.worker = WorkerName] IN
  /\ starts < MaxStarts
  /\ AddressValid /\ PoolValid
  /\ prefs' = c
  /\ uiConfig' = [uiConfig EXCEPT !.wallet = c.wallet, !.worker = c.worker]
  /\ isMining' = TRUE /\ status' = "Starting"
  /\ sent' = [wallet |-> c.wallet, unusable |-> ~c.pool /\ ~typed]
  /\ starts' = starts + 1
  /\ monitor' = [monitor EXCEPT ![starts + 1] = "delay"]
  /\ UNCHANGED <<disk, available, selected, history, edits>>

StopMining ==
  /\ isMining' = FALSE /\ status' = "Stopped"
  /\ UNCHANGED <<store, uiConfig, available, selected, monitor, starts, sent,
                 history, edits>>

\* A monitor wakes after a second, shows "Mining", and only then looks
\* whether to go on.
MonitorWakes(m) ==
  /\ monitor[m] = "delay"
  /\ status' = "Mining"
  /\ monitor' = [monitor EXCEPT ![m] = IF MonitorGoesOn THEN "delay" ELSE "over"]
  /\ UNCHANGED <<store, uiConfig, available, selected, isMining, starts, sent,
                 history, edits>>

\* The file catches up with the preferences.
Flush ==
  /\ disk' = prefs
  /\ UNCHANGED <<prefs, ui, monitor, starts, sent, history, edits>>

\* The process dies and the application is opened again.
Reopen ==
  /\ prefs' = disk
  /\ LoadSavedConfig(disk)
  /\ isMining' = FALSE /\ status' = "Stopped"
  /\ monitor' = [m \in Monitors |-> IF monitor[m] = "none" THEN "none" ELSE "over"]
  /\ mainWallet' = NoAddress
  /\ UNCHANGED <<disk, starts, sent, edits>>

Next ==
  \/ Import \/ ImportGarbage
  \/ \E b \in BOOLEAN : ToggleSubaddress(b) \/ UpdatePool(b)
  \/ \E a \in Entered : UpdateMiningSubaddress(a) \/ UpdateWallet(a)
  \/ \E r \in Names, a \in Entered : AddRig(r, a)
  \/ \E r \in Names : SelectRig(r) \/ RemoveRig(r)
  \/ StartMining \/ StopMining
  \/ \E m \in Monitors : MonitorWakes(m)
  \/ Flush \/ Reopen

\* A monitor's second ends.
Fairness == \A m \in Monitors : WF_vars(MonitorWakes(m))

Spec == Init /\ [][Next]_vars /\ Fairness

-----------------------------------------------------------------------------
(* Properties                                                              *)

Listed == ToSet(available)

\* The configs have their types, and the selection and the list are made of
\* the names of rigs.
TypeOK ==
  /\ {prefs, disk, uiConfig} \subseteq Config
  /\ available \in Seq(Names)
  /\ selected \in Names
  /\ {isMining, dropped} \subseteq BOOLEAN
  /\ doubled \subseteq Names
  /\ status \in {"Stopped", "Starting", "Mining"}
  /\ monitor \in [Monitors -> {"none", "delay", "over"}]
  /\ starts \in 0 .. MaxStarts /\ edits \in 0 .. MaxEdits
  /\ {sent.wallet, mainWallet} \subseteq Entered
  /\ {sent.unusable, typed} \subseteq BOOLEAN

\* Who is paid for each rig is shown as it is stored, after any sequence of
\* edits, imports, starts and deaths of the process, and so is the pool until it
\* is typed over: the two copies that every operation updates side by side never
\* drift apart (MinerViewModel.kt:55-72, 117-217).
RigsAgree ==
  /\ uiConfig.rigs = prefs.rigs
  /\ uiConfig.enabled = prefs.enabled
  /\ uiConfig.subaddress = prefs.subaddress
  /\ ~typed => uiConfig.pool = prefs.pool

\* Every rig of the map can be selected, and "default" as long as nobody removes
\* it; a name that is neither is listed only if it was added while it was listed,
\* for then one removal leaves it there (MinerViewModel.kt:149-179).
RigsListed ==
  /\ DOMAIN prefs.rigs \subseteq Listed
  /\ ~dropped => Default \in Listed
  /\ \A r \in Listed : r = Default \/ r \in DOMAIN prefs.rigs \/ r \in doubled

\* The selection is one of the list, but for a "default" that was removed; with
\* RigsListed: nobody mines for a rig that is gone from the map, and so for the
\* wallet in its stead, unless its name was doubled (MinerViewModel.kt:75-107, 177).
SelectedListed == selected \in Listed \/ (selected = Default /\ dropped)

\* The list, the selection, the shown settings and the stored ones stay one
\* and the same account of who is paid (MinerViewModel.kt:104-188).
RigsConsistent == RigsAgree /\ RigsListed /\ SelectedListed

\* The service is only ever asked to mine for an address that passed the check,
\* whatever was edited or removed before; and at a pool that passed it, unless
\* the user had typed over the one that is stored and sent
\* (MinerViewModel.kt:190-258).
SentValid ==
  starts > 0 => sent.wallet \in Valid /\ ~sent.unusable

\* After a stop every monitor comes to its end, unless mining is started
\* again first (MinerViewModel.kt:317-334).
MonitorsEnd ==
  ~isMining ~> (isMining \/ \A m \in Monitors : monitor[m] # "delay")

-----------------------------------------------------------------------------
(* What the texts of the repository say and the code does not do           *)

\* "Subaddress mining disabled, using main wallet" (MinerViewModel.kt:129):
\* without a subaddress and on the default rig the imported wallet is paid.
MainWalletPaid ==
  (mainWallet # NoAddress /\ ~prefs.enabled /\ selected = Default) =>
    ActiveAddress = mainWallet

=============================================================================
