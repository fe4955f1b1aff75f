-------------------------- MODULE ConfigLifecycle --------------------------
(***************************************************************************)
(* The life of a configuration: the API's staged copy and its handlers     *)
(* (internal/api: config_handlers.go, apply_handlers.go, hcl_handlers.go,  *)
(* server.go), the control plane's copy, its HCL tree and its calls        *)
(* (internal/ctlplane/server.go, internal/config/hcl.go,                   *)
(* hcl_serializer.go), the file and its backups (internal/config/backup.go)*)
(*                                                                         *)
(* A configuration has four parts, which the code treats differently when  *)
(* it is saved (ConfigSerializer has the blocks one by one): "syn" stands  *)
(* for the fields that SyncConfigToHCL writes, "cut" for the fields of the *)
(* same blocks that it does not write, "flag" for the attributes it writes *)
(* only when they are set, and "uns" for the sections it leaves alone.     *)
(* A handler is a sequence of calls; the control plane serves calls of     *)
(* different clients concurrently.                                         *)
(***************************************************************************)
EXTENDS Naturals, FiniteSets

CONSTANTS
    Clients,          \* requests the API serves at a time
    Values,           \* contents of a section; 0: it is missing
    Inputs,           \* configurations clients send; the first is one of them
    Unwritable,       \* contents that are written so that they do not decode
    Bad,              \* a block that parses but does not decode
    NoTree, NoConfig, \* hclConfig is nil; no configuration
    MaxBackups,       \* unpinned backups that are kept
    MaxOps,           \* bound: operations started
    MaxFaults         \* bound: reloads and saves that fail

Configs == [syn : Values, flag : BOOLEAN, cut : Values, uns : Values]
Texts == [syn : Values \cup {Bad}, flag : BOOLEAN, cut : Values, uns : Values \cup {Bad}]
Backups == [ver : Nat, text : Texts, pinned : BOOLEAN]

ASSUME LifecycleAssumption ==
    /\ 0 \in Values /\ Values \subseteq Nat /\ Bad \notin Values
    /\ MaxBackups \in Nat \ {0} /\ MaxOps \in Nat /\ MaxFaults \in Nat
    /\ Unwritable \subseteq Values \ {0} /\ Inputs \subseteq Configs

VARIABLES
    staged,    \* the API's Config
    running,   \* the server's config
    applied,   \* what the firewall was last reloaded with
    tree,      \* hclConfig's syntax tree
    file,      \* the configuration file
    backups,   \* the backup directory
    req,       \* requests in progress: [pc, cfg, ver, before]
    unsaved,   \* history: running or the file has changed since they were made the same
    ops, faults \* counters for the bounds

lifeVars == <<staged, running, applied, tree, file, backups, req, unsaved, ops, faults>>

NoRequest == [pc |-> "idle", cfg |-> NoConfig, ver |-> 0, before |-> NoConfig]

LifeInit ==
    \E c \in {x \in Inputs : ~x.flag} :
        /\ staged = c /\ running = c /\ applied = c /\ file = c
        /\ tree = NoTree /\ backups = {}
        /\ req = [c1 \in Clients |-> NoRequest]
        /\ unsaved = FALSE /\ ops = 0 /\ faults = 0

-----------------------------------------------------------------------------
(* HCL                                                                     *)

Decodes(text) == text.syn # Bad /\ text.uns # Bad

\* LoadForgiving comments out the blocks that do not decode.
Salvaged(text) ==
    [syn |-> IF text.syn = Bad THEN 0 ELSE text.syn, flag |-> text.flag, cut |-> text.cut,
     uns |-> IF text.uns = Bad THEN 0 ELSE text.uns]

\* Mutant: the tree is written as it is.
SyncConfigToHCL_Nothing(t, cfg) == t

\* The blocks of the structure replace those of the tree, without the fields
\* that are not written; an attribute that is off is not removed; other
\* sections stay what they are in the tree.
SyncConfigToHCL(t, cfg) ==
    [syn |-> IF cfg.syn \in Unwritable THEN Bad ELSE cfg.syn, flag |-> t.flag \/ cfg.flag,
     cut |-> 0, uns |-> t.uns]

\* ensureHCLConfig: the tree, read from the file when there is none.
CanEnsure == tree # NoTree \/ Decodes(file)
Ensured == IF tree = NoTree THEN file ELSE tree

-----------------------------------------------------------------------------
(* Requests                                                                *)

Counted == ops < MaxOps /\ ops' = ops + 1
At(c, pc) == req[c].pc = pc
\* The request of c goes on; what others have seen of running is no longer so.
Goes(c, r, changed) ==
    req' = [d \in Clients |-> IF d = c THEN r
                              ELSE IF changed THEN [req[d] EXCEPT !.before = NoConfig]
                              ELSE req[d]]
Others(changed) == req' = [d \in Clients |-> IF changed THEN [req[d] EXCEPT !.before = NoConfig]
                                             ELSE req[d]]

-----------------------------------------------------------------------------
(* Calls of the control plane                                              *)

\* reloadConfigInternal: the reference changes first, whatever fails after.
\* ok says whether the call returns without a critical error.
Reload(cfg, ok) ==
    /\ running' = cfg
    /\ \/ ok /\ applied' = cfg /\ UNCHANGED faults
       \/ /\ ~ok /\ faults < MaxFaults /\ faults' = faults + 1
          /\ applied' \in {cfg, applied}

Newest == IF backups = {} THEN 0
          ELSE CHOOSE v \in {b.ver : b \in backups} : \A b \in backups : b.ver <= v

\* Mutant: pinned backups are pruned with the others.
Pruned_Pinned(bs) ==
    {b \in bs : Cardinality({d \in bs : d.ver > b.ver}) < MaxBackups}

\* pruneOldBackups keeps the newest MaxBackups of those that are not pinned.
Pruned(bs) ==
    {b \in bs : b.pinned \/ Cardinality({d \in bs : ~d.pinned /\ d.ver > b.ver}) < MaxBackups}

\* CreateBackup: the file as it is on disk, under the next version.
WithBackup(bs, v) == Pruned(bs \cup {[ver |-> v, text |-> file, pinned |-> FALSE]})

\* SaveConfig.  A reply with an error looks like success to the handlers.
Save(ok) ==
    IF ok THEN /\ CanEnsure
               /\ tree' = SyncConfigToHCL(Ensured, running)
               /\ file' = tree'
               /\ unsaved' = FALSE
               /\ UNCHANGED faults
          ELSE /\ faults < MaxFaults \/ ~CanEnsure
               /\ faults' = IF CanEnsure THEN faults + 1 ELSE faults
               /\ UNCHANGED <<tree, file, unsaved>>

-----------------------------------------------------------------------------
(* Handlers                                                                *)

\* The handlers that edit the staged configuration (applyConfigUpdate).
StageUpdate(cfg) ==
    /\ Counted /\ cfg # staged /\ staged' = cfg
    /\ UNCHANGED <<running, applied, tree, file, backups, req, unsaved, faults>>

\* handleDiscardConfig.
Discard ==
    /\ Counted /\ staged # running /\ staged' = running
    /\ UNCHANGED <<running, applied, tree, file, backups, req, unsaved, faults>>

\* handleApplyConfig begins with a copy of the staged configuration,
\* handleSystemSettings with the running one and one attribute changed,
\* handleSafeApply with the one in the request, after a backup.
StartApply(c) ==
    /\ Counted /\ At(c, "idle")
    /\ Goes(c, [NoRequest EXCEPT !.pc = "apply", !.cfg = staged], FALSE)
    /\ UNCHANGED <<staged, running, applied, tree, file, backups, unsaved, faults>>

StartSettings(c, on) ==
    /\ Counted /\ At(c, "idle")
    /\ Goes(c, [NoRequest EXCEPT !.pc = "settings", !.cfg = [running EXCEPT !.flag = on]], FALSE)
    /\ UNCHANGED <<staged, running, applied, tree, file, backups, unsaved, faults>>

StartSafeApply(c, cfg) ==
    /\ Counted /\ At(c, "idle") /\ cfg # running
    /\ Goes(c, [pc |-> "safe", cfg |-> cfg, ver |-> Newest + 1,
                before |-> IF unsaved THEN NoConfig ELSE running], FALSE)
    /\ backups' = WithBackup(backups, Newest + 1)
    /\ UNCHANGED <<staged, running, applied, tree, file, unsaved, faults>>

\* The call of ApplyConfig.  An error ends the request; nothing is undone.
DoApply(c, ok) ==
    /\ req[c].pc \in {"apply", "settings", "safe"}
    /\ Reload(req[c].cfg, ok)
    /\ unsaved' = TRUE
    /\ IF ~ok THEN Goes(c, NoRequest, TRUE) /\ UNCHANGED staged
       ELSE /\ Goes(c, [req[c] EXCEPT !.pc = IF @ = "safe" THEN "ping" ELSE "save"], TRUE)
            /\ staged' = IF At(c, "apply") THEN staged ELSE req[c].cfg
    /\ UNCHANGED <<tree, file, backups, ops>>

\* The targets answer, or the backup is restored.
Ping(c, ok) ==
    /\ At(c, "ping")
    /\ Goes(c, [req[c] EXCEPT !.pc = IF ok THEN "save" ELSE "rollback"], FALSE)
    /\ UNCHANGED <<staged, running, applied, tree, file, backups, unsaved, ops, faults>>

DoSave(c, ok) ==
    /\ At(c, "save")
    /\ Save(ok)
    /\ Goes(c, [req[c] EXCEPT !.pc = "backup"], FALSE)
    /\ UNCHANGED <<staged, running, applied, backups, ops>>

\* The backup of the known-good state.
PostBackup(c) ==
    /\ At(c, "backup")
    /\ backups' = WithBackup(backups, Newest + 1)
    /\ Goes(c, NoRequest, FALSE)
    /\ UNCHANGED <<staged, running, applied, tree, file, unsaved, ops, faults>>

\* handleRestoreBackup asks for any version.
StartRestore(c, v) ==
    /\ Counted /\ At(c, "idle")
    /\ \E b \in backups : b.ver = v
    /\ Goes(c, [NoRequest EXCEPT !.pc = "rollback", !.ver = v], FALSE)
    /\ UNCHANGED <<staged, running, applied, tree, file, backups, unsaved, faults>>

\* RestoreBackup, first part: after a backup of the present file, the text of
\* the version becomes the file and is read.  A version that has been pruned,
\* or one that does not decode, ends it with an error.
RestoreFile(c) ==
    /\ At(c, "rollback")
    /\ IF \E b \in backups : b.ver = req[c].ver
       THEN \E b \in {x \in backups : x.ver = req[c].ver} :
              /\ backups' = WithBackup(backups, Newest + 1)
              /\ file' = b.text
              /\ unsaved' = TRUE
              /\ Goes(c, IF Decodes(b.text)
                         THEN [req[c] EXCEPT !.pc = "reapply", !.cfg = b.text]
                         ELSE NoRequest, FALSE)
       ELSE Goes(c, NoRequest, FALSE) /\ UNCHANGED <<file, backups, unsaved>>
    /\ UNCHANGED <<staged, running, applied, tree, ops, faults>>

\* Mutant: the configuration is replaced but not applied.
RestoreApply_Desync(c, ok) ==
    /\ At(c, "reapply")
    /\ tree' = req[c].cfg /\ running' = req[c].cfg /\ unsaved' = FALSE
    /\ Goes(c, [NoRequest EXCEPT !.pc = "done", !.before = req[c].before], TRUE)
    /\ UNCHANGED <<staged, applied, file, backups, ops, faults>>

\* Second part, after calls of others: it replaces configuration and tree, and
\* is applied; the file may be another by then.
RestoreApply(c, ok) ==
    /\ At(c, "reapply")
    /\ Reload(req[c].cfg, ok)
    /\ tree' = req[c].cfg
    /\ unsaved' = (file # req[c].cfg)
    /\ Goes(c, [NoRequest EXCEPT !.pc = IF ok THEN "done" ELSE "idle", !.before = req[c].before], TRUE)
    /\ UNCHANGED <<staged, file, backups, ops>>

Answer(c) ==
    /\ At(c, "done") /\ Goes(c, NoRequest, FALSE)
    /\ UNCHANGED <<staged, running, applied, tree, file, backups, unsaved, ops, faults>>

-----------------------------------------------------------------------------
(* Calls and signals that are one step                                     *)

\* Mutant: the running configuration takes what it could decode.
SetSection_Partial(part, v) ==
    /\ Counted /\ CanEnsure
    /\ tree' = [Ensured EXCEPT ![part] = v]
    /\ running' = tree' /\ unsaved' = TRUE /\ Others(TRUE)
    /\ UNCHANGED <<staged, applied, file, backups, faults>>

\* SetSectionHCL, DeleteSection and DeleteSectionByLabel: the tree is changed
\* first, and stays changed when it does not decode.  Nothing is applied.
SetSection(part, v) ==
    /\ Counted /\ CanEnsure
    /\ tree' = [Ensured EXCEPT ![part] = v]
    /\ IF Decodes(tree') THEN running' = tree' /\ unsaved' = TRUE /\ Others(TRUE)
       ELSE UNCHANGED <<running, unsaved, req>>
    /\ UNCHANGED <<staged, applied, file, backups, faults>>

\* SetRawHCL: text that does not decode is refused.
SetRawHCL(cfg, ok) ==
    /\ Counted /\ CanEnsure
    /\ tree' = cfg /\ Reload(cfg, ok) /\ unsaved' = TRUE /\ Others(TRUE)
    /\ UNCHANGED <<staged, file, backups>>

\* handleSaveConfig.
SaveConfig(ok) ==
    /\ Counted /\ Save(ok)
    /\ UNCHANGED <<staged, running, applied, backups, req>>

\* The file is edited by hand and SIGHUP reloads it; the tree is not read again.
EditAndReload(cfg, ok) ==
    /\ Counted /\ cfg # file
    /\ file' = cfg /\ Reload(cfg, ok) /\ unsaved' = FALSE /\ Others(TRUE)
    /\ UNCHANGED <<staged, tree, backups>>

\* CreatePinnedBackup, PinBackup and UnpinBackup.
Pin(v, on) ==
    /\ Counted /\ \E b \in backups : b.ver = v /\ b.pinned # on
    /\ backups' = {IF b.ver = v THEN [b EXCEPT !.pinned = on] ELSE b : b \in backups}
    /\ UNCHANGED <<staged, running, applied, tree, file, req, unsaved, faults>>

\* The daemon starts anew and the API with it; requests in progress end.
Restart ==
    /\ Counted
    /\ running' = Salvaged(file) /\ applied' = Salvaged(file) /\ staged' = Salvaged(file)
    /\ tree' = NoTree /\ req' = [c \in Clients |-> NoRequest] /\ unsaved' = FALSE
    /\ UNCHANGED <<file, backups, faults>>

LifeNext ==
    \/ \E cfg \in Inputs : StageUpdate(cfg)
    \/ Discard \/ Restart
    \/ \E c \in Clients :
         \/ StartApply(c) \/ PostBackup(c) \/ RestoreFile(c) \/ Answer(c)
         \/ \E on \in BOOLEAN : StartSettings(c, on)
         \/ \E cfg \in Inputs : StartSafeApply(c, cfg)
         \/ \E b \in backups : StartRestore(c, b.ver)
         \/ \E ok \in BOOLEAN : DoApply(c, ok) \/ Ping(c, ok) \/ DoSave(c, ok) \/ RestoreApply(c, ok)
    \/ \E part \in {"syn", "uns"}, v \in Values \cup {Bad} : SetSection(part, v)
    \/ \E cfg \in Inputs, ok \in BOOLEAN : SetRawHCL(cfg, ok) \/ EditAndReload(cfg, ok)
    \/ \E ok \in BOOLEAN : SaveConfig(ok)
    \/ \E b \in backups, on \in BOOLEAN : Pin(b.ver, on)

LifeSpec == LifeInit /\ [][LifeNext]_lifeVars

-----------------------------------------------------------------------------
(* Properties                                                              *)

\* The running configuration always decodes, and so does what is applied;
\* versions of backups are never given twice.
LifeTypeOK ==
    /\ staged \in Configs /\ running \in Configs /\ applied \in Configs
    /\ file \in Texts /\ tree \in Texts \cup {NoTree}
    /\ backups \subseteq Backups
    /\ \A a, b \in backups : a.ver = b.ver => a = b

\* Whatever clients, operators and signals do, when the last change was saved
\* or restored, and no other one saved meanwhile, the fields that are written are the same in the file and in
\* the running configuration, unless they cannot be read back.
SavedSections ==
    ~unsaved => \/ file.syn = running.syn
                \/ file.syn = Bad /\ running.syn \in Unwritable \cup {0}

\* No backup that is pinned is ever removed or changed in its text.
PinnedKept ==
    [][\A b \in backups : b.pinned => \E d \in backups' : d.ver = b.ver /\ d.text = b.text]_lifeVars

\* A safe apply that was rolled back, with nobody else changing anything
\* meanwhile, has brought back what was applied before, if that was saved.
RollbackReturns ==
    \A c \in Clients : At(c, "done") /\ req[c].before # NoConfig => applied.syn = req[c].before.syn

\* What is saved is what was applied, a rollback returns to what was before,
\* and pinned backups stay.
ConfigurationKept == [](LifeTypeOK /\ SavedSections /\ RollbackReturns) /\ PinnedKept
=============================================================================
