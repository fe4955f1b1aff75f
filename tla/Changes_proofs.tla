---------------------------- MODULE Changes_proofs ----------------------------
(***************************************************************************)
(* Proofs about what is changed, kept and taken back: ConfigLifecycle, for *)
(* any configurations, clients, backups and faults; ConfigSerializer, for  *)
(* every block of the schema and any edits; and SafeApply, for any set of  *)
(* rulesets and any number of applies.                                     *)
(***************************************************************************)
EXTENDS SafeApply, ConfigLifecycle, ConfigSerializer, FiniteSetTheorems, WellFoundedInduction, Integers, TLAPS

-----------------------------------------------------------------------------
(***************************************************************************)
(* ConfigLifecycle: types first, which hold however calls interleave; then *)
(* what the file, the backups and the requests under way have in common.   *)
(***************************************************************************)
Requests ==
    [pc : {"idle", "apply", "settings", "safe", "ping", "save", "backup", "rollback", "reapply", "done"},
     cfg : Configs \cup {NoConfig}, ver : Nat, before : Configs \cup {NoConfig}]
\* A request that is about to apply has a configuration.
ReqTyped(r) == r \in Requests /\ (r.pc \in {"apply", "settings", "safe", "reapply"} => r.cfg \in Configs)

\* Backups: versions are different, and there is a newest.
BackupsSound(bs) == /\ bs \in SUBSET Backups
                    /\ \A a, b \in bs : a.ver = b.ver => a = b
                    /\ \E n \in Nat : \A b \in bs : b.ver <= n

LifeTypes == /\ staged \in Configs /\ running \in Configs /\ applied \in Configs
             /\ file \in Texts /\ tree \in Texts \cup {NoTree}
             /\ BackupsSound(backups) /\ unsaved \in BOOLEAN
             /\ req \in [Clients -> Requests] /\ \A c \in Clients : ReqTyped(req[c])

LEMMA TextOfConfig == \A t \in Texts : Decodes(t) => t \in Configs
BY DEF Texts, Configs, Decodes

LEMMA ConfigIsText == \A c \in Configs : c \in Texts /\ Decodes(c)
<1> SUFFICES ASSUME NEW c \in Configs PROVE c \in Texts /\ Decodes(c)
  OBVIOUS
<1>1. c \in Texts
  BY DEF Texts, Configs
<1>2. c.syn \in Values /\ c.uns \in Values
  BY DEF Configs
<1> QED BY <1>1, <1>2, LifecycleAssumption DEF Decodes

LEMMA SalvagedTyped == \A t \in Texts : Salvaged(t) \in Configs
<1> SUFFICES ASSUME NEW t \in Texts PROVE Salvaged(t) \in Configs
  OBVIOUS
<1>1. t.syn \in Values \cup {Bad} /\ t.uns \in Values \cup {Bad} /\ t.flag \in BOOLEAN /\ t.cut \in Values
  BY DEF Texts
<1> QED BY <1>1, LifecycleAssumption DEF Salvaged, Configs

LEMMA SyncTyped == \A t \in Texts, c \in Configs : SyncConfigToHCL(t, c) \in Texts
<1> SUFFICES ASSUME NEW t \in Texts, NEW c \in Configs PROVE SyncConfigToHCL(t, c) \in Texts
  OBVIOUS
<1>1. t.uns \in Values \cup {Bad} /\ t.flag \in BOOLEAN
  BY DEF Texts
<1>2. c.syn \in Values /\ c.flag \in BOOLEAN
  BY DEF Configs
<1>3. (t.flag \/ c.flag) \in BOOLEAN
  BY <1>1, <1>2
<1> QED BY <1>1, <1>2, <1>3, LifecycleAssumption DEF SyncConfigToHCL, Texts

LEMMA ReloadTyped ==
    ASSUME LifeTypes, NEW cfg \in Configs, NEW ok \in BOOLEAN, Reload(cfg, ok)
    PROVE  running' \in Configs /\ applied' \in Configs
BY DEF Reload, LifeTypes

LEMMA SaveTyped ==
    ASSUME LifeTypes, NEW ok \in BOOLEAN, Save(ok)
    PROVE  file' \in Texts /\ tree' \in Texts \cup {NoTree} /\ unsaved' \in BOOLEAN
<1>1. CASE ok
  <2>1. Ensured \in Texts
    BY DEF LifeTypes, Ensured
  <2>2. SyncConfigToHCL(Ensured, running) \in Texts
    BY <2>1, SyncTyped DEF LifeTypes
  <2> QED BY <1>1, <2>2 DEF Save
<1>2. CASE ~ok
  BY <1>2 DEF Save, LifeTypes
<1> QED BY <1>1, <1>2

\* A request moves on; of the others, at most what they have seen is forgotten.
Seen(r, changed) == IF changed THEN [r EXCEPT !.before = NoConfig] ELSE r

LEMMA SeenTyped == \A r : \A changed \in BOOLEAN : ReqTyped(r) => ReqTyped(Seen(r, changed))
<1> SUFFICES ASSUME NEW r, NEW changed \in BOOLEAN, ReqTyped(r) PROVE ReqTyped(Seen(r, changed))
  OBVIOUS
<1>1. CASE changed
  BY <1>1 DEF Seen, ReqTyped, Requests
<1>2. CASE ~changed
  BY <1>2 DEF Seen
<1> QED BY <1>1, <1>2

LEMMA GoesTyped ==
    ASSUME LifeTypes, NEW c \in Clients, NEW r, ReqTyped(r), NEW changed \in BOOLEAN, Goes(c, r, changed)
    PROVE  /\ req' \in [Clients -> Requests] /\ \A d \in Clients : ReqTyped(req'[d])
           /\ req'[c] = r /\ \A d \in Clients \ {c} : req'[d] = Seen(req[d], changed)
<1>1. req'[c] = r /\ \A d \in Clients \ {c} : req'[d] = Seen(req[d], changed)
  BY DEF Goes, Seen
<1>2. \A d \in Clients : ReqTyped(req'[d])
  BY <1>1, SeenTyped DEF LifeTypes
<1>3. req' = [d \in Clients |-> req'[d]]
  BY DEF Goes
<1>4. \A d \in Clients : req'[d] \in Requests
  BY <1>2 DEF ReqTyped
<1> QED BY <1>1, <1>2, <1>3, <1>4

LEMMA OthersTyped ==
    ASSUME LifeTypes, NEW changed \in BOOLEAN, Others(changed)
    PROVE  /\ req' \in [Clients -> Requests] /\ \A d \in Clients : ReqTyped(req'[d])
           /\ \A d \in Clients : req'[d] = Seen(req[d], changed)
<1>1. \A d \in Clients : req'[d] = Seen(req[d], changed)
  BY DEF Others, Seen
<1>2. \A d \in Clients : ReqTyped(req'[d])
  BY <1>1, SeenTyped DEF LifeTypes
<1>3. req' = [d \in Clients |-> req'[d]]
  BY DEF Others
<1>4. \A d \in Clients : req'[d] \in Requests
  BY <1>2 DEF ReqTyped
<1> QED BY <1>1, <1>2, <1>3, <1>4

LEMMA NoRequestTyped == ReqTyped(NoRequest) /\ NoRequest.before = NoConfig /\ NoRequest.pc = "idle"
BY DEF NoRequest, ReqTyped, Requests

\* The newest of some backups.
LEMMA NewestIsLast ==
    ASSUME BackupsSound(backups)
    PROVE  Newest \in Nat /\ (\A b \in backups : b.ver <= Newest)
<1>1. CASE backups = {}
  BY <1>1 DEF Newest
<1>2. CASE backups # {}
  <2> DEFINE V == {b.ver : b \in backups}
  <2>1. PICK n \in Nat : \A b \in backups : b.ver <= n
    BY DEF BackupsSound
  <2>2. \A b \in backups : b.ver \in Nat
    BY DEF BackupsSound, Backups
  <2> DEFINE T == {n - v : v \in V}
  <2>3. T \subseteq Nat /\ T # {}
    <3>1. \A v \in V : v \in Nat /\ v <= n
      BY <2>1, <2>2
    <3> HIDE DEF V
    <3>2. \A v \in V : n - v \in Nat
      <4>1. \A k \in Nat : k <= n => n - k \in Nat
        BY <2>1
      <4> QED BY <3>1, <4>1
    <3>3. V # {}
      BY <1>2 DEF V
    <3> QED BY <3>2, <3>3
  <2>4. PICK x \in T : \A y \in T : ~(<<y, x>> \in OpToRel(<, Nat))
    BY <2>3, NatLessThanWellFounded, WFMin
  <2>5. x \in Nat /\ \A y \in T : y \in Nat /\ ~(y < x)
    BY <2>3, <2>4 DEF OpToRel
  <2>6. PICK m \in V : x = n - m
    BY <2>4
  <2>7. \A b \in backups : ~(n - b.ver < n - m)
    BY <2>5, <2>6
  <2>8. m \in Nat
    BY <2>2
  <2>9. \A b \in backups : b.ver <= m
    <3>1. \A k \in Nat : ~(n - k < n - m) => k <= m
      BY <2>8
    <3> QED BY <2>2, <2>7, <3>1
  <2> HIDE DEF T
  <2>10. \E v \in V : \A b \in backups : b.ver <= v
    BY <2>9
  <2>11. Newest \in V /\ \A b \in backups : b.ver <= Newest
    BY <1>2, <2>10 DEF Newest
  <2> QED BY <2>2, <2>11
<1> QED BY <1>1, <1>2

\* What the second of two sets of backups has of the first: its versions with
\* their texts, the pinned ones, and only later ones besides.
Later(bs, cs) == /\ \A d \in cs : \/ \E b \in bs : d.ver = b.ver /\ d.text = b.text
                                  \/ \A b \in bs : b.ver < d.ver
                 /\ \A b \in bs : \E d \in cs : b.ver <= d.ver
PinnedOf(bs, cs) == \A b \in bs : b.pinned => \E d \in cs : d.ver = b.ver /\ d.text = b.text

LEMMA BackupMade ==
    ASSUME BackupsSound(backups), file \in Texts
    PROVE  LET bs == WithBackup(backups, Newest + 1)
           IN  /\ BackupsSound(bs) /\ Later(backups, bs) /\ PinnedOf(backups, bs)
               /\ \E b \in bs : b.ver = Newest + 1
               /\ \A b \in bs : b \in backups \/ (b.ver = Newest + 1 /\ b.text = file)
<1> DEFINE n == [ver |-> Newest + 1, text |-> file, pinned |-> FALSE]
           all == backups \cup {n}
           bs == Pruned(all)
<1>1. Newest \in Nat /\ \A b \in backups : b.ver <= Newest /\ b.ver \in Nat
  <2>1. \A b \in backups : b.ver \in Nat
    BY DEF BackupsSound, Backups
  <2> QED BY <2>1, NewestIsLast
<1>2. bs \subseteq all /\ \A b \in all : b.pinned => b \in bs
  BY DEF Pruned
<1>3. n \in bs
  <2>1. \A d \in all : ~(d.ver > n.ver)
    BY <1>1
  <2>2. {d \in all : ~d.pinned /\ d.ver > n.ver} = {}
    BY <2>1
  <2>3. Cardinality({d \in all : ~d.pinned /\ d.ver > n.ver}) < MaxBackups
    BY <2>2, FS_EmptySet, LifecycleAssumption
  <2> HIDE DEF n
  <2> QED BY <2>3 DEF Pruned
<1>4. n \in Backups /\ n.ver = Newest + 1 /\ n.text = file
  BY <1>1 DEF Backups
<1>5. bs = WithBackup(backups, Newest + 1)
  BY DEF WithBackup
<1> HIDE DEF n, bs
<1>6. \A b \in bs : b \in backups \/ b = n
  BY <1>2
<1>7. BackupsSound(bs)
  <2>1. bs \in SUBSET Backups
    BY <1>4, <1>6 DEF BackupsSound
  <2>2. \A b \in backups : b.ver # n.ver
    BY <1>1, <1>4
  <2>3. \A a, b \in bs : a.ver = b.ver => a = b
    BY <1>6, <2>2 DEF BackupsSound
  <2>4. \A b \in bs : b.ver <= Newest + 1
    BY <1>1, <1>4, <1>6
  <2>5. Newest + 1 \in Nat
    BY <1>1
  <2> QED BY <2>1, <2>3, <2>4, <2>5 DEF BackupsSound
<1>8. Later(backups, bs)
  <2>1. \A b \in backups : b.ver < n.ver /\ b.ver <= n.ver
    BY <1>1, <1>4
  <2> QED BY <1>3, <1>6, <2>1 DEF Later
<1>9. PinnedOf(backups, bs)
  BY <1>2 DEF PinnedOf
<1>10. \A b \in bs : b \in backups \/ (b.ver = Newest + 1 /\ b.text = file)
  BY <1>4, <1>6
<1> QED BY <1>3, <1>4, <1>5, <1>7, <1>8, <1>9, <1>10

\* Pinning changes neither versions nor texts.
LEMMA PinChanges ==
    ASSUME BackupsSound(backups), NEW v, NEW on \in BOOLEAN
    PROVE  LET bs == {IF b.ver = v THEN [b EXCEPT !.pinned = on] ELSE b : b \in backups}
           IN  BackupsSound(bs) /\ Later(backups, bs) /\ PinnedOf(backups, bs)
<1> DEFINE new(b) == IF b.ver = v THEN [b EXCEPT !.pinned = on] ELSE b
           bs == {new(b) : b \in backups}
<1>1. \A b \in backups : new(b) \in Backups /\ new(b).ver = b.ver /\ new(b).text = b.text
  BY DEF BackupsSound, Backups
<1>2. bs = {IF b.ver = v THEN [b EXCEPT !.pinned = on] ELSE b : b \in backups}
  OBVIOUS
<1>3. \A b \in backups : b.ver \in Nat
  BY DEF BackupsSound, Backups
<1> HIDE DEF new
<1>4. BackupsSound(bs)
  <2>1. bs \in SUBSET Backups
    BY <1>1
  <2>2. \A a, b \in bs : a.ver = b.ver => a = b
    BY <1>1 DEF BackupsSound
  <2>3. \E n \in Nat : \A b \in bs : b.ver <= n
    BY <1>1 DEF BackupsSound
  <2> QED BY <2>1, <2>2, <2>3 DEF BackupsSound
<1>5. \A d \in bs : \E b \in backups : d.ver = b.ver /\ d.text = b.text
  BY <1>1
<1>6. \A b \in backups : \E d \in bs : d.ver = b.ver /\ d.text = b.text /\ b.ver <= d.ver
  BY <1>1, <1>3
<1>7. Later(backups, bs) /\ PinnedOf(backups, bs)
  BY <1>5, <1>6 DEF Later, PinnedOf
<1> QED BY <1>2, <1>4, <1>7

LEMMA BackupsStay == ASSUME BackupsSound(backups) PROVE Later(backups, backups) /\ PinnedOf(backups, backups)
<1>1. \A b \in backups : b.ver \in Nat
  BY DEF BackupsSound, Backups
<1>2. \A b \in backups : b.ver <= b.ver
  BY <1>1
<1> QED BY <1>2 DEF Later, PinnedOf

\* What a step leaves of the types and the backups.
LifeKept == LifeTypes' /\ Later(backups, backups') /\ PinnedOf(backups, backups')

LEMMA KeptBy ==
    ASSUME LifeTypes, staged' \in Configs, running' \in Configs, applied' \in Configs,
           file' \in Texts, tree' \in Texts \cup {NoTree}, unsaved' \in BOOLEAN,
           \/ UNCHANGED backups
           \/ BackupsSound(backups') /\ Later(backups, backups') /\ PinnedOf(backups, backups'),
           \/ UNCHANGED req
           \/ req' \in [Clients -> Requests] /\ \A d \in Clients : ReqTyped(req'[d])
    PROVE  LifeKept
<1>1. BackupsSound(backups') /\ Later(backups, backups') /\ PinnedOf(backups, backups')
  <2>1. CASE UNCHANGED backups
    BY <2>1, BackupsStay DEF LifeTypes
  <2> QED BY <2>1
<1>2. req' \in [Clients -> Requests] /\ \A d \in Clients : ReqTyped(req'[d])
  BY DEF LifeTypes
<1> QED BY <1>1, <1>2 DEF LifeKept, LifeTypes

LEMMA StagingKept ==
    ASSUME LifeTypes, (\E cfg \in Inputs : StageUpdate(cfg)) \/ Discard PROVE LifeKept
<1>1. staged' \in Configs
  BY LifecycleAssumption DEF LifeTypes, StageUpdate, Discard
<1>2. UNCHANGED <<running, applied, tree, file, backups, req, unsaved>>
  BY DEF StageUpdate, Discard
<1> QED BY <1>1, <1>2, KeptBy DEF LifeTypes

LEMMA StartKept ==
    ASSUME LifeTypes, NEW c \in Clients,
           \/ StartApply(c) \/ Answer(c)
           \/ \E on \in BOOLEAN : StartSettings(c, on)
           \/ \E b \in backups : StartRestore(c, b.ver)
           \/ \E ok \in BOOLEAN : Ping(c, ok)
    PROVE  LifeKept
<1>1. UNCHANGED <<staged, running, applied, tree, file, backups, unsaved>>
  BY DEF StartApply, Answer, StartSettings, StartRestore, Ping
<1>2. \E r : ReqTyped(r) /\ Goes(c, r, FALSE)
  <2>0. staged \in Configs /\ running \in Configs /\ ReqTyped(req[c])
    BY DEF LifeTypes
  <2>1. CASE StartApply(c)
    <3>1. ReqTyped([NoRequest EXCEPT !.pc = "apply", !.cfg = staged])
      BY <2>0 DEF NoRequest, ReqTyped, Requests
    <3> QED BY <2>1, <3>1 DEF StartApply
  <2>2. CASE Answer(c)
    BY <2>2, NoRequestTyped DEF Answer
  <2>3. CASE \E on \in BOOLEAN : StartSettings(c, on)
    <3>1. PICK on \in BOOLEAN : StartSettings(c, on)
      BY <2>3
    <3>2. [running EXCEPT !.flag = on] \in Configs
      BY <2>0 DEF Configs
    <3>3. ReqTyped([NoRequest EXCEPT !.pc = "settings", !.cfg = [running EXCEPT !.flag = on]])
      BY <3>2 DEF NoRequest, ReqTyped, Requests
    <3> QED BY <3>1, <3>3 DEF StartSettings
  <2>4. CASE \E b \in backups : StartRestore(c, b.ver)
    <3>1. PICK b \in backups : StartRestore(c, b.ver)
      BY <2>4
    <3>2. b.ver \in Nat
      BY DEF LifeTypes, BackupsSound, Backups
    <3>3. ReqTyped([NoRequest EXCEPT !.pc = "rollback", !.ver = b.ver])
      BY <3>2 DEF NoRequest, ReqTyped, Requests
    <3> QED BY <3>1, <3>3 DEF StartRestore
  <2>5. CASE \E ok \in BOOLEAN : Ping(c, ok)
    <3>1. PICK ok \in BOOLEAN : Ping(c, ok)
      BY <2>5
    <3>2. ReqTyped([req[c] EXCEPT !.pc = IF ok THEN "save" ELSE "rollback"])
      BY <2>0 DEF ReqTyped, Requests
    <3> QED BY <3>1, <3>2 DEF Ping
  <2> QED BY <2>1, <2>2, <2>3, <2>4, <2>5
<1>3. PICK r : ReqTyped(r) /\ Goes(c, r, FALSE)
  BY <1>2
<1>4. req' \in [Clients -> Requests] /\ \A d \in Clients : ReqTyped(req'[d])
  BY <1>3, GoesTyped
<1> QED BY <1>1, <1>4, KeptBy DEF LifeTypes

SafeRequest(cfg) == [pc |-> "safe", cfg |-> cfg, ver |-> Newest + 1,
                     before |-> IF unsaved THEN NoConfig ELSE running]

LEMMA SafeRequestTyped ==
    ASSUME LifeTypes, NEW cfg \in Configs PROVE ReqTyped(SafeRequest(cfg))
<1>1. Newest + 1 \in Nat
  BY NewestIsLast DEF LifeTypes
<1>2. (IF unsaved THEN NoConfig ELSE running) \in Configs \cup {NoConfig}
  BY DEF LifeTypes
<1> QED BY <1>1, <1>2 DEF SafeRequest, ReqTyped, Requests

LEMMA SafeApplyKept ==
    ASSUME LifeTypes, NEW c \in Clients, NEW cfg \in Inputs, StartSafeApply(c, cfg) PROVE LifeKept
<1>1. cfg \in Configs
  BY LifecycleAssumption
<1>2. Goes(c, SafeRequest(cfg), FALSE) /\ backups' = WithBackup(backups, Newest + 1)
      /\ UNCHANGED <<staged, running, applied, tree, file, unsaved>>
  BY DEF StartSafeApply, SafeRequest
<1>3. req' \in [Clients -> Requests] /\ \A d \in Clients : ReqTyped(req'[d])
  BY <1>1, <1>2, SafeRequestTyped, GoesTyped
<1>4. BackupsSound(backups') /\ Later(backups, backups') /\ PinnedOf(backups, backups')
  BY <1>2, BackupMade DEF LifeTypes
<1> QED BY <1>2, <1>3, <1>4, KeptBy DEF LifeTypes

LEMMA ApplyKept ==
    ASSUME LifeTypes, NEW c \in Clients, NEW ok \in BOOLEAN, DoApply(c, ok) PROVE LifeKept
<1>1. req[c].cfg \in Configs /\ ReqTyped(req[c])
  BY DEF LifeTypes, ReqTyped, DoApply
<1>2. running' \in Configs /\ applied' \in Configs
  BY <1>1, ReloadTyped DEF DoApply
<1>3. staged' \in Configs
  BY <1>1 DEF LifeTypes, DoApply
<1>4. \E r : ReqTyped(r) /\ Goes(c, r, TRUE)
  <2>1. ReqTyped([req[c] EXCEPT !.pc = IF @ = "safe" THEN "ping" ELSE "save"])
    BY <1>1 DEF ReqTyped, Requests
  <2> QED BY <2>1, NoRequestTyped DEF DoApply
<1>5. req' \in [Clients -> Requests] /\ \A d \in Clients : ReqTyped(req'[d])
  BY <1>4, GoesTyped
<1>6. unsaved' \in BOOLEAN /\ UNCHANGED <<tree, file, backups>>
  BY DEF DoApply
<1> QED BY <1>2, <1>3, <1>5, <1>6, KeptBy DEF LifeTypes

LEMMA SaveKept ==
    ASSUME LifeTypes, NEW c \in Clients, NEW ok \in BOOLEAN, DoSave(c, ok) PROVE LifeKept
<1>1. ReqTyped([req[c] EXCEPT !.pc = "backup"])
  BY DEF LifeTypes, ReqTyped, Requests
<1>2. req' \in [Clients -> Requests] /\ \A d \in Clients : ReqTyped(req'[d])
  BY <1>1, GoesTyped DEF DoSave
<1>3. file' \in Texts /\ tree' \in Texts \cup {NoTree} /\ unsaved' \in BOOLEAN
  BY SaveTyped DEF DoSave
<1>4. UNCHANGED <<staged, running, applied, backups>>
  BY DEF DoSave
<1> QED BY <1>2, <1>3, <1>4, KeptBy DEF LifeTypes

LEMMA BackupKept ==
    ASSUME LifeTypes, NEW c \in Clients, PostBackup(c) PROVE LifeKept
<1>1. backups' = WithBackup(backups, Newest + 1) /\ Goes(c, NoRequest, FALSE)
      /\ UNCHANGED <<staged, running, applied, tree, file, unsaved>>
  BY DEF PostBackup
<1>2. req' \in [Clients -> Requests] /\ \A d \in Clients : ReqTyped(req'[d])
  BY <1>1, NoRequestTyped, GoesTyped
<1>3. BackupsSound(backups') /\ Later(backups, backups') /\ PinnedOf(backups, backups')
  BY <1>1, BackupMade DEF LifeTypes
<1> QED BY <1>1, <1>2, <1>3, KeptBy DEF LifeTypes

\* What a restore goes on with.
RestoreRequest(r, text) ==
    IF Decodes(text) THEN [r EXCEPT !.pc = "reapply", !.cfg = text] ELSE NoRequest

LEMMA RestoreRequestTyped ==
    \A r, text : ReqTyped(r) /\ text \in Texts => ReqTyped(RestoreRequest(r, text))
<1> SUFFICES ASSUME NEW r, NEW text, ReqTyped(r), text \in Texts PROVE ReqTyped(RestoreRequest(r, text))
  OBVIOUS
<1>1. CASE Decodes(text)
  <2>1. text \in Configs
    BY <1>1, TextOfConfig
  <2>2. ReqTyped([r EXCEPT !.pc = "reapply", !.cfg = text])
    BY <2>1 DEF ReqTyped, Requests
  <2> QED BY <1>1, <2>2 DEF RestoreRequest
<1>2. CASE ~Decodes(text)
  BY <1>2, NoRequestTyped DEF RestoreRequest
<1> QED BY <1>1, <1>2

LEMMA RestoreKept ==
    ASSUME LifeTypes, NEW c \in Clients, RestoreFile(c) PROVE LifeKept
<1>0. UNCHANGED <<staged, running, applied, tree>>
  BY DEF RestoreFile
<1>1. CASE \E b \in backups : b.ver = req[c].ver
  <2>1. PICK b \in backups : /\ backups' = WithBackup(backups, Newest + 1) /\ file' = b.text /\ unsaved' = TRUE
                             /\ Goes(c, RestoreRequest(req[c], b.text), FALSE)
    BY <1>1 DEF RestoreFile, RestoreRequest
  <2>2. b.text \in Texts
    BY DEF LifeTypes, BackupsSound, Backups
  <2>3. ReqTyped(RestoreRequest(req[c], b.text))
    BY <2>2, RestoreRequestTyped DEF LifeTypes
  <2>4. req' \in [Clients -> Requests] /\ \A d \in Clients : ReqTyped(req'[d])
    BY <2>1, <2>3, GoesTyped
  <2>5. BackupsSound(backups') /\ Later(backups, backups') /\ PinnedOf(backups, backups')
    BY <2>1, BackupMade DEF LifeTypes
  <2> QED BY <1>0, <2>1, <2>2, <2>4, <2>5, KeptBy DEF LifeTypes
<1>2. CASE ~\E b \in backups : b.ver = req[c].ver
  <2>1. Goes(c, NoRequest, FALSE) /\ UNCHANGED <<file, backups, unsaved>>
    BY <1>2 DEF RestoreFile
  <2>2. req' \in [Clients -> Requests] /\ \A d \in Clients : ReqTyped(req'[d])
    BY <2>1, NoRequestTyped, GoesTyped
  <2> QED BY <1>0, <2>1, <2>2, KeptBy DEF LifeTypes
<1> QED BY <1>1, <1>2

\* How a restore ends.
RestoredRequest(r, ok) == [NoRequest EXCEPT !.pc = IF ok THEN "done" ELSE "idle", !.before = r.before]

LEMMA ReapplyKept ==
    ASSUME LifeTypes, NEW c \in Clients, NEW ok \in BOOLEAN, RestoreApply(c, ok) PROVE LifeKept
<1>1. req[c].cfg \in Configs /\ req[c].before \in Configs \cup {NoConfig}
  BY DEF LifeTypes, ReqTyped, Requests, RestoreApply, At
<1>2. running' \in Configs /\ applied' \in Configs
  BY <1>1, ReloadTyped DEF RestoreApply
<1>3. ReqTyped(RestoredRequest(req[c], ok))
  BY <1>1 DEF RestoredRequest, NoRequest, ReqTyped, Requests
<1>4. Goes(c, RestoredRequest(req[c], ok), TRUE) /\ tree' = req[c].cfg /\ unsaved' \in BOOLEAN
      /\ UNCHANGED <<staged, file, backups>>
  BY DEF RestoreApply, RestoredRequest
<1>5. req' \in [Clients -> Requests] /\ \A d \in Clients : ReqTyped(req'[d])
  BY <1>3, <1>4, GoesTyped
<1>6. tree' \in Texts \cup {NoTree}
  BY <1>1, <1>4, ConfigIsText
<1> QED BY <1>2, <1>4, <1>5, <1>6, KeptBy DEF LifeTypes

LEMMA CallsKept ==
    ASSUME LifeTypes,
           \/ \E part \in {"syn", "uns"}, v \in Values \cup {Bad} : SetSection(part, v)
           \/ \E cfg \in Inputs, ok \in BOOLEAN : SetRawHCL(cfg, ok) \/ EditAndReload(cfg, ok)
           \/ \E ok \in BOOLEAN : SaveConfig(ok)
           \/ \E b \in backups, on \in BOOLEAN : Pin(b.ver, on)
           \/ Restart
    PROVE  LifeKept
<1>0. \A cfg \in Inputs : cfg \in Configs /\ cfg \in Texts
  BY LifecycleAssumption, ConfigIsText
<1>1. ASSUME NEW part \in {"syn", "uns"}, NEW v \in Values \cup {Bad}, SetSection(part, v) PROVE LifeKept
  <2>1. Ensured \in Texts
    BY DEF LifeTypes, Ensured
  <2>2. tree' \in Texts
    <3>1. tree' = [Ensured EXCEPT ![part] = v]
      BY <1>1 DEF SetSection
    <3>2. CASE part = "syn"
      BY <2>1, <3>1, <3>2 DEF Texts
    <3>3. CASE part = "uns"
      BY <2>1, <3>1, <3>3 DEF Texts
    <3> QED BY <3>2, <3>3
  <2>3. UNCHANGED <<staged, applied, file, backups>>
    BY <1>1 DEF SetSection
  <2>4. CASE Decodes(tree')
    <3>1. running' = tree' /\ unsaved' = TRUE /\ Others(TRUE)
      BY <1>1, <2>4 DEF SetSection
    <3>2. running' \in Configs
      BY <2>2, <2>4, <3>1, TextOfConfig
    <3>3. req' \in [Clients -> Requests] /\ \A d \in Clients : ReqTyped(req'[d])
      BY <3>1, OthersTyped
    <3> QED BY <2>2, <2>3, <3>1, <3>2, <3>3, KeptBy DEF LifeTypes
  <2>5. CASE ~Decodes(tree')
    <3>1. UNCHANGED <<running, unsaved, req>>
      BY <1>1, <2>5 DEF SetSection
    <3> QED BY <2>2, <2>3, <3>1, KeptBy DEF LifeTypes
  <2> QED BY <2>4, <2>5
<1>2. ASSUME NEW cfg \in Inputs, NEW ok \in BOOLEAN, SetRawHCL(cfg, ok) \/ EditAndReload(cfg, ok) PROVE LifeKept
  <2>1. Reload(cfg, ok) /\ Others(TRUE) /\ UNCHANGED <<staged, backups>>
    BY <1>2 DEF SetRawHCL, EditAndReload
  <2>2. running' \in Configs /\ applied' \in Configs
    BY <1>0, <2>1, ReloadTyped
  <2>3. req' \in [Clients -> Requests] /\ \A d \in Clients : ReqTyped(req'[d])
    BY <2>1, OthersTyped
  <2>4. file' \in Texts /\ tree' \in Texts \cup {NoTree} /\ unsaved' \in BOOLEAN
    BY <1>0, <1>2 DEF SetRawHCL, EditAndReload, LifeTypes
  <2> QED BY <2>1, <2>2, <2>3, <2>4, KeptBy DEF LifeTypes
<1>3. ASSUME NEW ok \in BOOLEAN, SaveConfig(ok) PROVE LifeKept
  <2>1. file' \in Texts /\ tree' \in Texts \cup {NoTree} /\ unsaved' \in BOOLEAN
    BY <1>3, SaveTyped DEF SaveConfig
  <2>2. UNCHANGED <<staged, running, applied, backups, req>>
    BY <1>3 DEF SaveConfig
  <2> QED BY <2>1, <2>2, KeptBy DEF LifeTypes
<1>4. ASSUME NEW b \in backups, NEW on \in BOOLEAN, Pin(b.ver, on) PROVE LifeKept
  <2>1. BackupsSound(backups') /\ Later(backups, backups') /\ PinnedOf(backups, backups')
    BY <1>4, PinChanges DEF Pin, LifeTypes
  <2>2. UNCHANGED <<staged, running, applied, tree, file, req, unsaved>>
    BY <1>4 DEF Pin
  <2> QED BY <2>1, <2>2, KeptBy DEF LifeTypes
<1>5. CASE Restart
  <2>1. Salvaged(file) \in Configs
    BY SalvagedTyped DEF LifeTypes
  <2>2. req' = [c \in Clients |-> NoRequest] /\ UNCHANGED <<file, backups>>
        /\ running' = Salvaged(file) /\ applied' = Salvaged(file) /\ staged' = Salvaged(file)
        /\ tree' = NoTree /\ unsaved' = FALSE
    BY <1>5 DEF Restart
  <2>3. NoRequest \in Requests
    BY NoRequestTyped DEF ReqTyped
  <2>4. req' \in [Clients -> Requests] /\ \A d \in Clients : ReqTyped(req'[d])
    BY <2>2, <2>3, NoRequestTyped
  <2> QED BY <2>1, <2>2, <2>4, KeptBy DEF LifeTypes
<1> QED BY <1>1, <1>2, <1>3, <1>4, <1>5

LEMMA LifeTypesStep == ASSUME LifeTypes, LifeNext \/ UNCHANGED lifeVars PROVE LifeKept
<1>1. CASE UNCHANGED lifeVars
  BY <1>1, KeptBy DEF lifeVars, LifeTypes
<1>2. CASE LifeNext
  BY <1>2, StagingKept, StartKept, SafeApplyKept, ApplyKept, SaveKept, BackupKept, RestoreKept, ReapplyKept,
     CallsKept DEF LifeNext
<1> QED BY <1>1, <1>2

\* What a request that can be rolled back will find, and what it has brought
\* back when it ends.
ReturnSound(r, bs, app) ==
    r.before # NoConfig =>
      /\ r.pc \in {"safe", "ping", "rollback"} =>
           /\ \E b \in bs : r.ver <= b.ver
           /\ \A b \in bs : b.ver = r.ver => b.text.syn = r.before.syn \/ b.text.syn = Bad
      /\ r.pc = "reapply" => r.cfg.syn = r.before.syn
      /\ r.pc = "done" => app.syn = r.before.syn

SavedInv == SavedSections /\ \A c \in Clients : ReturnSound(req[c], backups, applied)

LEMMA ReturnFree == \A bs, app : ReturnSound(NoRequest, bs, app)
BY DEF ReturnSound, NoRequest

LEMMA LaterReturn ==
    ASSUME NEW r, NEW bs, NEW cs, NEW app, r.ver \in Nat, BackupsSound(bs), BackupsSound(cs), Later(bs, cs),
           ReturnSound(r, bs, app)
    PROVE  ReturnSound(r, cs, app)
<1> SUFFICES ASSUME r.before # NoConfig
             PROVE  /\ r.pc \in {"safe", "ping", "rollback"} =>
                         /\ \E b \in cs : r.ver <= b.ver
                         /\ \A b \in cs : b.ver = r.ver => b.text.syn = r.before.syn \/ b.text.syn = Bad
                    /\ r.pc = "reapply" => r.cfg.syn = r.before.syn
                    /\ r.pc = "done" => app.syn = r.before.syn
  BY DEF ReturnSound
<1>1. ASSUME r.pc \in {"safe", "ping", "rollback"}
      PROVE  /\ \E b \in cs : r.ver <= b.ver
             /\ \A b \in cs : b.ver = r.ver => b.text.syn = r.before.syn \/ b.text.syn = Bad
  <2>1. PICK m \in bs : r.ver <= m.ver
    BY <1>1 DEF ReturnSound
  <2>2. \A b \in bs : b.ver = r.ver => b.text.syn = r.before.syn \/ b.text.syn = Bad
    BY <1>1 DEF ReturnSound
  <2>3. m.ver \in Nat /\ \A b \in cs : b.ver \in Nat
    BY DEF BackupsSound, Backups
  <2>4. PICK d \in cs : m.ver <= d.ver
    BY DEF Later
  <2>5. r.ver <= d.ver
    BY <2>1, <2>3, <2>4
  <2>6. ASSUME NEW b \in cs, b.ver = r.ver PROVE b.text.syn = r.before.syn \/ b.text.syn = Bad
    <3>1. ~(m.ver < b.ver)
      BY <2>1, <2>3, <2>6
    <3>2. PICK a \in bs : b.ver = a.ver /\ b.text = a.text
      BY <3>1 DEF Later
    <3> QED BY <2>2, <2>6, <3>2
  <2> QED BY <2>5, <2>6
<1>2. (r.pc = "reapply" => r.cfg.syn = r.before.syn) /\ (r.pc = "done" => app.syn = r.before.syn)
  BY DEF ReturnSound
<1> QED BY <1>1, <1>2

LEMMA SeenReturn ==
    ASSUME NEW r, NEW bs, NEW cs, NEW app, NEW new, NEW changed \in BOOLEAN, ReqTyped(r),
           BackupsSound(bs), BackupsSound(cs), Later(bs, cs), changed \/ new = app, ReturnSound(r, bs, app)
    PROVE  ReturnSound(Seen(r, changed), cs, new)
<1>1. CASE changed
  <2>1. Seen(r, changed).before = NoConfig
    BY <1>1 DEF Seen, ReqTyped, Requests
  <2> QED BY <2>1 DEF ReturnSound
<1>2. CASE ~changed
  <2>1. r.ver \in Nat
    BY DEF ReqTyped, Requests
  <2>2. ReturnSound(r, cs, app)
    BY <2>1, LaterReturn
  <2> QED BY <1>2, <2>2 DEF Seen
<1> QED BY <1>1, <1>2

\* The request of c goes on as r.
LEMMA GoesSaved ==
    ASSUME LifeTypes, LifeKept, SavedInv, NEW c \in Clients, NEW r, ReqTyped(r), NEW changed \in BOOLEAN,
           Goes(c, r, changed), changed \/ applied' = applied, ReturnSound(r, backups', applied'), SavedSections'
    PROVE  SavedInv'
<1>1. req'[c] = r /\ \A d \in Clients \ {c} : req'[d] = Seen(req[d], changed)
  BY GoesTyped
<1>2. \A d \in Clients : ReqTyped(req[d])
  BY DEF LifeTypes
<1>3. ASSUME NEW d \in Clients \ {c} PROVE ReturnSound(req'[d], backups', applied')
  <2>1. BackupsSound(backups) /\ BackupsSound(backups') /\ Later(backups, backups')
    BY DEF LifeTypes, LifeKept
  <2>2. ReturnSound(req[d], backups, applied)
    BY DEF SavedInv
  <2>3. ReturnSound(Seen(req[d], changed), backups', applied')
    BY <1>2, <2>1, <2>2, SeenReturn
  <2> QED BY <1>1, <2>3
<1>4. \A d \in Clients : ReturnSound(req'[d], backups', applied')
  BY <1>1, <1>3
<1> QED BY <1>4 DEF SavedInv

\* A call that is one step.
LEMMA OthersSaved ==
    ASSUME LifeTypes, LifeKept, SavedInv, NEW changed \in BOOLEAN, Others(changed),
           changed \/ applied' = applied, SavedSections'
    PROVE  SavedInv'
<1>1. \A d \in Clients : req'[d] = Seen(req[d], changed)
  BY OthersTyped
<1>2. \A d \in Clients : ReqTyped(req[d])
  BY DEF LifeTypes
<1>3. ASSUME NEW d \in Clients PROVE ReturnSound(req'[d], backups', applied')
  <2>1. BackupsSound(backups) /\ BackupsSound(backups') /\ Later(backups, backups')
    BY DEF LifeTypes, LifeKept
  <2>2. ReturnSound(req[d], backups, applied)
    BY DEF SavedInv
  <2>3. ReturnSound(Seen(req[d], changed), backups', applied')
    BY <1>2, <2>1, <2>2, SeenReturn
  <2> QED BY <1>1, <2>3
<1> QED BY <1>3 DEF SavedInv

LEMMA SameSaved ==
    ASSUME LifeTypes, LifeKept, SavedInv, UNCHANGED <<req, applied>>, SavedSections'
    PROVE  SavedInv'
<1>1. req = [c \in Clients |-> req[c]]
  BY DEF LifeTypes
<1>2. Others(FALSE)
  BY <1>1 DEF Others
<1> QED BY <1>2, OthersSaved

\* Writing the tree makes the file say what runs.
LEMMA SyncSays ==
    \A t, c : \/ SyncConfigToHCL(t, c).syn = c.syn
              \/ SyncConfigToHCL(t, c).syn = Bad /\ c.syn \in Unwritable \cup {0}
BY DEF SyncConfigToHCL

LEMMA SaveSaved ==
    ASSUME SavedInv, NEW ok \in BOOLEAN, Save(ok), UNCHANGED running
    PROVE  SavedSections'
<1>1. CASE ok
  <2>1. file' = SyncConfigToHCL(Ensured, running)
    BY <1>1 DEF Save
  <2>2. SavedSections'
    BY <2>1, SyncSays DEF SavedSections
  <2> QED BY <1>1, <2>2
<1>2. CASE ~ok
  <2>1. UNCHANGED <<file, unsaved, running>>
    BY <1>2 DEF Save
  <2> QED BY <2>1 DEF SavedInv, SavedSections
<1> QED BY <1>1, <1>2

LEMMA StagingSaved ==
    ASSUME LifeTypes, LifeKept, SavedInv, (\E cfg \in Inputs : StageUpdate(cfg)) \/ Discard PROVE SavedInv'
<1>1. UNCHANGED <<running, applied, file, req, unsaved>>
  BY DEF StageUpdate, Discard
<1>2. SavedSections'
  BY <1>1 DEF SavedInv, SavedSections
<1> QED BY <1>1, <1>2, SameSaved

LEMMA StartSaved ==
    ASSUME LifeTypes, LifeKept, SavedInv, NEW c \in Clients,
           \/ StartApply(c) \/ Answer(c) \/ PostBackup(c)
           \/ \E on \in BOOLEAN : StartSettings(c, on)
           \/ \E b \in backups : StartRestore(c, b.ver)
    PROVE  SavedInv'
<1>1. UNCHANGED <<running, applied, file, unsaved>>
  BY DEF StartApply, Answer, PostBackup, StartSettings, StartRestore
<1>2. SavedSections'
  BY <1>1 DEF SavedInv, SavedSections
<1>3. \E r : ReqTyped(r) /\ Goes(c, r, FALSE) /\ r.before = NoConfig
  <2>0. staged \in Configs /\ running \in Configs
    BY DEF LifeTypes
  <2>1. CASE StartApply(c)
    <3>1. ReqTyped([NoRequest EXCEPT !.pc = "apply", !.cfg = staged])
      BY <2>0 DEF NoRequest, ReqTyped, Requests
    <3>2. LET r == [NoRequest EXCEPT !.pc = "apply", !.cfg = staged] IN r.before = NoConfig
      BY DEF NoRequest
    <3> QED BY <2>1, <3>1, <3>2 DEF StartApply
  <2>2. CASE Answer(c) \/ PostBackup(c)
    BY <2>2, NoRequestTyped DEF Answer, PostBackup
  <2>3. CASE \E on \in BOOLEAN : StartSettings(c, on)
    <3>1. PICK on \in BOOLEAN : StartSettings(c, on)
      BY <2>3
    <3>2. [running EXCEPT !.flag = on] \in Configs
      BY <2>0 DEF Configs
    <3>3. ReqTyped([NoRequest EXCEPT !.pc = "settings", !.cfg = [running EXCEPT !.flag = on]])
      BY <3>2 DEF NoRequest, ReqTyped, Requests
    <3>4. LET r == [NoRequest EXCEPT !.pc = "settings", !.cfg = [running EXCEPT !.flag = on]]
          IN  r.before = NoConfig
      BY DEF NoRequest
    <3> QED BY <3>1, <3>3, <3>4 DEF StartSettings
  <2>4. CASE \E b \in backups : StartRestore(c, b.ver)
    <3>1. PICK b \in backups : StartRestore(c, b.ver)
      BY <2>4
    <3>2. b.ver \in Nat
      BY DEF LifeTypes, BackupsSound, Backups
    <3>3. ReqTyped([NoRequest EXCEPT !.pc = "rollback", !.ver = b.ver])
      BY <3>2 DEF NoRequest, ReqTyped, Requests
    <3>4. LET r == [NoRequest EXCEPT !.pc = "rollback", !.ver = b.ver] IN r.before = NoConfig
      BY DEF NoRequest
    <3> QED BY <3>1, <3>3, <3>4 DEF StartRestore
  <2> QED BY <2>1, <2>2, <2>3, <2>4
<1>4. PICK r : ReqTyped(r) /\ Goes(c, r, FALSE) /\ r.before = NoConfig
  BY <1>3
<1>5. ReturnSound(r, backups', applied')
  BY <1>4 DEF ReturnSound
<1> QED BY <1>1, <1>2, <1>4, <1>5, GoesSaved

LEMMA SafeApplySaved ==
    ASSUME LifeTypes, LifeKept, SavedInv, NEW c \in Clients, NEW cfg \in Inputs, StartSafeApply(c, cfg)
    PROVE  SavedInv'
<1>1. cfg \in Configs
  BY LifecycleAssumption
<1>2. Goes(c, SafeRequest(cfg), FALSE) /\ backups' = WithBackup(backups, Newest + 1)
      /\ UNCHANGED <<running, applied, file, unsaved>>
  BY DEF StartSafeApply, SafeRequest
<1>3. SavedSections'
  BY <1>2 DEF SavedInv, SavedSections
<1>4. ReqTyped(SafeRequest(cfg)) /\ SafeRequest(cfg).pc = "safe" /\ SafeRequest(cfg).ver = Newest + 1
  BY <1>1, SafeRequestTyped DEF SafeRequest
<1>5. SafeRequest(cfg).before # NoConfig => ~unsaved /\ SafeRequest(cfg).before = running
  BY DEF SafeRequest
<1>6. ReturnSound(SafeRequest(cfg), backups', applied')
  <2>1. CASE SafeRequest(cfg).before = NoConfig
    BY <2>1 DEF ReturnSound
  <2>2. CASE SafeRequest(cfg).before # NoConfig
    <3>1. file.syn = running.syn \/ file.syn = Bad
      BY <1>5, <2>2 DEF SavedInv, SavedSections
    <3>2. Newest \in Nat /\ \A b \in backups : b.ver \in Nat /\ b.ver <= Newest
      BY NewestIsLast DEF LifeTypes, BackupsSound, Backups
    <3>3. /\ \E b \in backups' : b.ver = Newest + 1
          /\ \A b \in backups' : b \in backups \/ (b.ver = Newest + 1 /\ b.text = file)
      BY <1>2, BackupMade DEF LifeTypes
    <3>4. \E b \in backups' : Newest + 1 <= b.ver
      BY <3>2, <3>3
    <3>5. \A b \in backups' : b.ver = Newest + 1 => b.text = file
      BY <3>2, <3>3
    <3> QED BY <1>4, <1>5, <2>2, <3>1, <3>4, <3>5 DEF ReturnSound
  <2> QED BY <2>1, <2>2
<1> QED BY <1>2, <1>3, <1>4, <1>6, GoesSaved

LEMMA ApplySaved ==
    ASSUME LifeTypes, LifeKept, SavedInv, NEW c \in Clients, NEW ok \in BOOLEAN, DoApply(c, ok)
    PROVE  SavedInv'
<1>1. unsaved' = TRUE /\ UNCHANGED <<file, backups>>
  BY DEF DoApply
<1>2. SavedSections'
  BY <1>1 DEF SavedSections
<1>3. ReqTyped(req[c]) /\ ReturnSound(req[c], backups, applied)
  BY DEF LifeTypes, SavedInv
<1>4. CASE ~ok
  <2>1. Goes(c, NoRequest, TRUE)
    BY <1>4 DEF DoApply
  <2> QED BY <1>1, <1>2, <2>1, NoRequestTyped, ReturnFree, GoesSaved
<1>5. CASE ok
  <2> DEFINE r == [req[c] EXCEPT !.pc = IF @ = "safe" THEN "ping" ELSE "save"]
  <2>1. Goes(c, r, TRUE)
    BY <1>5 DEF DoApply
  <2>2. ReqTyped(r)
    BY <1>3 DEF ReqTyped, Requests
  <2>3. /\ r.pc = (IF req[c].pc = "safe" THEN "ping" ELSE "save")
        /\ r.before = req[c].before /\ r.ver = req[c].ver
    BY <1>3 DEF ReqTyped, Requests
  <2> HIDE DEF r
  <2>4. ReturnSound(r, backups', applied')
    BY <1>1, <1>3, <2>3 DEF ReturnSound
  <2> QED BY <1>2, <2>1, <2>2, <2>4, GoesSaved
<1> QED BY <1>4, <1>5

LEMMA PingSaved ==
    ASSUME LifeTypes, LifeKept, SavedInv, NEW c \in Clients, NEW ok \in BOOLEAN, Ping(c, ok)
    PROVE  SavedInv'
<1>1. UNCHANGED <<running, applied, file, unsaved, backups>> /\ req[c].pc = "ping"
  BY DEF Ping, At
<1>2. SavedSections'
  BY <1>1 DEF SavedInv, SavedSections
<1>3. ReqTyped(req[c]) /\ ReturnSound(req[c], backups, applied)
  BY DEF LifeTypes, SavedInv
<1> DEFINE r == [req[c] EXCEPT !.pc = IF ok THEN "save" ELSE "rollback"]
<1>4. Goes(c, r, FALSE)
  BY DEF Ping
<1>5. ReqTyped(r)
  BY <1>3 DEF ReqTyped, Requests
<1>6. r.pc \in {"save", "rollback"} /\ r.before = req[c].before /\ r.ver = req[c].ver
  BY <1>3 DEF ReqTyped, Requests
<1> HIDE DEF r
<1>7. ReturnSound(r, backups', applied')
  BY <1>1, <1>3, <1>6 DEF ReturnSound
<1> QED BY <1>1, <1>2, <1>4, <1>5, <1>7, GoesSaved

LEMMA DoSaveSaved ==
    ASSUME LifeTypes, LifeKept, SavedInv, NEW c \in Clients, NEW ok \in BOOLEAN, DoSave(c, ok)
    PROVE  SavedInv'
<1>1. UNCHANGED <<running, applied, backups>> /\ Save(ok)
  BY DEF DoSave
<1>2. SavedSections'
  BY <1>1, SaveSaved
<1>3. ReqTyped(req[c])
  BY DEF LifeTypes
<1> DEFINE r == [req[c] EXCEPT !.pc = "backup"]
<1>4. Goes(c, r, FALSE)
  BY DEF DoSave
<1>5. ReqTyped(r) /\ r.pc = "backup"
  BY <1>3 DEF ReqTyped, Requests
<1> HIDE DEF r
<1>6. ReturnSound(r, backups', applied')
  BY <1>5 DEF ReturnSound
<1> QED BY <1>1, <1>2, <1>4, <1>5, <1>6, GoesSaved

LEMMA RestoreSaved ==
    ASSUME LifeTypes, LifeKept, SavedInv, NEW c \in Clients, RestoreFile(c)
    PROVE  SavedInv'
<1>0. UNCHANGED <<running, applied>> /\ req[c].pc = "rollback"
  BY DEF RestoreFile, At
<1>3. ReqTyped(req[c]) /\ ReturnSound(req[c], backups, applied)
  BY DEF LifeTypes, SavedInv
<1>1. CASE \E b \in backups : b.ver = req[c].ver
  <2>1. PICK b \in backups : /\ b.ver = req[c].ver
                             /\ backups' = WithBackup(backups, Newest + 1) /\ file' = b.text /\ unsaved' = TRUE
                             /\ Goes(c, RestoreRequest(req[c], b.text), FALSE)
    BY <1>1 DEF RestoreFile, RestoreRequest
  <2>2. b.text \in Texts
    BY DEF LifeTypes, BackupsSound, Backups
  <2>3. ReqTyped(RestoreRequest(req[c], b.text))
    BY <1>3, <2>2, RestoreRequestTyped
  <2>4. SavedSections'
    BY <2>1 DEF SavedSections
  <2>5. CASE Decodes(b.text)
    <3> DEFINE r == [req[c] EXCEPT !.pc = "reapply", !.cfg = b.text]
    <3>1. RestoreRequest(req[c], b.text) = r
      BY <2>5 DEF RestoreRequest
    <3>2. r.pc = "reapply" /\ r.cfg = b.text /\ r.before = req[c].before
      BY <1>3 DEF ReqTyped, Requests
    <3>3. ReqTyped(r) /\ Goes(c, r, FALSE)
      BY <2>1, <2>3, <3>1
    <3> HIDE DEF r
    <3>4. r.before # NoConfig => r.cfg.syn = r.before.syn
      BY <1>0, <1>3, <2>1, <2>5, <3>2 DEF ReturnSound, Decodes
    <3>5. ReturnSound(r, backups', applied')
      BY <3>2, <3>4 DEF ReturnSound
    <3> QED BY <1>0, <2>4, <3>3, <3>5, GoesSaved
  <2>6. CASE ~Decodes(b.text)
    <3>1. Goes(c, NoRequest, FALSE)
      BY <2>1, <2>6 DEF RestoreRequest
    <3> QED BY <1>0, <2>4, <3>1, NoRequestTyped, ReturnFree, GoesSaved
  <2> QED BY <2>5, <2>6
<1>2. CASE ~\E b \in backups : b.ver = req[c].ver
  <2>1. Goes(c, NoRequest, FALSE) /\ UNCHANGED <<file, backups, unsaved>>
    BY <1>2 DEF RestoreFile
  <2>2. SavedSections'
    BY <1>0, <2>1 DEF SavedInv, SavedSections
  <2> QED BY <1>0, <2>1, <2>2, NoRequestTyped, ReturnFree, GoesSaved
<1> QED BY <1>1, <1>2

LEMMA ReapplySaved ==
    ASSUME LifeTypes, LifeKept, SavedInv, NEW c \in Clients, NEW ok \in BOOLEAN, RestoreApply(c, ok)
    PROVE  SavedInv'
<1>1. /\ req[c].pc = "reapply" /\ Goes(c, RestoredRequest(req[c], ok), TRUE) /\ Reload(req[c].cfg, ok)
      /\ unsaved' = (file # req[c].cfg) /\ UNCHANGED <<file, backups>>
  BY DEF RestoreApply, RestoredRequest, At
<1>2. ReturnSound(req[c], backups, applied)
  BY DEF SavedInv
<1>3. req[c].cfg \in Configs /\ req[c].before \in Configs \cup {NoConfig}
  BY <1>1 DEF LifeTypes, ReqTyped, Requests
<1>4. running' = req[c].cfg /\ (ok => applied' = req[c].cfg)
  BY <1>1 DEF Reload
<1>5. SavedSections'
  BY <1>1, <1>4 DEF SavedSections
<1>6. ReqTyped(RestoredRequest(req[c], ok))
  BY <1>3 DEF RestoredRequest, NoRequest, ReqTyped, Requests
<1>7. /\ RestoredRequest(req[c], ok).pc = (IF ok THEN "done" ELSE "idle")
      /\ RestoredRequest(req[c], ok).before = req[c].before
  BY DEF RestoredRequest, NoRequest
<1>8. ReturnSound(RestoredRequest(req[c], ok), backups', applied')
  BY <1>1, <1>2, <1>4, <1>7 DEF ReturnSound
<1> QED BY <1>1, <1>5, <1>6, <1>8, GoesSaved

LEMMA CallsSaved ==
    ASSUME LifeTypes, LifeKept, SavedInv,
           \/ \E part \in {"syn", "uns"}, v \in Values \cup {Bad} : SetSection(part, v)
           \/ \E cfg \in Inputs, ok \in BOOLEAN : SetRawHCL(cfg, ok) \/ EditAndReload(cfg, ok)
           \/ \E ok \in BOOLEAN : SaveConfig(ok)
           \/ \E b \in backups, on \in BOOLEAN : Pin(b.ver, on)
           \/ Restart
    PROVE  SavedInv'
<1>1. ASSUME NEW part \in {"syn", "uns"}, NEW v \in Values \cup {Bad}, SetSection(part, v) PROVE SavedInv'
  <2>1. UNCHANGED <<applied, file>>
    BY <1>1 DEF SetSection
  <2>2. CASE Decodes(tree')
    <3>1. unsaved' = TRUE /\ Others(TRUE)
      BY <1>1, <2>2 DEF SetSection
    <3>2. SavedSections'
      BY <3>1 DEF SavedSections
    <3> QED BY <2>1, <3>1, <3>2, OthersSaved
  <2>3. CASE ~Decodes(tree')
    <3>1. UNCHANGED <<running, unsaved, req>>
      BY <1>1, <2>3 DEF SetSection
    <3>2. SavedSections'
      BY <2>1, <3>1 DEF SavedInv, SavedSections
    <3> QED BY <2>1, <3>1, <3>2, SameSaved
  <2> QED BY <2>2, <2>3
<1>2. ASSUME NEW cfg \in Inputs, NEW ok \in BOOLEAN, SetRawHCL(cfg, ok) PROVE SavedInv'
  <2>1. Others(TRUE) /\ unsaved' = TRUE /\ UNCHANGED file
    BY <1>2 DEF SetRawHCL
  <2>2. SavedSections'
    BY <2>1 DEF SavedSections
  <2> QED BY <2>1, <2>2, OthersSaved
<1>3. ASSUME NEW cfg \in Inputs, NEW ok \in BOOLEAN, EditAndReload(cfg, ok) PROVE SavedInv'
  <2>1. Others(TRUE) /\ file' = cfg /\ running' = cfg
    BY <1>3 DEF EditAndReload, Reload
  <2>2. SavedSections'
    BY <2>1 DEF SavedSections
  <2> QED BY <2>1, <2>2, OthersSaved
<1>4. ASSUME NEW ok \in BOOLEAN, SaveConfig(ok) PROVE SavedInv'
  <2>1. UNCHANGED <<running, applied, req>> /\ Save(ok)
    BY <1>4 DEF SaveConfig
  <2>2. SavedSections'
    BY <2>1, SaveSaved
  <2> QED BY <2>1, <2>2, SameSaved
<1>5. ASSUME NEW b \in backups, NEW on \in BOOLEAN, Pin(b.ver, on) PROVE SavedInv'
  <2>1. UNCHANGED <<running, applied, file, req, unsaved>>
    BY <1>5 DEF Pin
  <2>2. SavedSections'
    BY <2>1 DEF SavedInv, SavedSections
  <2> QED BY <2>1, <2>2, SameSaved
<1>6. CASE Restart
  <2>1. /\ req' = [c \in Clients |-> NoRequest] /\ UNCHANGED file /\ running' = Salvaged(file)
    BY <1>6 DEF Restart
  <2>2. Salvaged(file).syn = (IF file.syn = Bad THEN 0 ELSE file.syn)
    BY DEF Salvaged
  <2>3. SavedSections'
    BY <2>1, <2>2 DEF SavedSections
  <2>4. \A c \in Clients : ReturnSound(req'[c], backups', applied')
    BY <2>1, ReturnFree
  <2> QED BY <2>3, <2>4 DEF SavedInv
<1> QED BY <1>1, <1>2, <1>3, <1>4, <1>5, <1>6

LEMMA SavedStep ==
    ASSUME LifeTypes, LifeKept, SavedInv, LifeNext \/ UNCHANGED lifeVars PROVE SavedInv'
<1>1. CASE UNCHANGED lifeVars
  <2>1. UNCHANGED <<running, applied, file, req, unsaved>>
    BY <1>1 DEF lifeVars
  <2>2. SavedSections'
    BY <2>1 DEF SavedInv, SavedSections
  <2> QED BY <2>1, <2>2, SameSaved
<1>2. CASE LifeNext
  BY <1>2, StagingSaved, StartSaved, SafeApplySaved, ApplySaved, PingSaved, DoSaveSaved, RestoreSaved,
     ReapplySaved, CallsSaved DEF LifeNext
<1> QED BY <1>1, <1>2

LEMMA LifeStarts == ASSUME LifeInit PROVE LifeTypes /\ SavedInv
<1>1. PICK c \in Inputs : /\ staged = c /\ running = c /\ applied = c /\ file = c /\ tree = NoTree
                          /\ backups = {} /\ req = [d \in Clients |-> NoRequest] /\ unsaved = FALSE
  BY DEF LifeInit
<1>2. c \in Configs /\ c \in Texts
  BY LifecycleAssumption, ConfigIsText
<1>3. BackupsSound(backups)
  <2>1. backups \in SUBSET Backups /\ (\A a, b \in backups : a.ver = b.ver => a = b)
        /\ \A b \in backups : b.ver <= 0
    BY <1>1
  <2> QED BY <2>1 DEF BackupsSound
<1>4. NoRequest \in Requests
  BY NoRequestTyped DEF ReqTyped
<1>5. LifeTypes
  BY <1>1, <1>2, <1>3, <1>4, NoRequestTyped DEF LifeTypes
<1>6. SavedInv
  BY <1>1, NoRequestTyped, ReturnFree DEF SavedInv, SavedSections
<1> QED BY <1>5, <1>6

LEMMA PinnedStep == ASSUME LifeKept PROVE \A b \in backups : b.pinned => \E d \in backups' : d.ver = b.ver /\ d.text = b.text
BY DEF LifeKept, PinnedOf

\* Whatever clients, operators and signals do, however their calls interleave,
\* what runs and is applied decodes; what was saved or restored last is what
\* runs; a safe apply that was rolled back, with nothing else applied
\* meanwhile, has brought back what was applied before it; and no pinned backup
\* is removed or changed: the calls of internal/ctlplane/server.go, the
\* handlers of internal/api before them and the backups of
\* internal/config/backup.go under them.
THEOREM ConfigurationHolds == LifeSpec => ConfigurationKept
<1> DEFINE Inv == LifeTypes /\ SavedInv
<1>1. LifeInit => Inv
  BY LifeStarts
<1>2. Inv /\ [LifeNext]_lifeVars => Inv'
  <2> SUFFICES ASSUME Inv, LifeNext \/ UNCHANGED lifeVars PROVE Inv'
    OBVIOUS
  <2>1. LifeKept
    BY LifeTypesStep
  <2>2. LifeTypes'
    BY <2>1 DEF LifeKept
  <2>3. SavedInv'
    BY <2>1, SavedStep
  <2> QED BY <2>2, <2>3
<1>3. Inv => LifeTypeOK /\ SavedSections /\ RollbackReturns
  <2> SUFFICES ASSUME Inv PROVE LifeTypeOK /\ SavedSections /\ RollbackReturns
    OBVIOUS
  <2>1. LifeTypeOK
    BY DEF LifeTypes, LifeTypeOK, BackupsSound
  <2>2. RollbackReturns
    BY DEF SavedInv, ReturnSound, RollbackReturns, At
  <2> QED BY <2>1, <2>2 DEF SavedInv
<1>4. Inv /\ [LifeNext]_lifeVars =>
        [\A b \in backups : b.pinned => \E d \in backups' : d.ver = b.ver /\ d.text = b.text]_lifeVars
  BY LifeTypesStep, PinnedStep
<1> HIDE DEF Inv
<1> QED BY <1>1, <1>2, <1>3, <1>4, PTL DEF LifeSpec, ConfigurationKept, PinnedKept

-----------------------------------------------------------------------------
(***************************************************************************)
(* ConfigSerializer: what each part of the synchronisation writes against  *)
(* what the structures declare, then what a file is after any number of    *)
(* saves, restarts and edits.                                              *)
(***************************************************************************)
\* What a block is written with is what its structure declares.
Odd == {"route", "table_route", "peer"}
Sparse == {"uplink_group", "letsencrypt"}
Declares(b, w) ==
    b \notin Odd =>
        /\ w.always \cup w.ifset \subseteq Schema[b].required \cup Schema[b].optional
        /\ (w.always \cup w.ifset) \cap Schema[b].labels = {}
        /\ Schema[b].required \subseteq (IF b \in Sparse THEN w.always \cup w.ifset ELSE w.always)
WrittenWell(f) == DOMAIN f \subseteq Blocks /\ \A b \in DOMAIN f : Declares(b, f[b])

\* The feature switches.
LEMMA WrittenFeatures == WrittenWell(syncFeatures)
<1>1. DOMAIN syncFeatures = {"features"}
  BY DEF syncFeatures
<1>2. "features" \in Blocks /\ Schema["features"] = FeaturesBlock
  BY DEF Blocks, Schema
<1>3. Declares("features", syncFeatures["features"])
  BY <1>2 DEF syncFeatures, Declares, FeaturesBlock, Struct, Text, Odd, Sparse
<1> QED BY <1>1, <1>2, <1>3 DEF WrittenWell

\* The API section, its keys and its certificate.
LEMMA WrittenApi == WrittenWell(syncAPI)
<1>1. DOMAIN syncAPI = {"api", "key", "letsencrypt"}
  BY DEF syncAPI
<1>2. "api" \in Blocks /\ Schema["api"] = APIConfigBlock
  BY DEF Blocks, Schema
<1>3. Declares("api", syncAPI["api"])
  BY <1>2 DEF syncAPI, Declares, APIConfigBlock, Struct, Text, Odd, Sparse
<1>4. "key" \in Blocks /\ Schema["key"] = APIKeyConfigBlock
  BY DEF Blocks, Schema
<1>5. Declares("key", syncAPI["key"])
  BY <1>4 DEF syncAPI, Declares, APIKeyConfigBlock, Struct, Text, Odd, Sparse
<1>6. "letsencrypt" \in Blocks /\ Schema["letsencrypt"] = LetsEncryptConfigBlock
  BY DEF Blocks, Schema
<1>7. Declares("letsencrypt", syncAPI["letsencrypt"])
  BY <1>6 DEF syncAPI, Declares, LetsEncryptConfigBlock, Struct, Text, Odd, Sparse
<1> QED BY <1>1, <1>2, <1>3, <1>4, <1>5, <1>6, <1>7 DEF WrittenWell

\* The system section.
LEMMA WrittenSystem == WrittenWell(syncSystem)
<1>1. DOMAIN syncSystem = {"system"}
  BY DEF syncSystem
<1>2. "system" \in Blocks /\ Schema["system"] = SystemConfigBlock
  BY DEF Blocks, Schema
<1>3. Declares("system", syncSystem["system"])
  BY <1>2 DEF syncSystem, Declares, SystemConfigBlock, Struct, Text, Odd, Sparse
<1> QED BY <1>1, <1>2, <1>3 DEF WrittenWell

\* Interfaces.
LEMMA WrittenInterfaces == WrittenWell(syncInterfaces)
<1>1. DOMAIN syncInterfaces = {"interface"}
  BY DEF syncInterfaces
<1>2. "interface" \in Blocks /\ Schema["interface"] = InterfaceBlock
  BY DEF Blocks, Schema
<1>3. Declares("interface", syncInterfaces["interface"])
  BY <1>2 DEF syncInterfaces, Declares, InterfaceBlock, Struct, Text, Odd, Sparse
<1> QED BY <1>1, <1>2, <1>3 DEF WrittenWell

\* Policies.
LEMMA WrittenPolicies == WrittenWell(syncPolicies)
<1>1. DOMAIN syncPolicies = {"policy"}
  BY DEF syncPolicies
<1>2. "policy" \in Blocks /\ Schema["policy"] = PolicyBlock
  BY DEF Blocks, Schema
<1>3. Declares("policy", syncPolicies["policy"])
  BY <1>2 DEF syncPolicies, Declares, PolicyBlock, Struct, Text, Odd, Sparse
<1> QED BY <1>1, <1>2, <1>3 DEF WrittenWell

\* The rules of a policy.
LEMMA WrittenRule == WrittenWell(appendRuleBlock)
<1>1. DOMAIN appendRuleBlock = {"policy_rule"}
  BY DEF appendRuleBlock
<1>2. "policy_rule" \in Blocks /\ Schema["policy_rule"] = PolicyRuleBlock
  BY DEF Blocks, Schema
<1>3. Declares("policy_rule", appendRuleBlock["policy_rule"])
  BY <1>2 DEF appendRuleBlock, Declares, PolicyRuleBlock, Struct, Text, Odd, Sparse
<1> QED BY <1>1, <1>2, <1>3 DEF WrittenWell

\* Zones.
LEMMA WrittenZones == WrittenWell(syncZones)
<1>1. DOMAIN syncZones = {"zone"}
  BY DEF syncZones
<1>2. "zone" \in Blocks /\ Schema["zone"] = ZoneBlock
  BY DEF Blocks, Schema
<1>3. Declares("zone", syncZones["zone"])
  BY <1>2 DEF syncZones, Declares, ZoneBlock, Struct, Text, Odd, Sparse
<1> QED BY <1>1, <1>2, <1>3 DEF WrittenWell

\* Address translation.
LEMMA WrittenNat == WrittenWell(syncNAT)
<1>1. DOMAIN syncNAT = {"nat"}
  BY DEF syncNAT
<1>2. "nat" \in Blocks /\ Schema["nat"] = NATRuleBlock
  BY DEF Blocks, Schema
<1>3. Declares("nat", syncNAT["nat"])
  BY <1>2 DEF syncNAT, Declares, NATRuleBlock, Struct, Text, Odd, Sparse
<1> QED BY <1>1, <1>2, <1>3 DEF WrittenWell

\* IP sets.
LEMMA WrittenIPSets == WrittenWell(syncIPSets)
<1>1. DOMAIN syncIPSets = {"ipset"}
  BY DEF syncIPSets
<1>2. "ipset" \in Blocks /\ Schema["ipset"] = IPSetBlock
  BY DEF Blocks, Schema
<1>3. Declares("ipset", syncIPSets["ipset"])
  BY <1>2 DEF syncIPSets, Declares, IPSetBlock, Struct, Text, Odd, Sparse
<1> QED BY <1>1, <1>2, <1>3 DEF WrittenWell

\* Routes, tables, marks and user routing.
LEMMA WrittenRoutes == WrittenWell(syncRoutes)
<1>1. DOMAIN syncRoutes = {"route", "routing_table", "table_route", "policy_route", "mark_rule", "uid_routing"}
  BY DEF syncRoutes
<1>2. "route" \in Blocks /\ Schema["route"] = RouteBlock
  BY DEF Blocks, Schema
<1>3. Declares("route", syncRoutes["route"])
  BY <1>2 DEF syncRoutes, Declares, RouteBlock, Struct, Text, Odd, Sparse
<1>4. "routing_table" \in Blocks /\ Schema["routing_table"] = RoutingTableBlock
  BY DEF Blocks, Schema
<1>5. Declares("routing_table", syncRoutes["routing_table"])
  BY <1>4 DEF syncRoutes, Declares, RoutingTableBlock, Struct, Text, Odd, Sparse
<1>6. "table_route" \in Blocks /\ Schema["table_route"] = RouteBlock
  BY DEF Blocks, Schema
<1>7. Declares("table_route", syncRoutes["table_route"])
  BY <1>6 DEF syncRoutes, Declares, RouteBlock, Struct, Text, Odd, Sparse
<1>8. "policy_route" \in Blocks /\ Schema["policy_route"] = PolicyRouteBlock
  BY DEF Blocks, Schema
<1>9. Declares("policy_route", syncRoutes["policy_route"])
  BY <1>8 DEF syncRoutes, Declares, PolicyRouteBlock, Struct, Text, Odd, Sparse
<1>10. "mark_rule" \in Blocks /\ Schema["mark_rule"] = MarkRuleBlock
  BY DEF Blocks, Schema
<1>11. Declares("mark_rule", syncRoutes["mark_rule"])
  BY <1>10 DEF syncRoutes, Declares, MarkRuleBlock, Struct, Text, Odd, Sparse
<1>12. "uid_routing" \in Blocks /\ Schema["uid_routing"] = UIDRoutingBlock
  BY DEF Blocks, Schema
<1>13. Declares("uid_routing", syncRoutes["uid_routing"])
  BY <1>12 DEF syncRoutes, Declares, UIDRoutingBlock, Struct, Text, Odd, Sparse
<1> QED BY <1>1, <1>2, <1>3, <1>4, <1>5, <1>6, <1>7, <1>8, <1>9, <1>10, <1>11, <1>12, <1>13 DEF WrittenWell

\* The services.
LEMMA WrittenServices == WrittenWell(syncServices)
<1>1. DOMAIN syncServices = {"dhcp", "scope", "reservation", "dns", "dns_server", "host", "mdns", "upnp", "ntp", "syslog", "ddns"}
  BY DEF syncServices
<1>2. "dhcp" \in Blocks /\ Schema["dhcp"] = DHCPServerBlock
  BY DEF Blocks, Schema
<1>3. Declares("dhcp", syncServices["dhcp"])
  BY <1>2 DEF syncServices, Declares, DHCPServerBlock, Struct, Text, Odd, Sparse
<1>4. "scope" \in Blocks /\ Schema["scope"] = DHCPScopeBlock
  BY DEF Blocks, Schema
<1>5. Declares("scope", syncServices["scope"])
  BY <1>4 DEF syncServices, Declares, DHCPScopeBlock, Struct, Text, Odd, Sparse
<1>6. "reservation" \in Blocks /\ Schema["reservation"] = DHCPReservationBlock
  BY DEF Blocks, Schema
<1>7. Declares("reservation", syncServices["reservation"])
  BY <1>6 DEF syncServices, Declares, DHCPReservationBlock, Struct, Text, Odd, Sparse
<1>8. "dns" \in Blocks /\ Schema["dns"] = DNSBlock
  BY DEF Blocks, Schema
<1>9. Declares("dns", syncServices["dns"])
  BY <1>8 DEF syncServices, Declares, DNSBlock, Struct, Text, Odd, Sparse
<1>10. "dns_server" \in Blocks /\ Schema["dns_server"] = DNSServerBlock
  BY DEF Blocks, Schema
<1>11. Declares("dns_server", syncServices["dns_server"])
  BY <1>10 DEF syncServices, Declares, DNSServerBlock, Struct, Text, Odd, Sparse
<1>12. "host" \in Blocks /\ Schema["host"] = DNSHostEntryBlock
  BY DEF Blocks, Schema
<1>13. Declares("host", syncServices["host"])
  BY <1>12 DEF syncServices, Declares, DNSHostEntryBlock, Struct, Text, Odd, Sparse
<1>14. "mdns" \in Blocks /\ Schema["mdns"] = MDNSConfigBlock
  BY DEF Blocks, Schema
<1>15. Declares("mdns", syncServices["mdns"])
  BY <1>14 DEF syncServices, Declares, MDNSConfigBlock, Struct, Text, Odd, Sparse
<1>16. "upnp" \in Blocks /\ Schema["upnp"] = UPnPConfigBlock
  BY DEF Blocks, Schema
<1>17. Declares("upnp", syncServices["upnp"])
  BY <1>16 DEF syncServices, Declares, UPnPConfigBlock, Struct, Text, Odd, Sparse
<1>18. "ntp" \in Blocks /\ Schema["ntp"] = NTPConfigBlock
  BY DEF Blocks, Schema
<1>19. Declares("ntp", syncServices["ntp"])
  BY <1>18 DEF syncServices, Declares, NTPConfigBlock, Struct, Text, Odd, Sparse
<1>20. "syslog" \in Blocks /\ Schema["syslog"] = SyslogConfigBlock
  BY DEF Blocks, Schema
<1>21. Declares("syslog", syncServices["syslog"])
  BY <1>20 DEF syncServices, Declares, SyslogConfigBlock, Struct, Text, Odd, Sparse
<1>22. "ddns" \in Blocks /\ Schema["ddns"] = DDNSConfigBlock
  BY DEF Blocks, Schema
<1>23. Declares("ddns", syncServices["ddns"])
  BY <1>22 DEF syncServices, Declares, DDNSConfigBlock, Struct, Text, Odd, Sparse
<1> QED BY <1>1, <1>2, <1>3, <1>4, <1>5, <1>6, <1>7, <1>8, <1>9, <1>10, <1>11, <1>12, <1>13, <1>14, <1>15, <1>16, <1>17, <1>18, <1>19, <1>20, <1>21, <1>22, <1>23 DEF WrittenWell

\* Tunnels.
LEMMA WrittenVpn == WrittenWell(syncVPN)
<1>1. DOMAIN syncVPN = {"vpn", "wireguard", "peer", "tailscale"}
  BY DEF syncVPN
<1>2. "vpn" \in Blocks /\ Schema["vpn"] = VPNConfigBlock
  BY DEF Blocks, Schema
<1>3. Declares("vpn", syncVPN["vpn"])
  BY <1>2 DEF syncVPN, Declares, VPNConfigBlock, Struct, Text, Odd, Sparse
<1>4. "wireguard" \in Blocks /\ Schema["wireguard"] = WireGuardConfigBlock
  BY DEF Blocks, Schema
<1>5. Declares("wireguard", syncVPN["wireguard"])
  BY <1>4 DEF syncVPN, Declares, WireGuardConfigBlock, Struct, Text, Odd, Sparse
<1>6. "peer" \in Blocks /\ Schema["peer"] = WireGuardPeerConfigBlock
  BY DEF Blocks, Schema
<1>7. Declares("peer", syncVPN["peer"])
  BY <1>6 DEF syncVPN, Declares, WireGuardPeerConfigBlock, Struct, Text, Odd, Sparse
<1>8. "tailscale" \in Blocks /\ Schema["tailscale"] = TailscaleConfigBlock
  BY DEF Blocks, Schema
<1>9. Declares("tailscale", syncVPN["tailscale"])
  BY <1>8 DEF syncVPN, Declares, TailscaleConfigBlock, Struct, Text, Odd, Sparse
<1> QED BY <1>1, <1>2, <1>3, <1>4, <1>5, <1>6, <1>7, <1>8, <1>9 DEF WrittenWell

\* Uplinks, learning, notifications, schedules and replication.
LEMMA WrittenIntegrations == WrittenWell(syncIntegrations)
<1>1. DOMAIN syncIntegrations = {"replication", "multi_wan", "wan", "uplink_group", "uplink", "rule_learning", "anomaly_detection", "notifications", "channel", "scheduler", "scheduled_rule"}
  BY DEF syncIntegrations
<1>2. "replication" \in Blocks /\ Schema["replication"] = ReplicationConfigBlock
  BY DEF Blocks, Schema
<1>3. Declares("replication", syncIntegrations["replication"])
  BY <1>2 DEF syncIntegrations, Declares, ReplicationConfigBlock, Struct, Text, Odd, Sparse
<1>4. "multi_wan" \in Blocks /\ Schema["multi_wan"] = MultiWANBlock
  BY DEF Blocks, Schema
<1>5. Declares("multi_wan", syncIntegrations["multi_wan"])
  BY <1>4 DEF syncIntegrations, Declares, MultiWANBlock, Struct, Text, Odd, Sparse
<1>6. "wan" \in Blocks /\ Schema["wan"] = WANLinkBlock
  BY DEF Blocks, Schema
<1>7. Declares("wan", syncIntegrations["wan"])
  BY <1>6 DEF syncIntegrations, Declares, WANLinkBlock, Struct, Text, Odd, Sparse
<1>8. "uplink_group" \in Blocks /\ Schema["uplink_group"] = UplinkGroupBlock
  BY DEF Blocks, Schema
<1>9. Declares("uplink_group", syncIntegrations["uplink_group"])
  BY <1>8 DEF syncIntegrations, Declares, UplinkGroupBlock, Struct, Text, Odd, Sparse
<1>10. "uplink" \in Blocks /\ Schema["uplink"] = UplinkDefBlock
  BY DEF Blocks, Schema
<1>11. Declares("uplink", syncIntegrations["uplink"])
  BY <1>10 DEF syncIntegrations, Declares, UplinkDefBlock, Struct, Text, Odd, Sparse
<1>12. "rule_learning" \in Blocks /\ Schema["rule_learning"] = RuleLearningConfigBlock
  BY DEF Blocks, Schema
<1>13. Declares("rule_learning", syncIntegrations["rule_learning"])
  BY <1>12 DEF syncIntegrations, Declares, RuleLearningConfigBlock, Struct, Text, Odd, Sparse
<1>14. "anomaly_detection" \in Blocks /\ Schema["anomaly_detection"] = AnomalyConfigBlock
  BY DEF Blocks, Schema
<1>15. Declares("anomaly_detection", syncIntegrations["anomaly_detection"])
  BY <1>14 DEF syncIntegrations, Declares, AnomalyConfigBlock, Struct, Text, Odd, Sparse
<1>16. "notifications" \in Blocks /\ Schema["notifications"] = NotificationsConfigBlock
  BY DEF Blocks, Schema
<1>17. Declares("notifications", syncIntegrations["notifications"])
  BY <1>16 DEF syncIntegrations, Declares, NotificationsConfigBlock, Struct, Text, Odd, Sparse
<1>18. "channel" \in Blocks /\ Schema["channel"] = NotificationChannelBlock
  BY DEF Blocks, Schema
<1>19. Declares("channel", syncIntegrations["channel"])
  BY <1>18 DEF syncIntegrations, Declares, NotificationChannelBlock, Struct, Text, Odd, Sparse
<1>20. "scheduler" \in Blocks /\ Schema["scheduler"] = SchedulerConfigBlock
  BY DEF Blocks, Schema
<1>21. Declares("scheduler", syncIntegrations["scheduler"])
  BY <1>20 DEF syncIntegrations, Declares, SchedulerConfigBlock, Struct, Text, Odd, Sparse
<1>22. "scheduled_rule" \in Blocks /\ Schema["scheduled_rule"] = ScheduledRuleBlock
  BY DEF Blocks, Schema
<1>23. Declares("scheduled_rule", syncIntegrations["scheduled_rule"])
  BY <1>22 DEF syncIntegrations, Declares, ScheduledRuleBlock, Struct, Text, Odd, Sparse
<1> QED BY <1>1, <1>2, <1>3, <1>4, <1>5, <1>6, <1>7, <1>8, <1>9, <1>10, <1>11, <1>12, <1>13, <1>14, <1>15, <1>16, <1>17, <1>18, <1>19, <1>20, <1>21, <1>22, <1>23 DEF WrittenWell

\* Everything that is written is written as its structure declares it.
LEMMA WrittenIsDeclared == WrittenWell(Written)
<1>1. \A p \in WrittenParts : WrittenWell(p)
  BY WrittenFeatures, WrittenApi, WrittenSystem, WrittenInterfaces, WrittenPolicies, WrittenRule, WrittenZones,
     WrittenNat, WrittenIPSets, WrittenRoutes, WrittenServices, WrittenVpn, WrittenIntegrations DEF WrittenParts
<1>2. DOMAIN Written = UNION {DOMAIN p : p \in WrittenParts}
  BY DEF Written
<1>3. ASSUME NEW b \in DOMAIN Written
      PROVE  b \in Blocks /\ Declares(b, Written[b])
  <2> DEFINE part == CHOOSE p \in WrittenParts : b \in DOMAIN p
  <2>1. \E p \in WrittenParts : b \in DOMAIN p
    BY <1>2
  <2>2. part \in WrittenParts /\ b \in DOMAIN part
    BY <2>1
  <2>3. Written[b] = part[b]
    BY <1>2 DEF Written
  <2>4. WrittenWell(part)
    BY <1>1, <2>2
  <2> QED BY <2>2, <2>3, <2>4 DEF WrittenWell
<1> QED BY <1>3 DEF WrittenWell

\* The attributes of the file itself are nobody's block.
LEMMA TopIsNoBlock == "top" \notin DOMAIN Written
<1>1. \A p \in WrittenParts : "top" \notin DOMAIN p
  BY DEF WrittenParts, syncFeatures, syncAPI, syncSystem, syncInterfaces, syncPolicies, appendRuleBlock, syncZones,
     syncNAT, syncIPSets, syncRoutes, syncServices, syncVPN, syncIntegrations
<1> QED BY <1>1 DEF Written

\* The blocks that are removed a second time are written before.
LEMMA ClearedAreWritten == ClearedAgain \subseteq DOMAIN Written
<1>1. syncServices \in WrittenParts
  BY DEF WrittenParts
<1>2. {"syslog", "ddns"} \subseteq DOMAIN syncServices
  BY DEF syncServices
<1> QED BY <1>1, <1>2 DEF Written, ClearedAgain

\* A field is a label or an attribute.
Apart(s) == s.required \cap s.labels = {}
LEMMA LabelsApart == \A b \in Blocks : Apart(Schema[b])
<1>1. /\ Apart(InterfaceBlock) /\ Apart(RouteBlock) /\ Apart(RoutingTableBlock) /\ Apart(PolicyRouteBlock)
      /\ Apart(MarkRuleBlock) /\ Apart(MultiWANBlock) /\ Apart(WANLinkBlock) /\ Apart(UplinkGroupBlock)
      /\ Apart(UplinkDefBlock) /\ Apart(UIDRoutingBlock) /\ Apart(PolicyBlock) /\ Apart(PolicyRuleBlock)
      /\ Apart(NATRuleBlock) /\ Apart(DHCPServerBlock) /\ Apart(DHCPScopeBlock) /\ Apart(DHCPReservationBlock)
      /\ Apart(DNSServerBlock) /\ Apart(DNSHostEntryBlock) /\ Apart(DNSBlock) /\ Apart(IPSetBlock)
  BY DEF Apart, Struct, InterfaceBlock, RouteBlock, RoutingTableBlock, PolicyRouteBlock, MarkRuleBlock,
     MultiWANBlock, WANLinkBlock, UplinkGroupBlock, UplinkDefBlock, UIDRoutingBlock, PolicyBlock, PolicyRuleBlock,
     NATRuleBlock, DHCPServerBlock, DHCPScopeBlock, DHCPReservationBlock, DNSServerBlock, DNSHostEntryBlock,
     DNSBlock, IPSetBlock
<1>2. /\ Apart(ZoneBlock) /\ Apart(SchedulerConfigBlock) /\ Apart(ScheduledRuleBlock)
      /\ Apart(RuleLearningConfigBlock) /\ Apart(AnomalyConfigBlock) /\ Apart(NotificationsConfigBlock)
      /\ Apart(NotificationChannelBlock) /\ Apart(ReplicationConfigBlock) /\ Apart(VPNConfigBlock)
      /\ Apart(TailscaleConfigBlock) /\ Apart(WireGuardConfigBlock) /\ Apart(WireGuardPeerConfigBlock)
      /\ Apart(APIConfigBlock) /\ Apart(APIKeyConfigBlock) /\ Apart(LetsEncryptConfigBlock)
  BY DEF Apart, Struct, ZoneBlock, SchedulerConfigBlock, ScheduledRuleBlock, RuleLearningConfigBlock,
     AnomalyConfigBlock, NotificationsConfigBlock, NotificationChannelBlock, ReplicationConfigBlock,
     VPNConfigBlock, TailscaleConfigBlock, WireGuardConfigBlock, WireGuardPeerConfigBlock, APIConfigBlock,
     APIKeyConfigBlock, LetsEncryptConfigBlock
<1>3. /\ Apart(MDNSConfigBlock) /\ Apart(UPnPConfigBlock) /\ Apart(NTPConfigBlock) /\ Apart(FeaturesBlock)
      /\ Apart(SyslogConfigBlock) /\ Apart(DDNSConfigBlock) /\ Apart(SystemConfigBlock) /\ Apart(QoSPolicyBlock)
      /\ Apart(InterfaceProtectionBlock) /\ Apart(WebConfigBlock) /\ Apart(AuditConfigBlock)
      /\ Apart(GeoIPConfigBlock) /\ Apart(ThreatIntelBlock) /\ Apart(FRRConfigBlock) /\ Apart(ConfigBlock)
  BY DEF Apart, Struct, MDNSConfigBlock, UPnPConfigBlock, NTPConfigBlock, FeaturesBlock, SyslogConfigBlock,
     DDNSConfigBlock, SystemConfigBlock, QoSPolicyBlock, InterfaceProtectionBlock, WebConfigBlock,
     AuditConfigBlock, GeoIPConfigBlock, ThreatIntelBlock, FRRConfigBlock, ConfigBlock
<1> HIDE DEF Apart
<1> QED BY <1>1, <1>2, <1>3 DEF Blocks, Schema

\* A nested block is an optional field of a block the structures have.
LEMMA NestedIsAField ==
    \A c \in DOMAIN Parent : Parent[c][1] \in Blocks /\ Parent[c][2] \in Schema[Parent[c][1]].optional
<1> DEFINE Nests(p) == p[1] \in Blocks /\ p[2] \in Schema[p[1]].optional
<1>1. Nests(<<"routing_table", "route">>) /\ Nests(<<"multi_wan", "wan">>) /\ Nests(<<"uplink_group", "uplink">>)
  BY DEF Blocks, Schema, Struct, RoutingTableBlock, MultiWANBlock, UplinkGroupBlock
<1>2. Nests(<<"policy", "rule">>) /\ Nests(<<"dhcp", "scope">>) /\ Nests(<<"scope", "reservation">>)
  BY DEF Blocks, Schema, Struct, PolicyBlock, DHCPServerBlock, DHCPScopeBlock
<1>3. Nests(<<"dns_server", "host">>) /\ Nests(<<"notifications", "channel">>) /\ Nests(<<"vpn", "tailscale">>)
  BY DEF Blocks, Schema, Struct, DNSServerBlock, NotificationsConfigBlock, VPNConfigBlock
<1>4. Nests(<<"vpn", "wireguard">>) /\ Nests(<<"wireguard", "peer">>) /\ Nests(<<"api", "key">>)
      /\ Nests(<<"api", "letsencrypt">>)
  BY DEF Blocks, Schema, Struct, VPNConfigBlock, WireGuardConfigBlock, APIConfigBlock
<1> HIDE DEF Nests
<1>5. \A c \in DOMAIN Parent : Nests(Parent[c])
  BY <1>1, <1>2, <1>3, <1>4 DEF Parent
<1> QED BY <1>5 DEF Nests

\* The file has no required attribute; what is written of it is declared.
LEMMA TopDeclares ==
    /\ "top" \in Blocks /\ Schema["top"].labels = {} /\ Schema["top"].required = {}
    /\ {"ip_forwarding", "mss_clamping", "enable_flow_offload", "state_dir"} \subseteq Schema["top"].optional
BY DEF Blocks, Schema, ConfigBlock, Struct

\* Routes, the routes of tables and peers never read back.
LEMMA OddNeverRead ==
    \A b \in Odd : \A fields : ~BlockReads(b, WriteBlock(b, fields))
<1>1. Schema["route"] = RouteBlock /\ Schema["table_route"] = RouteBlock /\ Schema["peer"] = WireGuardPeerConfigBlock
  BY DEF Schema
<1>2. "destination" \in Schema["route"].required /\ "destination" \in Schema["table_route"].required
      /\ "public_key" \in Schema["peer"].required
  BY <1>1 DEF RouteBlock, WireGuardPeerConfigBlock, Struct
<1>3. Written["route"] = syncRoutes["route"] /\ Written["table_route"] = syncRoutes["table_route"]
  <2>1. \A p \in WrittenParts : {"route", "table_route"} \cap DOMAIN p # {} => p = syncRoutes
    BY DEF WrittenParts, syncFeatures, syncAPI, syncSystem, syncInterfaces, syncPolicies, appendRuleBlock,
       syncZones, syncNAT, syncIPSets, syncRoutes, syncServices, syncVPN, syncIntegrations
  <2>2. syncRoutes \in WrittenParts /\ {"route", "table_route"} \subseteq DOMAIN syncRoutes
    BY DEF WrittenParts, syncRoutes
  <2> QED BY <2>1, <2>2 DEF Written
<1>4. Written["peer"] = syncVPN["peer"]
  <2>1. \A p \in WrittenParts : "peer" \in DOMAIN p => p = syncVPN
    BY DEF WrittenParts, syncFeatures, syncAPI, syncSystem, syncInterfaces, syncPolicies, appendRuleBlock,
       syncZones, syncNAT, syncIPSets, syncRoutes, syncServices, syncVPN, syncIntegrations
  <2>2. syncVPN \in WrittenParts /\ "peer" \in DOMAIN syncVPN
    BY DEF WrittenParts, syncVPN
  <2> QED BY <2>1, <2>2 DEF Written
<1>5. /\ "destination" \notin Written["route"].always \cup Written["route"].ifset
      /\ "destination" \notin Written["table_route"].always \cup Written["table_route"].ifset
      /\ "public_key" \notin Written["peer"].always \cup Written["peer"].ifset
  BY <1>3, <1>4 DEF syncRoutes, syncVPN, Text
<1> QED BY <1>2, <1>5 DEF Odd, BlockReads, WriteBlock

-----------------------------------------------------------------------------
(* The inductive invariant: every block of the file reads, or is one that  *)
(* is known not to; what was saved is as it is written; and what was saved *)
(* from this configuration would be saved again the same.                  *)

BlockKnown(b, t) ==
    \/ BlockReads(b, t)
    \/ b \in Odd
    \/ b \in Sparse /\ ~(Schema[b].required \subseteq t.full)
TextKnown == \A b \in DOMAIN stext : b \in Blocks /\ BlockKnown(b, stext[b])

AsTop(t) == \E k : t = [labels |-> {}, attrs |-> k, full |-> k]
AsWritten(b, t) == \E fields : t = WriteBlock(b, fields)
Synced(text) ==
    /\ text = [b \in DOMAIN text |-> text[b]]
    /\ DOMAIN text \cap ClearedAgain = {}
    /\ "top" \in DOMAIN text => AsTop(text["top"])
    /\ \A b \in DOMAIN text \cap DOMAIN Written : AsWritten(b, text[b])

SerInv ==
    /\ TextKnown
    /\ ssaved => Synced(stext)
    /\ ssaved /\ Reads(stext) => syncBlocks(stext, sconf) = stext

\* What is written over something known is known.
LEMMA WrittenKnown == \A b \in DOMAIN Written : \A fields : b \in Blocks /\ BlockKnown(b, WriteBlock(b, fields))
<1> SUFFICES ASSUME NEW b \in DOMAIN Written, NEW fields
             PROVE  b \in Blocks /\ BlockKnown(b, WriteBlock(b, fields))
  OBVIOUS
<1>1. b \in Blocks /\ Declares(b, Written[b])
  BY WrittenIsDeclared DEF WrittenWell
<1> HIDE DEF Written, Schema, Blocks
<1>2. CASE b \in Odd
  BY <1>1, <1>2 DEF BlockKnown
<1>3. CASE b \notin Odd
  BY <1>1, <1>3 DEF BlockKnown, Declares, BlockReads, WriteBlock
<1> QED BY <1>1, <1>2, <1>3

LEMMA TopKnown == \A t, fields : BlockKnown("top", t) => BlockReads("top", syncTop(t, fields))
<1>1. "top" \notin Odd /\ "top" \notin Sparse
  BY DEF Odd, Sparse
<1> QED BY <1>1, TopDeclares DEF BlockKnown, BlockReads, syncTop

LEMMA SyncedKnown ==
    ASSUME NEW text, NEW conf, \A b \in DOMAIN text : b \in Blocks /\ BlockKnown(b, text[b])
    PROVE  \A b \in DOMAIN syncBlocks(text, conf) : b \in Blocks /\ BlockKnown(b, syncBlocks(text, conf)[b])
<1> SUFFICES ASSUME NEW b \in Rewritten(conf) \cup Untouched(text)
             PROVE  b \in Blocks /\ BlockKnown(b, syncBlocks(text, conf)[b])
  BY DEF syncBlocks
<1>1. CASE b = "top"
  <2>1. b \in DOMAIN text
    BY <1>1, TopIsNoBlock DEF Rewritten, Untouched
  <2>2. syncBlocks(text, conf)[b] = syncTop(text["top"], conf["top"])
    BY <1>1 DEF syncBlocks
  <2> QED BY <1>1, <2>1, <2>2, TopKnown, TopDeclares DEF BlockKnown
<1>2. CASE b # "top" /\ b \in Rewritten(conf)
  <2>1. syncBlocks(text, conf)[b] = WriteBlock(b, conf[b])
    BY <1>2 DEF syncBlocks
  <2>2. b \in DOMAIN Written
    BY <1>2 DEF Rewritten
  <2> QED BY <2>1, <2>2, WrittenKnown
<1>3. CASE b # "top" /\ b \notin Rewritten(conf)
  <2>1. syncBlocks(text, conf)[b] = text[b] /\ b \in DOMAIN text
    BY <1>3 DEF syncBlocks, Untouched
  <2> QED BY <2>1
<1> QED BY <1>1, <1>2, <1>3

LEMMA SyncSyncs ==
    ASSUME NEW text, NEW conf
    PROVE  Synced(syncBlocks(text, conf))
<1> DEFINE new == syncBlocks(text, conf)
<1>1. DOMAIN new = Rewritten(conf) \cup Untouched(text) /\ new = [b \in DOMAIN new |-> new[b]]
  BY DEF syncBlocks
<1>2. DOMAIN new \cap ClearedAgain = {}
  BY <1>1, ClearedAreWritten DEF Rewritten, Untouched
<1>3. ASSUME "top" \in DOMAIN new
      PROVE  AsTop(new["top"])
  <2>1. new["top"] = syncTop(text["top"], conf["top"])
    BY <1>1, <1>3 DEF syncBlocks
  <2> QED BY <2>1 DEF syncTop, AsTop
<1>4. ASSUME NEW b \in DOMAIN new \cap DOMAIN Written
      PROVE  AsWritten(b, new[b])
  <2>1. b # "top" /\ b \in Rewritten(conf)
    BY <1>1, TopIsNoBlock DEF Untouched
  <2>2. new[b] = WriteBlock(b, conf[b])
    BY <2>1 DEF syncBlocks
  <2> QED BY <2>2 DEF AsWritten
<1> HIDE DEF new
<1> QED BY <1>1, <1>2, <1>3, <1>4 DEF Synced, new

\* Saving twice is saving once.
LEMMA SyncTwice ==
    ASSUME NEW text, NEW conf
    PROVE  syncBlocks(syncBlocks(text, conf), conf) = syncBlocks(text, conf)
<1> DEFINE new == syncBlocks(text, conf)
           again == syncBlocks(new, conf)
<1>1. DOMAIN new = Rewritten(conf) \cup Untouched(text)
  BY DEF syncBlocks
<1>2. Untouched(new) = Untouched(text)
  BY <1>1 DEF Untouched, Rewritten
<1>3. DOMAIN again = DOMAIN new
  BY <1>1, <1>2 DEF syncBlocks
<1>4. ASSUME NEW b \in DOMAIN new
      PROVE  again[b] = new[b]
  <2>0. again[b] = IF b = "top" THEN syncTop(new["top"], conf["top"])
                   ELSE IF b \in Rewritten(conf) THEN WriteBlock(b, conf[b]) ELSE new[b]
    <3>1. b \in Rewritten(conf) \cup Untouched(new)
      BY <1>1, <1>2
    <3> HIDE DEF new
    <3> QED BY <3>1 DEF syncBlocks
  <2>1. CASE b = "top"
    <3>1. new[b] = syncTop(text["top"], conf["top"])
      BY <1>1, <2>1 DEF syncBlocks
    <3>2. syncTop(syncTop(text["top"], conf["top"]), conf["top"]) = syncTop(text["top"], conf["top"])
      BY DEF syncTop
    <3> QED BY <2>0, <2>1, <3>1, <3>2
  <2>2. CASE b # "top" /\ b \in Rewritten(conf)
    <3>1. new[b] = WriteBlock(b, conf[b])
      BY <1>1, <2>2 DEF syncBlocks
    <3> QED BY <2>0, <2>2, <3>1
  <2>3. CASE b # "top" /\ b \notin Rewritten(conf)
    BY <2>0, <2>3
  <2> QED BY <2>1, <2>2, <2>3
<1>5. again = [b \in DOMAIN again |-> again[b]] /\ new = [b \in DOMAIN new |-> new[b]]
  BY DEF syncBlocks
<1> HIDE DEF again, new
<1>6. again = new
  BY <1>3, <1>4, <1>5
<1> QED BY <1>6 DEF again, new

\* Saving what was read back writes the same.
LEMMA SyncDecoded ==
    ASSUME NEW text, NEW conf, Synced(text), Reads(text), DOMAIN conf = DOMAIN text,
           \A b \in DOMAIN text : conf[b] = Decoded(text)[b]
    PROVE  syncBlocks(text, conf) = text
<1> DEFINE new == syncBlocks(text, conf)
<1>1. Rewritten(conf) = DOMAIN text \cap DOMAIN Written
  BY DEF Rewritten, Synced
<1>2. DOMAIN new = DOMAIN text
  BY <1>1 DEF syncBlocks, Untouched
<1>3. ASSUME NEW b \in DOMAIN text
      PROVE  new[b] = text[b]
  <2>0. conf[b] = Schema[b].labels \cup text[b].full
    BY DEF Decoded
  <2>9. new[b] = IF b = "top" THEN syncTop(text["top"], conf["top"])
                 ELSE IF b \in Rewritten(conf) THEN WriteBlock(b, conf[b]) ELSE text[b]
    <3>1. b \in Rewritten(conf) \cup Untouched(text)
      BY <1>1 DEF Untouched
    <3> QED BY <3>1 DEF syncBlocks
  <2>1. CASE b = "top"
    <3>1. PICK k : text[b] = [labels |-> {}, attrs |-> k, full |-> k]
      BY <2>1 DEF Synced, AsTop
    <3>2. conf["top"] = k
      BY <2>0, <2>1, <3>1, TopDeclares
    <3>3. syncTop([labels |-> {}, attrs |-> k, full |-> k], k) = [labels |-> {}, attrs |-> k, full |-> k]
      BY DEF syncTop
    <3> QED BY <2>9, <2>1, <3>1, <3>2, <3>3
  <2>2. CASE b # "top" /\ b \in Rewritten(conf)
    <3>1. b \in DOMAIN Written
      BY <1>1, <2>2
    <3>2. PICK fields : text[b] = WriteBlock(b, fields)
      BY <3>1 DEF Synced, AsWritten
    <3>3. b \notin Odd
      BY <3>2, OddNeverRead DEF Reads
    <3>4. (Written[b].always \cup Written[b].ifset) \cap Schema[b].labels = {}
      BY <3>1, <3>3, WrittenIsDeclared DEF WrittenWell, Declares
    <3>5. text[b].full = (Written[b].always \cup Written[b].ifset) \cap fields
      BY <3>2 DEF WriteBlock
    <3>6. Written[b].ifset \cap conf[b] = Written[b].ifset \cap fields
      BY <2>0, <3>4, <3>5
    <3>7. (Written[b].always \cup Written[b].ifset) \cap conf[b] = (Written[b].always \cup Written[b].ifset) \cap fields
      BY <2>0, <3>4, <3>5
    <3>8. WriteBlock(b, conf[b]) = WriteBlock(b, fields)
      BY <3>6, <3>7 DEF WriteBlock
    <3> QED BY <2>9, <2>2, <3>2, <3>8
  <2>3. CASE b # "top" /\ b \notin Rewritten(conf)
    BY <2>9, <2>3
  <2> QED BY <2>1, <2>2, <2>3
<1>4. new = [b \in DOMAIN new |-> new[b]] /\ text = [b \in DOMAIN text |-> text[b]]
  BY DEF syncBlocks, Synced
<1> HIDE DEF new
<1>5. new = text
  BY <1>2, <1>3, <1>4
<1> QED BY <1>5 DEF new

-----------------------------------------------------------------------------

\* A file written by hand reads, but for a required field that is empty.
LEMMA SerStarts == SerInit => SerInv
<1> SUFFICES ASSUME SerInit PROVE SerInv
  OBVIOUS
<1>1. PICK b \in Blocks : \E empty \in {{}} \cup {{f} : f \in Schema[b].required}, some \in SomeOf(Schema[b].optional) :
            /\ sconf = Configuration(b, (Schema[b].required \ empty) \cup some)
            /\ stext = [x \in DOMAIN sconf |-> ByHand(x, sconf[x])]
            /\ sloaded = FALSE /\ ssaved = FALSE /\ sedits = 0
  BY DEF SerInit
<1>2. PICK empty \in {{}} \cup {{f} : f \in Schema[b].required}, some \in SomeOf(Schema[b].optional) :
            /\ sconf = Configuration(b, (Schema[b].required \ empty) \cup some)
            /\ stext = [x \in DOMAIN sconf |-> ByHand(x, sconf[x])]
            /\ ssaved = FALSE
  BY <1>1
<1> DEFINE fields == (Schema[b].required \ empty) \cup some
<1>3. some \subseteq Schema[b].optional
  <2> DEFINE optional == Schema[b].optional
  <2> HIDE DEF optional
  <2>1. \A f \in [1 .. MaxFields -> optional] : {f[k] : k \in 1 .. MaxFields} \subseteq optional
    OBVIOUS
  <2>2. \A s \in SomeOf(optional) : s \subseteq optional
    BY <2>1 DEF SomeOf
  <2>3. some \in SomeOf(optional)
    BY <1>2 DEF optional
  <2> QED BY <2>2, <2>3 DEF optional
<1>4. \A p \in Chain(b) : p[1] \in Blocks /\ p[2] \in Schema[p[1]].optional
  BY NestedIsAField DEF Chain, Enclosing
<1>5. ASSUME NEW x \in DOMAIN sconf
      PROVE  x \in Blocks /\ sconf[x] \subseteq Schema[x].labels \cup Schema[x].required \cup Schema[x].optional
  <2>1. x \in {b, "top"} \cup {p[1] : p \in Chain(b)}
    BY <1>2 DEF Configuration
  <2>2. x \in Blocks
    BY <1>1, <1>4, <2>1, TopDeclares
  <2>3. CASE x = b
    <3>1. sconf[x] = Schema[x].labels \cup fields
      BY <1>2, <2>1, <2>3 DEF Configuration
    <3> QED BY <1>3, <2>2, <2>3, <3>1
  <2>4. CASE x # b /\ x \in {p[1] : p \in Chain(b)}
    <3>1. sconf[x] = Schema[x].labels \cup Schema[x].required \cup {p[2] : p \in {q \in Chain(b) : q[1] = x}}
      BY <1>2, <2>1, <2>4 DEF Configuration
    <3> QED BY <1>4, <2>2, <3>1
  <2>5. CASE x # b /\ x \notin {p[1] : p \in Chain(b)}
    <3>1. x = "top" /\ sconf[x] = {"ip_forwarding"}
      BY <1>2, <2>1, <2>5 DEF Configuration
    <3> QED BY <2>2, <3>1, TopDeclares
  <2> QED BY <2>3, <2>4, <2>5
<1>6. ASSUME NEW x \in DOMAIN stext
      PROVE  x \in Blocks /\ BlockKnown(x, stext[x])
  <2>1. x \in DOMAIN sconf /\ stext[x] = ByHand(x, sconf[x])
    BY <1>2
  <2>2. x \in Blocks /\ sconf[x] \subseteq Schema[x].labels \cup Schema[x].required \cup Schema[x].optional
    BY <1>5, <2>1
  <2>3. Schema[x].required \cap Schema[x].labels = {}
    BY <2>2, LabelsApart DEF Apart
  <2>4. BlockReads(x, stext[x])
    BY <2>1, <2>2, <2>3 DEF ByHand, BlockReads
  <2> QED BY <2>2, <2>4 DEF BlockKnown
<1> QED BY <1>2, <1>6 DEF SerInv, TextKnown

LEMMA SerSaveKept == SerInv /\ SerSave => SerInv'
<1> SUFFICES ASSUME SerInv, SerSave PROVE SerInv'
  OBVIOUS
<1>1. stext' = syncBlocks(stext, sconf) /\ sconf' = sconf
  BY DEF SerSave
<1>2. TextKnown'
  BY <1>1, SyncedKnown DEF SerInv, TextKnown
<1>3. Synced(stext')
  BY <1>1, SyncSyncs
<1>4. syncBlocks(stext', sconf') = stext'
  BY <1>1, SyncTwice
<1> QED BY <1>2, <1>3, <1>4 DEF SerInv

LEMMA RestartKept == SerInv /\ SerRestart => SerInv'
<1> SUFFICES ASSUME SerInv, SerRestart PROVE SerInv'
  OBVIOUS
<1>1. stext' = stext /\ ssaved' = ssaved
  BY DEF SerRestart
<1>2. ASSUME Reads(stext)
      PROVE  DOMAIN sconf' = DOMAIN stext /\ \A b \in DOMAIN stext : sconf'[b] = Decoded(stext)[b]
  <2> DEFINE lost == {b \in DOMAIN stext : ~BlockReads(b, stext[b])}
             around == UNION {{p[1] : p \in Chain(b)} : b \in lost}
  <2>1. PICK gone \in {lost, lost \cup around} :
            sconf' = [b \in DOMAIN stext \ gone |->
                        Decoded(stext)[b] \ {p[2] : p \in {q \in UNION {Enclosing(x) : x \in gone} : q[1] = b}}]
    BY DEF SerRestart
  <2>2. lost = {}
    BY <1>2 DEF Reads
  <2>3. gone = {}
    BY <2>1, <2>2
  <2> QED BY <2>1, <2>3
<1>3. ASSUME ssaved, Reads(stext)
      PROVE  syncBlocks(stext, sconf') = stext
  BY <1>2, <1>3, SyncDecoded DEF SerInv
<1> QED BY <1>1, <1>3 DEF SerInv, TextKnown

LEMMA EditsKept == ASSUME NEW b \in Blocks, SerInv, SerRemove(b) \/ \E f \in Schema[b].optional : SerClear(b, f)
                   PROVE  SerInv'
<1>1. stext' = stext /\ ssaved' = FALSE
  BY DEF SerRemove, SerClear
<1> QED BY <1>1 DEF SerInv, TextKnown

LEMMA SerKept == SerInv /\ [SerNext]_serVars => SerInv'
<1> SUFFICES ASSUME SerInv, [SerNext]_serVars PROVE SerInv'
  OBVIOUS
<1>1. CASE UNCHANGED serVars
  BY <1>1 DEF serVars, SerInv, TextKnown
<1> QED BY <1>1, SerSaveKept, RestartKept, EditsKept DEF SerNext

LEMMA SerSafe == SerInv => UnreadableOnlyFor /\ RemovedStays
<1> SUFFICES ASSUME SerInv PROVE UnreadableOnlyFor /\ RemovedStays
  OBVIOUS
<1>1. UnreadableOnlyFor
  BY DEF SerInv, TextKnown, BlockKnown, UnreadableOnlyFor, Reads, Odd, Sparse
<1>2. ASSUME ssaved, Reads(stext), NEW b \in DOMAIN Written, b \notin DOMAIN sconf
      PROVE  b \notin DOMAIN stext
  <2>1. stext = syncBlocks(stext, sconf)
    BY <1>2 DEF SerInv
  <2>2. DOMAIN stext = Rewritten(sconf) \cup Untouched(stext)
    BY <2>1 DEF syncBlocks
  <2> QED BY <1>2, <2>2 DEF Rewritten, Untouched
<1> QED BY <1>1, <1>2 DEF RemovedStays

LEMMA SerStable == SerInv /\ [SerNext]_serVars => [ssaved /\ ssaved' /\ Reads(stext) => stext' = stext]_serVars
<1> SUFFICES ASSUME SerInv, SerNext, ssaved, ssaved', Reads(stext) PROVE stext' = stext
  OBVIOUS
<1>1. CASE SerSave
  BY <1>1 DEF SerInv, SerSave
<1>2. CASE SerRestart
  BY <1>2 DEF SerRestart
<1>3. ASSUME NEW b \in Blocks, SerRemove(b) \/ \E f \in Schema[b].optional : SerClear(b, f)
      PROVE  stext' = stext
  BY <1>3 DEF SerRemove, SerClear
<1> QED BY <1>1, <1>2, <1>3 DEF SerNext

\* What is saved can be read again, but for the blocks that are known to be
\* written wrongly; removed sections stay away over a restart; and saving
\* again what was saved and read back changes nothing: for any number of set
\* fields and edits.
THEOREM SavesHold == SerSpec => SavesReadable
<1>1. SerInit => SerInv
  BY SerStarts
<1>2. SerInv /\ [SerNext]_serVars => SerInv'
  BY SerKept
<1>3. SerInv => UnreadableOnlyFor /\ RemovedStays
  BY SerSafe
<1>4. SerInv /\ [SerNext]_serVars => [ssaved /\ ssaved' /\ Reads(stext) => stext' = stext]_serVars
  BY SerStable
<1> QED BY <1>1, <1>2, <1>3, <1>4, PTL DEF SerSpec, SavesReadable, SavesAreStable

-----------------------------------------------------------------------------
(***************************************************************************)
(* SafeApply.                                                              *)
(***************************************************************************)
USE SafeApplyAssumption DEF Applies, NoApply, Kernel

\* A rollback leaves the checkpoint, the old ruleset or nothing in force.
LEMMA AfterRollbackType ==
    ASSUME NEW outcome \in RollbackOutcomes, NEW cp \in Kernel, NEW k \in Kernel
    PROVE  AfterRollback(outcome, cp, k) \in Kernel
BY DEF AfterRollback

\* What every step keeps: the types, the checkpoint of the pending apply, and
\* that an apply is decided once.
LEMMA Inductive == TypeOK /\ SafeApplyInv /\ [Next]_vars => TypeOK' /\ SafeApplyInv'
<1> SUFFICES ASSUME TypeOK, SafeApplyInv, [Next]_vars PROVE TypeOK' /\ SafeApplyInv'
  OBVIOUS
<1> USE DEF TypeOK, SafeApplyInv, CheckpointKept, DecidedOnce, IdsUsed
<1>1. ASSUME NEW a \in Applies, NEW c \in Rulesets, SafeApplyFails(a, c)
      PROVE  TypeOK' /\ SafeApplyInv'
  <2>1. kernel' \in Kernel
    BY <1>1, AfterRollbackType DEF SafeApplyFails
  <2> QED BY <1>1, <2>1 DEF SafeApplyFails, Begin
<1>2. ASSUME NEW a \in Applies, NEW c \in Rulesets, SafeApplyPending(a, c)
      PROVE  TypeOK' /\ SafeApplyInv'
  BY <1>2 DEF SafeApplyPending, Begin
<1>3. ASSUME NEW a \in Applies, NEW c \in Rulesets, SafeApplyUnconfirmed(a, c)
      PROVE  TypeOK' /\ SafeApplyInv'
  BY <1>3 DEF SafeApplyUnconfirmed, Begin
<1>4. ASSUME NEW a \in Applies, ConfirmApply(a) PROVE TypeOK' /\ SafeApplyInv'
  BY <1>4 DEF ConfirmApply
<1>5. ASSUME NEW a \in Applies, CancelApply(a) PROVE TypeOK' /\ SafeApplyInv'
  <2>1. kernel' \in Kernel
    BY <1>5, AfterRollbackType DEF CancelApply
  <2>2. \/ rolledBack' = rolledBack \cup {a} /\ pending' = NoApply /\ said' = "reverted"
        \/ UNCHANGED <<rolledBack, pending, said>>
    BY <1>5 DEF CancelApply
  <2>3. /\ pending = a /\ cancelled' = cancelled \cup {a}
        /\ UNCHANGED <<checkpoint, confirmed, timer, used, before>>
    BY <1>5 DEF CancelApply
  <2>4. TypeOK'
    BY <2>1, <2>2, <2>3
  <2>5. SafeApplyInv'
    <3>1. CASE UNCHANGED <<rolledBack, pending, said>>
      BY <2>3, <3>1
    <3>2. CASE rolledBack' = rolledBack \cup {a} /\ pending' = NoApply
      BY <2>3, <3>2
    <3> QED BY <2>2, <3>1, <3>2
  <2> QED BY <2>4, <2>5
<1>6. ASSUME NEW c \in Rulesets, ForceApply(c) PROVE TypeOK' /\ SafeApplyInv'
  BY <1>6 DEF ForceApply
<1>7. ASSUME NEW a \in Applies, TimerFires(a) \/ TimerCancelled(a)
      PROVE  TypeOK' /\ SafeApplyInv'
  BY <1>7 DEF TimerFires, TimerCancelled
<1>8. ASSUME NEW a \in Applies, TimerRollsBack(a) PROVE TypeOK' /\ SafeApplyInv'
  <2>1. CASE StillPending(a)
    <3>1. kernel' \in Kernel
      BY <1>8, <2>1, AfterRollbackType DEF TimerRollsBack, StillPending
    <3>2. /\ pending = a /\ a \notin confirmed
          /\ rolledBack' = rolledBack \cup {a} /\ pending' = NoApply /\ said' = "reverted"
          /\ timer' = [timer EXCEPT ![a] = "none"]
          /\ UNCHANGED <<checkpoint, confirmed, cancelled, used, before>>
      BY <1>8, <2>1 DEF TimerRollsBack, StillPending
    <3>3. TypeOK'
      BY <3>1, <3>2
    <3>4. SafeApplyInv'
      BY <3>2
    <3> QED BY <3>3, <3>4
  <2>2. CASE ~StillPending(a)
    BY <1>8, <2>2 DEF TimerRollsBack
  <2> QED BY <2>1, <2>2
<1>9. CASE UNCHANGED vars
  BY <1>9 DEF vars
<1> QED BY <1>1, <1>2, <1>3, <1>4, <1>5, <1>6, <1>7, <1>8, <1>9 DEF Next

\* Types, the checkpoint and the single decision hold in every reachable
\* state, also when rollbacks fail.
THEOREM Safety == Spec => []UndoReady
<1>1. Init => TypeOK /\ SafeApplyInv
  BY DEF Init, TypeOK, SafeApplyInv, CheckpointKept, DecidedOnce, IdsUsed
<1>2. TypeOK /\ SafeApplyInv => UndoReady
  BY DEF SafeApplyInv, UndoReady
<1> QED BY <1>1, <1>2, Inductive, PTL DEF Spec

\* A timer that comes late never touches the ruleset.
THEOREM LateTimersHarmless == Spec => NoLateRollback
<1>1. ASSUME TypeOK, [Next]_vars, NEW a \in Applies,
             timer[a] = "fired", timer'[a] = "none", pending # a
      PROVE  kernel' = kernel
  <2>1. ASSUME NEW b \in Applies, NEW c \in Rulesets,
               SafeApplyFails(b, c) \/ SafeApplyUnconfirmed(b, c)
        PROVE  FALSE
    BY <1>1, <2>1 DEF SafeApplyFails, SafeApplyUnconfirmed
  <2>2. ASSUME NEW b \in Applies, NEW c \in Rulesets, SafeApplyPending(b, c)
        PROVE  FALSE
    BY <1>1, <2>2 DEF SafeApplyPending, TypeOK
  <2>3. ASSUME NEW b \in Applies, ConfirmApply(b) \/ CancelApply(b) PROVE FALSE
    BY <1>1, <2>3 DEF ConfirmApply, CancelApply
  <2>4. ASSUME NEW c \in Rulesets, ForceApply(c) PROVE FALSE
    BY <1>1, <2>4 DEF ForceApply
  <2>5. ASSUME NEW b \in Applies, TimerFires(b) \/ TimerCancelled(b)
        PROVE  kernel' = kernel
    BY <2>5 DEF TimerFires, TimerCancelled
  <2>6. ASSUME NEW b \in Applies, TimerRollsBack(b) PROVE kernel' = kernel
    <3>1. b = a
      BY <1>1, <2>6 DEF TimerRollsBack, TypeOK
    <3> QED BY <1>1, <2>6, <3>1 DEF TimerRollsBack, StillPending
  <2>7. CASE UNCHANGED vars
    BY <1>1, <2>7 DEF vars
  <2> QED BY <1>1, <2>1, <2>2, <2>3, <2>4, <2>5, <2>6, <2>7 DEF Next
<1>2. TypeOK /\ [Next]_vars =>
        [\A a \in Applies : timer[a] = "fired" /\ timer'[a] = "none" /\ pending # a
                               => kernel' = kernel]_vars
  BY <1>1
<1>3. UndoReady => TypeOK
  BY DEF UndoReady
<1> QED BY <1>2, <1>3, Safety, PTL DEF Spec, NoLateRollback

-----------------------------------------------------------------------------
(* With rollbacks that work SafeApply implements ConfirmOrRevert           *)

\* Every step of the manager is a step of the abstract specification, or none.
LEMMA StepSimulation ==
    ASSUME RollbackOutcomes = {"ok"}, TypeOK, SafeApplyInv, [Next]_vars
    PROVE  [Abstract!Next]_<<kernel, IF pending = NoApply THEN NoRuleset ELSE before[pending], said>>
<1> USE DEF Abstract!Next, Abstract!Try, Abstract!Replace, Abstract!Refuse,
            Abstract!Keep, Abstract!Revert
<1> DEFINE fallback == IF pending = NoApply THEN NoRuleset ELSE before[pending]
<1>0. /\ pending = NoApply \/ pending \in Applies
      /\ fallback = NoRuleset <=> pending = NoApply
      /\ pending # NoApply => checkpoint = fallback
  BY DEF TypeOK, SafeApplyInv, CheckpointKept, IdsUsed
<1>1. ASSUME NEW a \in Applies, NEW c \in Rulesets, SafeApplyFails(a, c)
      PROVE  Abstract!Refuse
  <2>1. pending = NoApply /\ pending' = NoApply /\ kernel' = kernel
    BY <1>1 DEF SafeApplyFails, Begin, AfterRollback, SafeApplyInv, DecidedOnce, TypeOK
  <2> QED BY <1>1, <2>1 DEF SafeApplyFails
<1>2. ASSUME NEW a \in Applies, NEW c \in Rulesets, SafeApplyPending(a, c)
      PROVE  Abstract!Try(c)
  <2>1. pending = NoApply /\ pending' = a /\ before'[a] = kernel
    BY <1>2 DEF SafeApplyPending, Begin, SafeApplyInv, DecidedOnce, TypeOK
  <2> QED BY <1>2, <2>1 DEF SafeApplyPending
<1>3. ASSUME NEW a \in Applies, NEW c \in Rulesets, SafeApplyUnconfirmed(a, c)
      PROVE  Abstract!Replace(c)
  BY <1>3 DEF SafeApplyUnconfirmed
<1>4. ASSUME NEW a \in Applies, ConfirmApply(a) PROVE Abstract!Keep
  BY <1>4, <1>0 DEF ConfirmApply
<1>5. ASSUME NEW a \in Applies, CancelApply(a) PROVE Abstract!Revert
  BY <1>5, <1>0 DEF CancelApply, AfterRollback
<1>6. ASSUME NEW c \in Rulesets, ForceApply(c) PROVE \E s \in Kernel : Abstract!Replace(s)
  BY <1>6 DEF ForceApply, TypeOK
<1>7. ASSUME NEW a \in Applies, TimerFires(a) \/ TimerCancelled(a)
      PROVE  UNCHANGED <<kernel, fallback, said>>
  BY <1>7 DEF TimerFires, TimerCancelled
<1>8. ASSUME NEW a \in Applies, TimerRollsBack(a)
      PROVE  Abstract!Revert \/ UNCHANGED <<kernel, fallback, said>>
  <2>1. CASE StillPending(a)
    BY <1>8, <2>1, <1>0 DEF TimerRollsBack, StillPending, AfterRollback
  <2>2. CASE ~StillPending(a)
    BY <1>8, <2>2 DEF TimerRollsBack
  <2> QED BY <2>1, <2>2
<1>9. CASE UNCHANGED vars
  BY <1>9 DEF vars
<1> QED BY <1>1, <1>2, <1>3, <1>4, <1>5, <1>6, <1>7, <1>8, <1>9 DEF Next

\* When rollbacks work, every behaviour of the manager is one of
\* ConfirmOrRevert: what the operator is told is what happened, and a trial
\* ends by being kept, by going back, or by being replaced.
THEOREM Implements == ASSUME RollbackOutcomes = {"ok"} PROVE Spec => Refinement
<1>1. Init => Abstract!Init
  BY DEF Init, Abstract!Init
<1>2. Init => TypeOK /\ SafeApplyInv
  BY DEF Init, TypeOK, SafeApplyInv, CheckpointKept, DecidedOnce, IdsUsed
<1>3. TypeOK /\ SafeApplyInv /\ [Next]_vars =>
        [Abstract!Next]_<<kernel, IF pending = NoApply THEN NoRuleset ELSE before[pending], said>>
  BY StepSimulation
<1> QED BY <1>1, <1>2, <1>3, Inductive, PTL DEF Spec, Refinement, Abstract!Spec
=============================================================================
