--------------------------- MODULE ConfigLoading ---------------------------
(***************************************************************************)
(* From a configuration as it is written to the one that runs: loading     *)
(* names the policies, brings the two ways of saying which interface is in *)
(* which zone together and rewrites both into match blocks; Validate looks *)
(* at what an API client edits and at what an upgrade starts with, but not *)
(* at what a boot loads.  Interfaces, VLANs and zones are names; a network *)
(* is a prefix of NetBits bits.                                            *)
(***************************************************************************)
EXTENDS Integers, Sequences, FiniteSets

CONSTANTS CfgIfs, CfgVlans, CfgZones,  \* CfgZones in the order of the file
          NetBits,
          WrittenConfigs,              \* what an operator writes
          ZoneEdits, PolicyEdits,      \* what API clients send
          CfgClients, CfgEdits         \* clients of the API; bound on their edits

VARIABLES cfgFile,     \* the file's configuration
          cfgRun,      \* the control plane's
          cfgStaged,   \* the API's
          cfgEdit,     \* a request after its validation: [pc, part, value]
          cfgSent,     \* the staged policies are ones a client sent
          cfgUpgraded, \* the process was started by an upgrade
          cfgEdits

cfgVars == <<cfgFile, cfgRun, cfgStaged, cfgEdit, cfgSent, cfgUpgraded, cfgEdits>>

ZoneNames == {CfgZones[k] : k \in DOMAIN CfgZones}
NoZone == ""
\* A zone: its one interface or a source network, the deprecated list, the
\* match blocks (one without an interface of its own is "").
ZoneUndefined == [def |-> FALSE, top |-> "", src |-> FALSE, list |-> {}, matches |-> {}]

-----------------------------------------------------------------------------
\* NormalizeZoneMappings: an interface without a zone gets the first that
\* lists it; a zone lists every interface and VLAN that names it.
ZoneOfIf(c, i) ==
    IF c.ifzone[i] # NoZone THEN c.ifzone[i]
    ELSE LET lists == {k \in DOMAIN CfgZones : i \in c.zones[CfgZones[k]].list}
         IN  IF lists = {} THEN NoZone ELSE CfgZones[CHOOSE k \in lists : \A j \in lists : k <= j]
Normalized(c) ==
    LET named(z) == {i \in CfgIfs : ZoneOfIf(c, i) = z} \cup {v \in CfgVlans : c.vlanzone[v] = z}
    IN  [c EXCEPT !.ifzone = [i \in CfgIfs |-> ZoneOfIf(c, i)],
                  !.zones = [z \in ZoneNames |-> [c.zones[z] EXCEPT !.def = @ \/ named(z) # {},
                                                                    !.list = @ \cup named(z)]]]

\* NormalizePolicies
DefaultName(p) == IF p.to = "wan" THEN "lan-to-wan" ELSE "lan-to-other"
NamedPolicies(c) ==
    [c EXCEPT !.pols = [k \in DOMAIN c.pols |->
        IF c.pols[k].name = "" THEN [c.pols[k] EXCEPT !.name = DefaultName(c.pols[k])] ELSE c.pols[k]]]

\* canonicalizeZones, the migration after loading: both forms become matches.
Canonical_ClearFirst(c) ==
    [c EXCEPT !.ifzone = [i \in CfgIfs |-> NoZone],
              !.zones = [z \in ZoneNames |-> [c.zones[z] EXCEPT !.list = {},
                  !.matches = @ \cup {i \in CfgIfs : c.ifzone[i] = z}]]]
Canonical(c) ==
    [c EXCEPT !.ifzone = [i \in CfgIfs |-> NoZone],
              !.zones = [z \in ZoneNames |-> [c.zones[z] EXCEPT !.list = {},
                  !.matches = @ \cup {i \in CfgIfs : c.ifzone[i] = z} \cup c.zones[z].list]]]

Loaded(c) == Canonical(NamedPolicies(Normalized(c)))

\* GetEffectiveMatches and GetZoneInterfaces: the match blocks, else the one
\* interface, else the list; a source network alone hides the list.
EffectiveInterfaces_NoList(z) ==
    IF z.matches # {} THEN {IF m = "" THEN z.top ELSE m : m \in z.matches} ELSE {z.top}
EffectiveInterfaces(z) ==
    IF z.matches # {} THEN {IF m = "" THEN z.top ELSE m : m \in z.matches}
    ELSE IF z.top # "" \/ z.src THEN {z.top} ELSE z.list
\* buildZoneMapForScript: what the ruleset takes a zone to be.
ZoneMembers(c, z) == (EffectiveInterfaces(c.zones[z]) \ {""}) \cup {i \in CfgIfs : c.ifzone[i] = z}

-----------------------------------------------------------------------------
(* Validate.  What it says of single fields (addresses, names, ports, MTU, *)
(* actions) is c.bad, the sections with a malformed one.                   *)
NetSize(n) == 2 ^ (NetBits - n.len)
NetContains(n, a) == a \div NetSize(n) = n.base \div NetSize(n)
NetsOverlap_OneWay(n1, n2) == NetContains(n1, n2.base)
NetsOverlap(n1, n2) == NetContains(n1, n2.base) \/ NetContains(n2, n1.base)
\* In the order of the file, a VLAN after its interface.
NetOrder(c) == SelectSeq(c.nets, LAMBDA n : n.len # -1)
OverlapErrors(c) ==
    LET nets == NetOrder(c)
    IN  {jk \in (DOMAIN nets) \X (DOMAIN nets) : jk[1] < jk[2] /\ NetsOverlap(nets[jk[1]], nets[jk[2]])}

FirstNamed(pols, n) ==
    LET named == {k \in DOMAIN pols : pols[k].name = n}
    IN  IF named = {} THEN 0 ELSE CHOOSE k \in named : \A j \in named : k <= j
InheritsOf(pols, n) == IF FirstNamed(pols, n) = 0 THEN "" ELSE pols[FirstNamed(pols, n)].inherits
\* The names met from policy k upwards, as far as they can differ.
Ancestors(pols, k) ==
    LET up[n \in 1 .. Len(pols) + 2] == IF n = 1 THEN pols[k].inherits ELSE InheritsOf(pols, up[n - 1]) IN up
CircularFrom(pols, k) ==
    LET up == Ancestors(pols, k) IN \E m, n \in DOMAIN up : m < n /\ up[m] # "" /\ up[m] = up[n]
InheritErrors_SelfOnly(pols) ==
    {k \in DOMAIN pols : pols[k].inherits # "" /\ FirstNamed(pols, pols[k].inherits) \in {0, k}}
InheritErrors(pols) ==
    {k \in DOMAIN pols : pols[k].inherits # "" /\ (FirstNamed(pols, pols[k].inherits) \in {0, k} \/ CircularFrom(pols, k))}

\* Two policies for a pair of zones, neither related to the other.
SameCombo(pols, k) == {j \in DOMAIN pols \ {k} : pols[j].from = pols[k].from /\ pols[j].to = pols[k].to}
ComboErrors(pols) ==
    {k \in DOMAIN pols :
        /\ pols[k].inherits = "" /\ SameCombo(pols, k) # {}
        /\ \A j \in SameCombo(pols, k) : pols[j].inherits # pols[k].name /\ pols[k].inherits # pols[j].name}

DefinedZones(c) ==
    {z \in ZoneNames : c.zones[z].def} \cup {c.ifzone[i] : i \in CfgIfs} \cup {c.vlanzone[v] : v \in CfgVlans}
ReferenceErrors(c) ==
    {k \in DOMAIN c.pols :
        \/ c.pols[k].from \notin DefinedZones(c) \cup {"", "*"}
        \/ c.pols[k].to \notin DefinedZones(c) \cup {"", "*", "self", "firewall"}
        \/ c.pols[k].set \notin c.sets \cup {""}}

\* Errors and warnings alike make HasErrors true.
Validate(c) ==
    /\ c.bad = {} /\ OverlapErrors(c) = {} /\ ReferenceErrors(c) = {}
    /\ InheritErrors(c.pols) = {} /\ ComboErrors(c.pols) = {}

-----------------------------------------------------------------------------
NoEdit == [pc |-> "idle", part |-> "none", zones |-> <<>>, pols |-> <<>>]
CfgInit ==
    /\ cfgFile \in WrittenConfigs /\ cfgRun = Loaded(cfgFile) /\ cfgStaged = cfgRun
    /\ cfgEdit = [c \in CfgClients |-> NoEdit]
    /\ cfgSent = FALSE /\ cfgUpgraded = FALSE /\ cfgEdits = 0

\* A process starts with the file: at boot as it is, in an upgrade only when
\* it is valid.
StartWith(c) ==
    /\ cfgRun' = c /\ cfgStaged' = c /\ cfgSent' = FALSE
    /\ cfgEdit' = [x \in CfgClients |-> NoEdit]
    /\ UNCHANGED <<cfgFile, cfgEdits>>
BootConfig == StartWith(Loaded(cfgFile)) /\ cfgUpgraded' = FALSE
UpgradeConfig == Validate(Loaded(cfgFile)) /\ StartWith(Loaded(cfgFile)) /\ cfgUpgraded' = TRUE

\* applyConfigUpdate: a copy with the edit is validated ...
WithEdit(c, e) ==
    IF e.part = "zones" THEN [c EXCEPT !.zones = e.zones] ELSE [c EXCEPT !.pols = e.pols]
ValidateEdit(x, e) ==
    /\ cfgEdit[x].pc = "idle" /\ cfgEdits < CfgEdits /\ cfgEdits' = cfgEdits + 1
    /\ Validate(WithEdit(cfgStaged, e))
    /\ cfgEdit' = [cfgEdit EXCEPT ![x] = e]
    /\ UNCHANGED <<cfgFile, cfgRun, cfgStaged, cfgSent, cfgUpgraded>>
\* ... and then the edit is made to the staged configuration of that moment.
StageEdit(x) ==
    /\ cfgEdit[x].pc = "valid"
    /\ cfgStaged' = WithEdit(cfgStaged, cfgEdit[x])
    /\ cfgSent' = (cfgSent \/ cfgEdit[x].part = "pols")
    /\ cfgEdit' = [cfgEdit EXCEPT ![x] = NoEdit]
    /\ UNCHANGED <<cfgFile, cfgRun, cfgUpgraded, cfgEdits>>

ApplyEdits ==
    /\ cfgRun' = cfgStaged
    /\ UNCHANGED <<cfgFile, cfgStaged, cfgEdit, cfgSent, cfgUpgraded, cfgEdits>>
SaveRunning ==
    /\ cfgFile' = cfgRun
    /\ UNCHANGED <<cfgRun, cfgStaged, cfgEdit, cfgSent, cfgUpgraded, cfgEdits>>

EditsOffered ==
    {[pc |-> "valid", part |-> "zones", zones |-> z, pols |-> <<>>] : z \in ZoneEdits} \cup
    {[pc |-> "valid", part |-> "pols", zones |-> <<>>, pols |-> p] : p \in PolicyEdits}
CfgNext ==
    \/ BootConfig \/ UpgradeConfig \/ ApplyEdits \/ SaveRunning
    \/ \E x \in CfgClients : StageEdit(x) \/ \E e \in EditsOffered : ValidateEdit(x, e)

-----------------------------------------------------------------------------
\* Every interface and VLAN a file gives to a zone, by whichever of the
\* forms, is in the zone after the load.  (Not in a zone with an interface of
\* its own: the matches the other forms become replace it.)
WrittenInForce ==
    LET loaded == Loaded(cfgFile) IN
    \A z \in ZoneNames : cfgFile.zones[z].top = "" =>
        ((cfgFile.zones[z].matches \cup cfgFile.zones[z].list) \ {""})
          \cup {i \in CfgIfs : cfgFile.ifzone[i] = z} \cup {v \in CfgVlans : cfgFile.vlanzone[v] = z}
        \subseteq ZoneMembers(loaded, z)

\* Zones an API client gave in two forms at once, or with a VLAN taken out.
TwoForms(c, z) ==
    \/ c.zones[z].list # {} /\ (c.zones[z].matches # {} \/ c.zones[z].top # "" \/ c.zones[z].src)
    \/ \E v \in CfgVlans : c.vlanzone[v] = z /\ v \notin ZoneMembers(c, z)

\* A restart keeps the zones that ran when they were saved: no interface
\* changes its zone because the program started again.  Left out are zones
\* an API client gave in two forms at once, and VLANs it took out of one.
RestartKeepsZones ==
    cfgFile = cfgRun =>
        LET loaded == Loaded(cfgFile) IN
        \A z \in ZoneNames : ~TwoForms(cfgRun, z) => ZoneMembers(loaded, z) = ZoneMembers(cfgRun, z)

\* Following a policy's parents ends, for every list of policies a client
\* could stage, with names used twice or missing too: GetEffectiveRules
\* follows them without a check of its own.
InheritanceEnds ==
    cfgSent => \A k \in DOMAIN cfgStaged.pols :
        LET parent(j) == FirstNamed(cfgStaged.pols, cfgStaged.pols[j].inherits)
            path[n \in 0 .. Len(cfgStaged.pols)] ==
                IF n = 0 THEN k
                ELSE IF path[n - 1] = 0 \/ cfgStaged.pols[path[n - 1]].inherits = "" THEN 0 ELSE parent(path[n - 1])
        IN  path[Len(cfgStaged.pols)] = 0

\* A process that an upgrade started has no address in the networks of two
\* interfaces, whichever of them is the larger.
UpgradedNetsDisjoint ==
    (cfgUpgraded /\ cfgRun.nets = cfgFile.nets) =>
        \A a \in 0 .. 2 ^ NetBits - 1 :
            Cardinality({k \in DOMAIN cfgRun.nets : cfgRun.nets[k].len # -1 /\ NetContains(cfgRun.nets[k], a)}) < 2

\* The zones in force are the ones written, also after a restart; inheritance
\* ends, and no two networks of an upgraded process overlap.
LoadedAsWritten == WrittenInForce /\ RestartKeepsZones /\ InheritanceEnds /\ UpgradedNetsDisjoint
=============================================================================
