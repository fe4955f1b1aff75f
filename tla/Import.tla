------------------------------ MODULE Import ------------------------------
(***************************************************************************)
(* Importing another firewall's configuration.  A reader per format turns  *)
(* each rule into an intermediate one, with notes and a suggested policy;  *)
(* the wizard keeps the result and makes a configuration from it for the   *)
(* interface mapping the user chose.  The text formats are abstracted to   *)
(* the fields the readers take from them.                                  *)
(***************************************************************************)
EXTENDS Integers, Sequences, SequencesExt, FiniteSets

CONSTANTS
    ImpRuleBound,    \* bound: rules of the imported file
    ImpDifferences   \* bound: how far two rules together are from the plainest

Formats == {"pfsense", "mikrotik", "iptables", "openwrt", "ufw"}

\* A rule of the file.  port: 0 none, a number, "range" (80 to 81) or a "name";
\* from: "any", "addr", "hosts" (an alias of addresses) or "other" (an alias
\* that is not imported); special: what a reader only notes; homeless: a rule
\* whose policy cannot be told (no zone for the interface, no destination).
SourceRule ==
    [verdict: {"accept", "drop", "reject", "log", "jump", "return", "limit"},
     port: {"any", "80", "range", "name"}, from: {"any", "addr", "hosts", "other"},
     sport: BOOLEAN, special: {"none", "state", "os"}, disabled: BOOLEAN, homeless: BOOLEAN]

Plainest == [verdict |-> "accept", port |-> "any", from |-> "any", sport |-> FALSE,
             special |-> "none", disabled |-> FALSE, homeless |-> FALSE]
Differ(r) == {f \in DOMAIN Plainest : r[f] # Plainest[f]}
SourceRules == {r \in SourceRule : Cardinality(Differ(r)) <= 2}

\* What the formats can say.
Writable(fmt, r) ==
    /\ r.verdict = "limit" => fmt = "ufw"
    /\ r.verdict \in {"jump", "return", "log"} => fmt \in {"iptables", "mikrotik"}
    /\ r.verdict = "return" => fmt = "iptables"
    /\ r.from \in {"hosts", "other"} => fmt = "pfsense"
    /\ r.port = "name" => fmt \in {"pfsense", "iptables"}
    /\ r.special = "os" => fmt = "pfsense"
    /\ r.special = "state" => fmt \in {"iptables", "mikrotik"}
    /\ r.homeless => fmt \in {"pfsense", "openwrt"}
    /\ r.disabled => fmt # "iptables"

-----------------------------------------------------------------------------
\* The readers.  Each says what the action becomes, whether the rule can be
\* imported, and whether there is something to note.
Read(action, can, note) == [action |-> action, can |-> can, note |-> note]

PfSenseRule(r) == Read(r.verdict, r.special # "os", r.special # "none")

IPTablesRule(r) ==
    CASE r.verdict = "log" -> Read("accept", TRUE, TRUE)
      [] r.verdict = "return" -> Read("", FALSE, TRUE)
      [] r.verdict = "jump" -> Read("", TRUE, TRUE)
      [] OTHER -> Read(r.verdict, TRUE, r.special = "state")

OpenWrtRule(r) == Read(r.verdict, TRUE, FALSE)

MikroTikRule(r) ==
    IF r.verdict = "jump" THEN Read("", TRUE, TRUE) ELSE Read(r.verdict, TRUE, r.special = "state")

UFWRule(r) ==
    IF r.verdict = "limit" THEN Read("accept", TRUE, TRUE) ELSE Read(r.verdict, TRUE, FALSE)

Reader(fmt, r) ==
    CASE fmt = "pfsense" -> PfSenseRule(r) [] fmt = "iptables" -> IPTablesRule(r)
      [] fmt = "openwrt" -> OpenWrtRule(r) [] fmt = "mikrotik" -> MikroTikRule(r)
      [] fmt = "ufw" -> UFWRule(r)

\* Rules that are switched off are left out by three readers and kept, marked,
\* by pfSense's.
ReadRules(fmt, r) ==
    IF r.disabled /\ fmt \in {"mikrotik", "openwrt", "ufw"} THEN << >>
    ELSE << [read |-> Reader(fmt, r), port |-> r.port, from |-> r.from,
             disabled |-> r.disabled, home |-> ~r.homeless] >>

-----------------------------------------------------------------------------
\* ToConfig.  A port is read as a leading number; "80:81" gives 80, a name none.
PortRead(port) == CASE port \in {"80", "range"} -> "80" [] OTHER -> "any"

Imported_Disabled(i) == i.read.can /\ i.home
Imported(i) == i.read.can /\ ~i.disabled /\ i.home

PolicyRules(rules) ==
    LET kept == SelectSeq(rules, Imported)
    IN  [k \in DOMAIN kept |-> [action |-> kept[k].read.action, port |-> PortRead(kept[k].port),
                                from |-> kept[k].from]]

\* Interfaces: the file's names, the names suggested, and the user's mapping.
IfNames == {"wan", "lan"}
Suggested == [n \in IfNames |-> IF n = "wan" THEN "eth0" ELSE "eth1"]
Mappings == UNION {[S -> {"enp1", "enp2"}] : S \in SUBSET IfNames}
Mapped(m, n, otherwise) == IF n \in DOMAIN m THEN m[n] ELSE otherwise

InterfacesOf(m) == {Mapped(m, n, Suggested[n]) : n \in IfNames}
ImpZoneOf(m, n) == Mapped(m, n, Suggested[n])

\* NAT rules and forwards name an interface of the file, a DHCP scope the
\* suggested one.
NatInterface_Raw(m, n) == n
NatInterface(m, n) == Mapped(m, n, n)
ScopeInterface(m, n) == Mapped(m, Suggested[n], Suggested[n])

ToConfig(rules, m) ==
    [interfaces |-> InterfacesOf(m), zones |-> {ImpZoneOf(m, n) : n \in IfNames},
     policy |-> PolicyRules(rules),
     nat |-> NatInterface(m, "wan"), scope |-> ScopeInterface(m, "lan")]

-----------------------------------------------------------------------------
VARIABLES impFmt,
          impFile,     \* the file's rules
          impResult,   \* result.FilterRules
          impSession,  \* "none", "reading", "ready", or "empty": no result
          impMapping,
          impConfig    \* the preview, << >> before one is made

impVars == <<impFmt, impFile, impResult, impSession, impMapping, impConfig>>

ImportInit ==
    /\ impFmt \in Formats /\ impFile = << >> /\ impResult = << >>
    /\ impSession = "reading" /\ impMapping = << >> /\ impConfig = << >>

ReadRule ==
    /\ impSession = "reading" /\ Len(impFile) < ImpRuleBound
    /\ \E r \in SourceRules :
        /\ Writable(impFmt, r)
        /\ \A k \in DOMAIN impFile :
             Cardinality(Differ(impFile[k])) + Cardinality(Differ(r)) <= ImpDifferences
        /\ impFile' = Append(impFile, r)
        /\ impResult' = impResult \o ReadRules(impFmt, r)
    /\ UNCHANGED <<impFmt, impSession, impMapping, impConfig>>

\* handleImportUpload keeps a session, also for a MikroTik file that could not
\* be read: that error is assigned to a variable of an inner scope.
UploadDone ==
    /\ impSession = "reading"
    /\ impSession' \in IF impFmt = "mikrotik" THEN {"ready", "empty"} ELSE {"ready", "none"}
    /\ UNCHANGED <<impFmt, impFile, impResult, impMapping, impConfig>>

\* handleImportConfig; with an empty session the request fails.
ImportConfig(m) ==
    /\ impSession = "ready" /\ impMapping' = m
    /\ impConfig' = ToConfig(impResult, m)
    /\ UNCHANGED <<impFmt, impFile, impResult, impSession>>

ImportNext ==
    \/ ReadRule
    \/ UploadDone
    \/ \E m \in Mappings : ImportConfig(m)

-----------------------------------------------------------------------------
\* Packets, by what a rule of either side can tell apart.
Packets == [port: {"80", "81", "22"}, from: {"addr", "hosts", "elsewhere"}]

MatchesFrom(from, p) == from = "any" \/ from = p.from
MatchesFile(r, p) ==
    /\ ~r.disabled /\ MatchesFrom(r.from, p)
    /\ CASE r.port = "any" -> TRUE [] r.port = "range" -> p.port \in {"80", "81"} [] OTHER -> p.port = r.port
MatchesRule(r, p) == MatchesFrom(r.from, p) /\ (r.port = "any" \/ r.port = p.port)

VerdictOf(seq, matches(_), verdict(_)) ==
    LET hits == {k \in DOMAIN seq : matches(seq[k])}
    IN  IF hits = {} THEN "drop" ELSE verdict(seq[CHOOSE k \in hits : \A j \in hits : k <= j])

\* What the intermediate form can carry without loss.
Expressible(r) ==
    /\ r.verdict \in {"accept", "drop", "reject"} /\ r.port \in {"any", "80"} /\ ~r.sport
    /\ r.from # "other" /\ r.special = "none" /\ ~r.homeless

\* A file of rules that need no note decides every packet as the imported
\* policy does: rules switched off stay off, the order is kept, and addresses
\* and aliases end on the right side.
SameVerdicts ==
    (impConfig # << >> /\ \A k \in DOMAIN impFile : Expressible(impFile[k])) =>
        \A p \in Packets :
            VerdictOf(impFile, LAMBDA r : MatchesFile(r, p), LAMBDA r : r.verdict)
              = VerdictOf(impConfig.policy, LAMBDA r : MatchesRule(r, p), LAMBDA r : r.action)

\* NAT and zones refer to interfaces the configuration has, for a mapping that
\* names the file's interfaces.
NatFollowsMapping ==
    (impConfig # << >> /\ DOMAIN impMapping = IfNames)
        => {impConfig.nat} \cup impConfig.zones \subseteq impConfig.interfaces

\* Imported rules decide as the original ones did, and address translation
\* follows the interfaces the user chose.
ImportFaithful == SameVerdicts /\ NatFollowsMapping
=============================================================================
