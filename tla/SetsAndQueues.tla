--------------------------- MODULE SetsAndQueues ---------------------------
(***************************************************************************)
(* Kernel objects the daemon fills by one command after another, any of    *)
(* which may fail: IP sets and the queues of traffic shaping.  The two     *)
(* share no state.                                                         *)
(***************************************************************************)
EXTENDS Integers, Sequences, FiniteSets

-----------------------------------------------------------------------------
(***************************************************************************)
(* An IP set that is filled from a downloaded list: applyIPSets of the     *)
(* firewall manager, the list cache (internal/firewall/firehol.go) and the *)
(* set commands (internal/firewall/ipset.go), with the control plane's     *)
(* calls that change sets and cache meanwhile.                             *)
(*                                                                         *)
(* The cache keeps a data file and a file with its time and checksum.  The *)
(* daemon may die between any two steps.  ForceUpdate never gets as far as *)
(* the download, since only ApplyIPSets, which nobody calls, saves the     *)
(* metadata it begins with.                                                *)
(***************************************************************************)

CONSTANTS
    IpsVersions,     \* the contents the list has had, 1 .. n: n is the newest
    IpsStatic,       \* entries written in the configuration
    IpsManual,       \* entries added through the API
    IpsMaxAge,       \* 24 hours
    IpsEnd, MaxIpsApplies, MaxIpsFaults, MaxIpsEdits   \* bounds

VARIABLES
    ipsNow, ipsRemote,    \* time, and the version the server has
    ipsSince,    \* history: per version when it was last the server's
    ipsData,     \* <key>.txt: version, or 0 for none and "torn" for a part
    ipsMeta,     \* <key>.meta: {} or the time and the checksum
    ipsKernel,   \* elements of the set: <<"list", version, half>>, static and manual ones
    ipsPc, ipsList,   \* applyIPSets: step, and the list it works with
    ipsDone,     \* how the last apply ended
    ipsUsed,     \* history: the list of the last apply
    ipsApplies, ipsFaults, ipsEdits

ipsVars == <<ipsNow, ipsRemote, ipsSince, ipsData, ipsMeta, ipsKernel, ipsPc, ipsList, ipsDone, ipsUsed,
             ipsApplies, ipsFaults, ipsEdits>>

\* Entries the API adds or removes are not the configuration's, and no entry
\* given by hand is taken for one of the list's.
ASSUME IpsAssumption ==
    /\ IpsVersions \subseteq Nat \ {0} /\ 1 \in IpsVersions
    /\ IpsStatic \cap IpsManual = {}
    /\ \A e \in IpsStatic \cup IpsManual : e[1] # "list"
    /\ IpsMaxAge \in Nat

None == 0
Torn == -1
\* A list is added in batches of 100; two of them stand for all.
Batch(v, h) == <<"list", v, h>>
Elements(v) == {Batch(v, 1), Batch(v, 2)}

IpsInit ==
    /\ ipsNow = 0 /\ ipsRemote = 1 /\ ipsSince = [v \in IpsVersions |-> 0]
    /\ ipsData = None /\ ipsMeta = {} /\ ipsKernel = {}
    /\ ipsPc = "idle" /\ ipsList = None /\ ipsDone = "none" /\ ipsUsed = None
    /\ ipsApplies = 0 /\ ipsFaults = 0 /\ ipsEdits = 0

Fault == ipsFaults < MaxIpsFaults /\ ipsFaults' = ipsFaults + 1

-----------------------------------------------------------------------------
\* The atomic script: the set is created, flushed and given the entries of the
\* configuration; a script that is refused changes nothing and ends ApplyConfig.
IpsScript ==
    /\ ipsPc = "idle" /\ ipsApplies < MaxIpsApplies /\ ipsApplies' = ipsApplies + 1
    /\ \/ /\ ipsKernel' = IpsStatic
          /\ ipsPc' = "load" /\ ipsUsed' = None /\ ipsList' = None /\ UNCHANGED ipsFaults
       \/ Fault /\ UNCHANGED <<ipsKernel, ipsPc, ipsUsed, ipsList>>
    /\ ipsDone' = "none"
    /\ UNCHANGED <<ipsNow, ipsRemote, ipsSince, ipsData, ipsMeta, ipsEdits>>

\* Mutant: the checksum is not compared.
Cached_NoChecksum == {m \in ipsMeta : ipsData # None /\ ipsNow - m.at <= IpsMaxAge}
\* Mutant: the time is not compared.
Cached_NoAge == {m \in ipsMeta : ipsData = m.sum}
\* loadFromCache: both files, not too old, and the checksum is that of the data.
Cached == {m \in ipsMeta : ipsData = m.sum /\ ipsNow - m.at <= IpsMaxAge}

\* DownloadFromURL: the cache, else the server.  A download that fails leaves
\* the static entries only.
IpsLoad ==
    /\ ipsPc = "load"
    /\ \/ /\ Cached # {}
          /\ ipsList' = ipsData /\ ipsPc' = "flush" /\ UNCHANGED ipsFaults
       \/ /\ Cached = {}
          /\ ipsList' = ipsRemote /\ ipsPc' = "data" /\ UNCHANGED ipsFaults
       \/ /\ Cached = {} /\ Fault
          /\ ipsList' = None /\ ipsPc' = "flush"
    /\ UNCHANGED <<ipsNow, ipsRemote, ipsSince, ipsData, ipsMeta, ipsKernel, ipsDone, ipsUsed, ipsApplies, ipsEdits>>

\* saveToCache writes the data, in pieces, and then the metadata; it may fail,
\* which is only logged.
IpsWriteData ==
    /\ ipsPc \in {"data", "data2"}
    /\ \/ /\ ipsData' = (IF ipsPc = "data" THEN Torn ELSE ipsList)
          /\ ipsPc' = (IF ipsPc = "data" THEN "data2" ELSE "meta")
          /\ UNCHANGED ipsFaults
       \/ /\ Fault /\ ipsPc' = "flush" /\ UNCHANGED ipsData
    /\ UNCHANGED <<ipsNow, ipsRemote, ipsSince, ipsMeta, ipsKernel, ipsList, ipsDone, ipsUsed, ipsApplies, ipsEdits>>
IpsWriteMeta ==
    /\ ipsPc = "meta"
    /\ \/ /\ ipsMeta' = {[at |-> ipsNow, sum |-> ipsList]} /\ UNCHANGED ipsFaults
       \/ /\ Fault /\ UNCHANGED ipsMeta
    /\ ipsPc' = "flush"
    /\ UNCHANGED <<ipsNow, ipsRemote, ipsSince, ipsData, ipsKernel, ipsList, ipsDone, ipsUsed, ipsApplies, ipsEdits>>

\* FlushSet, when there are entries to add; its error is ignored.
IpsFlush ==
    /\ ipsPc = "flush"
    /\ \/ ipsKernel' = (IF IpsStatic = {} /\ ipsList = None THEN ipsKernel ELSE {}) /\ UNCHANGED ipsFaults
       \/ Fault /\ UNCHANGED ipsKernel
    /\ ipsPc' = "add1" /\ ipsUsed' = ipsList
    /\ UNCHANGED <<ipsNow, ipsRemote, ipsSince, ipsData, ipsMeta, ipsList, ipsDone, ipsApplies, ipsEdits>>

\* AddElements, batch by batch; the first one that fails ends the apply with a
\* warning.  The static entries are in the first batch.
IpsAdd ==
    /\ ipsPc \in {"add1", "add2"}
    /\ \/ /\ ipsKernel' = ipsKernel \cup (IF ipsPc = "add1" THEN IpsStatic ELSE {})
                 \cup (IF ipsList = None THEN {} ELSE {Batch(ipsList, IF ipsPc = "add1" THEN 1 ELSE 2)})
          /\ ipsPc' = (IF ipsPc = "add1" THEN "add2" ELSE "idle")
          /\ ipsDone' = (IF ipsPc = "add2" THEN (IF ipsList = None THEN "nolist" ELSE "ok") ELSE "none")
          /\ UNCHANGED ipsFaults
       \/ /\ Fault /\ ipsPc' = "idle" /\ ipsDone' = "warned" /\ UNCHANGED ipsKernel
    /\ UNCHANGED <<ipsNow, ipsRemote, ipsSince, ipsData, ipsMeta, ipsList, ipsUsed, ipsApplies, ipsEdits>>

-----------------------------------------------------------------------------
\* AddIPSetEntry, also for the address of a tagged device, and RemoveIPSetEntry.
IpsAddEntry(e) ==
    /\ ipsEdits < MaxIpsEdits /\ ipsEdits' = ipsEdits + 1
    /\ ipsKernel' = ipsKernel \cup {e}
    /\ UNCHANGED <<ipsNow, ipsRemote, ipsSince, ipsData, ipsMeta, ipsPc, ipsList, ipsDone, ipsUsed, ipsApplies, ipsFaults>>
IpsRemoveEntry(e) ==
    /\ e \in IpsManual \cap ipsKernel
    /\ ipsKernel' = ipsKernel \ {e}
    /\ UNCHANGED <<ipsNow, ipsRemote, ipsSince, ipsData, ipsMeta, ipsPc, ipsList, ipsDone, ipsUsed, ipsApplies, ipsFaults, ipsEdits>>

\* ClearIPSetCache removes the files, also while one is being written.
IpsClearCache ==
    /\ ipsEdits < MaxIpsEdits /\ ipsEdits' = ipsEdits + 1
    /\ ipsData' = None /\ ipsMeta' = {}
    /\ UNCHANGED <<ipsNow, ipsRemote, ipsSince, ipsKernel, ipsPc, ipsList, ipsDone, ipsUsed, ipsApplies, ipsFaults>>

\* The daemon dies: files and kernel keep what they have.
IpsCrash ==
    /\ Fault /\ ipsPc' = "idle" /\ ipsDone' = "none" /\ ipsUsed' = None /\ ipsList' = None
    /\ UNCHANGED <<ipsNow, ipsRemote, ipsSince, ipsData, ipsMeta, ipsKernel, ipsApplies, ipsEdits>>

\* The list changes, and hours pass between applies.
IpsPublish ==
    /\ ipsRemote + 1 \in IpsVersions /\ ipsRemote' = ipsRemote + 1
    /\ ipsSince' = [ipsSince EXCEPT ![ipsRemote] = ipsNow]
    /\ UNCHANGED <<ipsNow, ipsData, ipsMeta, ipsKernel, ipsPc, ipsList, ipsDone, ipsUsed, ipsApplies, ipsFaults, ipsEdits>>
IpsTick ==
    /\ ipsPc = "idle" /\ ipsNow < IpsEnd /\ ipsNow' = ipsNow + 1 /\ ipsDone' = "none"
    /\ UNCHANGED <<ipsRemote, ipsSince, ipsData, ipsMeta, ipsKernel, ipsPc, ipsList, ipsUsed, ipsApplies, ipsFaults, ipsEdits>>

IpsNext ==
    \/ IpsScript \/ IpsLoad \/ IpsWriteData \/ IpsWriteMeta \/ IpsFlush \/ IpsAdd
    \/ \E e \in IpsManual : IpsAddEntry(e) \/ IpsRemoveEntry(e)
    \/ IpsClearCache \/ IpsCrash \/ IpsPublish \/ IpsTick

IpsSpec == IpsInit /\ [][IpsNext]_ipsVars

-----------------------------------------------------------------------------
\* The elements from the list are always those of one version that the server
\* once had, whole when the apply ended without a warning: no part of a file
\* whose writing was cut short, and no mixture of an old and a new list.
ListWhole ==
    /\ \E v \in IpsVersions : \A e \in ipsKernel : e[1] = "list" => e \in Elements(v)
    /\ ipsDone = "ok" => Elements(ipsUsed) \cup IpsStatic \subseteq ipsKernel

\* The list of an apply was the server's within the last day, also when it
\* came from a cache that crashes and failed writes left behind.
ListRecent ==
    ipsDone = "ok" => ipsUsed = ipsRemote \/ ipsNow - ipsSince[ipsUsed] <= IpsMaxAge

-----------------------------------------------------------------------------
(***************************************************************************)
(* Traffic shaping: ApplyConfig builds, for each enabled policy, a tree of *)
(* queues on its interface by one netlink call after another, any of which *)
(* may fail (internal/qos/manager.go).                                     *)
(*                                                                         *)
(* Rates are in Mbit/s.  A class is given as the configuration writes it:  *)
(* a rate and a ceiling that may be missing, a percentage or a number.     *)
(***************************************************************************)

CONSTANTS
  QosPolicies     \* lists of policies a configuration may hold

QosRateStrs == [kind : {"none", "percent", "mbit"}, value : Nat]
QosClasses == [name : STRING, rate : QosRateStrs, ceil : QosRateStrs]
QosRules == [class : STRING, proto : STRING]
QosPolicyTypes ==
  [iface : STRING, enabled : BOOLEAN, up : Nat, down : Nat, classes : Seq(QosClasses),
   rules : Seq(QosRules)]
ASSUME QosAssumption == QosPolicies \subseteq Seq(QosPolicyTypes)

VARIABLES
  qosPolicies,    \* cfg.QoSPolicies
  qosTree,        \* the queues of each interface
  qosPc           \* ApplyConfig: policy, step and place in the step, or its result

qosVars == <<qosPolicies, qosTree, qosPc>>

QosIfaces == {p.iface : p \in UNION {{l[i] : i \in DOMAIN l} : l \in QosPolicies}}
QosBare == [root |-> FALSE, rate |-> 0, classes |-> <<>>, leaves |-> {}, filters |-> {}]

QosAt(i, step, n) == [at |-> "policy", policy |-> i, step |-> step, n |-> n]
QosDone(ok) == [at |-> IF ok THEN "applied" ELSE "failed"]

QosInit ==
  /\ qosPolicies \in QosPolicies
  /\ qosTree \in [QosIfaces -> {QosBare}]
  /\ qosPc = QosAt(1, "clear", 1)

QosPolicy == qosPolicies[qosPc.policy]

\* An unreadable ceiling is no ceiling at all.
QosRateStr_NoUnit(s, parent) ==
  CASE s.kind = "percent" -> s.value
    [] s.kind = "mbit" -> s.value
    [] OTHER -> 0
\* parseRateStr: a percentage of the parent's rate, a number with "mbit", else 0.
QosRateStr(s, parent) ==
  CASE s.kind = "percent" -> (parent * s.value) \div 100
    [] s.kind = "mbit" -> s.value
    [] OTHER -> 0

\* The root class: the upload rate, or the download rate if that is all there is.
QosRate(p) == IF p.down > 0 /\ p.up = 0 THEN p.down ELSE p.up

\* A class of the tree; without a ceiling it may use all of the parent.
QosClass(c, rate) ==
  [name |-> c.name, rate |-> QosRateStr(c.rate, rate),
   ceil |-> IF QosRateStr(c.ceil, rate) = 0 THEN rate ELSE QosRateStr(c.ceil, rate)]

\* The classes of the tree have the numbers 10, 11 and so on; of two classes with one
\* name the later one's is kept.
QosMinor_FromOne(p, name) ==
  LET at == {i \in DOMAIN p.classes : p.classes[i].name = name}
  IN IF at = {} THEN 0 ELSE 10 + (CHOOSE i \in at : \A j \in at : j <= i)
QosMinor(p, name) ==
  LET at == {i \in DOMAIN p.classes : p.classes[i].name = name}
  IN IF at = {} THEN 0 ELSE 9 + (CHOOSE i \in at : \A j \in at : j <= i)

\* A disabled policy is passed over: what it once built stays.
QosSkip ==
  /\ qosPc.at = "policy" /\ qosPc.policy <= Len(qosPolicies) /\ ~QosPolicy.enabled
  /\ qosPc' = QosAt(qosPc.policy + 1, "clear", 1)
  /\ UNCHANGED <<qosPolicies, qosTree>>

QosEnd ==
  /\ qosPc.at = "policy" /\ qosPc.policy > Len(qosPolicies)
  /\ qosPc' = QosDone(TRUE)
  /\ UNCHANGED <<qosPolicies, qosTree>>

QosDoing(step) ==
  /\ qosPc.at = "policy" /\ qosPc.policy <= Len(qosPolicies) /\ QosPolicy.enabled
  /\ qosPc.step = step
QosThen(step, n) == qosPc' = QosAt(qosPc.policy, step, n)
QosUpdate(f) == qosTree' = [qosTree EXCEPT ![QosPolicy.iface] = f]

\* The step fails: the policy, and all after it, are given up.
QosFail ==
  /\ \/ \E step \in {"clear", "root", "leaf"} : QosDoing(step)
     \/ QosDoing("class") /\ qosPc.n <= Len(QosPolicy.classes)
  /\ qosPc' = QosDone(FALSE)
  /\ UNCHANGED <<qosPolicies, qosTree>>

QosClear ==
  /\ QosDoing("clear") /\ QosUpdate(QosBare) /\ QosThen("root", 1)
  /\ UNCHANGED qosPolicies

\* The root queue and class 1:1.
QosRoot ==
  /\ QosDoing("root")
  /\ QosUpdate([QosBare EXCEPT !.root = TRUE, !.rate = QosRate(QosPolicy)])
  /\ QosThen("class", 1)
  /\ UNCHANGED qosPolicies

QosAddClass ==
  /\ QosDoing("class") /\ qosPc.n <= Len(QosPolicy.classes)
  /\ LET t == qosTree[QosPolicy.iface]
     IN QosUpdate([t EXCEPT !.classes = Append(@, QosClass(QosPolicy.classes[qosPc.n], t.rate))])
  /\ QosThen("leaf", qosPc.n)
  /\ UNCHANGED qosPolicies

\* The leaf queue of the class added last.
QosAddLeaf ==
  /\ QosDoing("leaf")
  /\ QosUpdate([qosTree[QosPolicy.iface] EXCEPT !.leaves = @ \cup {9 + qosPc.n}])
  /\ QosThen("class", qosPc.n + 1)
  /\ UNCHANGED qosPolicies

QosClassesDone ==
  /\ QosDoing("class") /\ qosPc.n > Len(QosPolicy.classes)
  /\ QosThen("filter", 1)
  /\ UNCHANGED <<qosPolicies, qosTree>>

\* Only a protocol makes a filter; a rule of an unknown class, one that names only a
\* port, and a filter the kernel refuses are passed over.
QosFilter ==
  /\ QosDoing("filter") /\ qosPc.n <= Len(QosPolicy.rules)
  /\ LET r == QosPolicy.rules[qosPc.n]
         minor == QosMinor(QosPolicy, r.class)
         t == qosTree[QosPolicy.iface]
     IN \/ minor # 0 /\ r.proto # "" /\ QosUpdate([t EXCEPT !.filters = @ \cup {[proto |-> r.proto, class |-> r.class, to |-> minor]}])
        \/ UNCHANGED qosTree
  /\ QosThen("filter", qosPc.n + 1)
  /\ UNCHANGED qosPolicies

QosFiltersDone ==
  /\ QosDoing("filter") /\ qosPc.n > Len(QosPolicy.rules)
  /\ qosPc' = QosAt(qosPc.policy + 1, "clear", 1)
  /\ UNCHANGED <<qosPolicies, qosTree>>

\* A restart of the daemon applies another configuration to what the kernel has kept.
QosRestart ==
  /\ qosPc.at \in {"applied", "failed"}
  /\ qosPolicies' \in QosPolicies
  /\ qosPc' = QosAt(1, "clear", 1)
  /\ UNCHANGED qosTree

QosNext ==
  \/ QosSkip \/ QosEnd \/ QosFail \/ QosClear \/ QosRoot \/ QosAddClass \/ QosAddLeaf
  \/ QosClassesDone \/ QosFilter \/ QosFiltersDone \/ QosRestart

QosSpec == QosInit /\ [][QosNext]_qosVars

----------------------------------------------------------------------------
\* A filter leads to a class of its rule's name that the tree really has, also while the
\* tree is built and after a failure left it in pieces. (applyPolicy: classIDMap.)
FilterLeadsToClass ==
  \A i \in QosIfaces : \A f \in qosTree[i].filters :
    /\ f.to - 9 \in DOMAIN qosTree[i].classes
    /\ qosTree[i].classes[f.to - 9].name = f.class
    /\ f.to \in qosTree[i].leaves

\* A ceiling leaves its class something, and not more than the rate of the
\* whole tree unless the configuration asks for more.
QosWithin(c, asked, rate) ==
  rate > 0 => /\ c.ceil > 0
              /\ asked.value <= (IF asked.kind = "mbit" THEN rate ELSE 100) => c.ceil <= rate

\* ApplyConfig reports success only when the last enabled policy of every interface stands
\* whole: its root rate, and every class with its queue and a ceiling within reach of
\* what its configuration asks. (ApplyConfig, applyPolicy.)
QosWhole(t, p) ==
  /\ t.root /\ t.rate = QosRate(p)
  /\ [k \in DOMAIN t.classes |-> t.classes[k].name] = [k \in DOMAIN p.classes |-> p.classes[k].name]
  /\ t.leaves = {9 + k : k \in DOMAIN p.classes}
  /\ \A k \in DOMAIN t.classes : QosWithin(t.classes[k], p.classes[k].ceil, t.rate)
QosLast(i) ==
  /\ qosPolicies[i].enabled
  /\ \A j \in i + 1 .. Len(qosPolicies) :
       ~qosPolicies[j].enabled \/ qosPolicies[j].iface # qosPolicies[i].iface
AppliedIsWhole ==
  qosPc.at = "applied" =>
    \A i \in DOMAIN qosPolicies :
      QosLast(i) => QosWhole(qosTree[qosPolicies[i].iface], qosPolicies[i])
=============================================================================
