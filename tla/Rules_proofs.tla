----------------------------- MODULE Rules_proofs -----------------------------
(***************************************************************************)
(* Proofs about what the daemon makes of a configuration: UplinkFailover,  *)
(* for any number of uplinks and networks, tiers, modes and threshold; the *)
(* IP sets, for any number of versions of a list and any entries; the      *)
(* trees of queues, for any policies; VPN peers and settings, and the      *)
(* loops of the DHCP client, for any calls, lease times and failures;      *)
(* policy routing, for any configurations, deaths and failed commands, and *)
(* the marks and tables of uplinks, for any number of them.                *)
(***************************************************************************)
EXTENDS MCRules, FiniteSetTheorems, SequenceTheorems, WellFoundedInduction, TLAPS

-----------------------------------------------------------------------------
(* Uplinks                                                                 *)

\* A set of numbers has a least one.
LEMMA Least ==
    ASSUME NEW S \in SUBSET Nat, S # {}
    PROVE  \E i \in S : \A j \in S : i <= j
<1>1. PICK x \in S : \A y \in S : ~(<<y, x>> \in OpToRel(<, Nat))
  BY NatLessThanWellFounded, WFMin
<1>2. \A y \in S : ~(y < x)
  BY <1>1 DEF OpToRel
<1> QED BY <1>2

UplinkTyping ==
    /\ tier \in TierChoices /\ mode \in Modes
    /\ enabled \in [Uplinks -> BOOLEAN] /\ healthy \in [Uplinks -> BOOLEAN]
    /\ reach \in [Uplinks -> BOOLEAN]
    /\ fails \in [Uplinks -> 0..Threshold] /\ succs \in [Uplinks -> 0..Threshold]
    /\ active \in Uplinks /\ marks \in [Nets -> Uplinks \cup {NoMark}]
    /\ checker \in {"running", "closed"} /\ pos \in 0..(NumUplinks + 2)

\* Only one of an uplink's counters runs, and the failures of a healthy one
\* are below the threshold.
Counted(u) == (fails[u] = 0 \/ succs[u] = 0) /\ (healthy[u] => fails[u] < Threshold)

OnlyByHand == [failover |-> "manual", failback |-> "never"]

UplinkInv ==
    /\ UplinkTyping
    /\ \A u \in Uplinks : Counted(u)
    /\ MarksFollowActive
    /\ pos = NumUplinks + 2 => mode # OnlyByHand

\* The best uplink is one of the group.
LEMMA BestIsUsable ==
    ASSUME UplinkTyping, Usable # {}
    PROVE  BestUplink \in Uplinks
<1> DEFINE tiers == {tier[u] : u \in Usable}
           best == {u \in Usable : tier[u] = BestTier}
<1>1. Usable \subseteq Uplinks /\ Uplinks \subseteq Nat
  BY UplinkAssumption DEF Usable, Uplinks
<1>2. tiers \subseteq Nat /\ tiers # {}
  <2>1. tier \in [Uplinks -> Nat]
    BY UplinkAssumption DEF UplinkTyping, Uplinks
  <2> QED BY <1>1, <2>1
<1>3. \E t \in tiers : \A s \in tiers : t <= s
  <2> HIDE DEF tiers
  <2> QED BY <1>2, Least
<1>4. BestTier \in tiers
  BY <1>3 DEF BestTier
<1>5. best \subseteq Nat /\ best # {}
  BY <1>1, <1>4
<1>6. \E u \in best : \A v \in best : u <= v
  <2> HIDE DEF best
  <2> QED BY <1>5, Least
<1> QED BY <1>1, <1>6 DEF BestUplink

\* Switching leads the marks and the group's state to the same uplink, or
\* says that it did not.
LEMMA SwitchKeepsMarks ==
    ASSUME UplinkInv, NEW u \in Uplinks, SwitchTo(u), tier' = tier
    PROVE  /\ active' \in Uplinks /\ marks' \in [Nets -> Uplinks \cup {NoMark}]
           /\ MarksFollowActive'
<1>1. CASE u = active
  BY <1>1 DEF SwitchTo, UplinkInv, UplinkTyping, MarksFollowActive
<1>2. CASE u # active
  <2>1. PICK failAt \in FailPoints :
          /\ marks' \in Marked(u, failAt)
          /\ intact' = (failAt = 0)
          /\ active' = IF failAt = 0 THEN u ELSE active
          /\ activeTier' = IF failAt = 0 THEN tier[u] ELSE activeTier
    BY <1>2 DEF SwitchTo
  <2>2. marks' \in [Nets -> Uplinks \cup {NoMark}]
    BY <2>1 DEF Marked
  <2>3. CASE failAt = 0
    <3>1. \A n \in Nets : marks'[n] = u
      BY <2>1, <2>3 DEF Marked
    <3> QED BY <2>1, <2>2, <2>3, <3>1 DEF MarksFollowActive
  <2>4. CASE failAt # 0
    BY <2>1, <2>2, <2>4 DEF MarksFollowActive, UplinkInv, UplinkTyping
  <2> QED BY <2>3, <2>4
<1> QED BY <1>1, <1>2

\* What a probe leaves of the counters.
LEMMA ProbeCounts ==
    ASSUME UplinkInv, NEW u \in Uplinks, CheckUplink(u)
    PROVE  /\ fails' \in [Uplinks -> 0..Threshold] /\ succs' \in [Uplinks -> 0..Threshold]
           /\ healthy' \in [Uplinks -> BOOLEAN]
           /\ \A v \in Uplinks : Counted(v)'
           /\ \A v \in Uplinks :
                healthy[v] /\ ~healthy'[v] =>
                    fails[v] = Threshold - 1 /\ ~(reach[v] /\ enabled[v])
<1> USE UplinkAssumption
<1>1. PICK ok \in BOOLEAN : ok <=> reach[u] /\ enabled[u]
  OBVIOUS
<1> DEFINE r == AfterProbe(u, reach[u] /\ enabled[u])
<1>2. /\ fails' = [fails EXCEPT ![u] = r.f] /\ succs' = [succs EXCEPT ![u] = r.s]
      /\ healthy' = [healthy EXCEPT ![u] = r.h]
  BY DEF CheckUplink
<1>3. /\ fails[u] \in 0..Threshold /\ succs[u] \in 0..Threshold
      /\ fails \in [Uplinks -> 0..Threshold] /\ succs \in [Uplinks -> 0..Threshold]
      /\ healthy \in [Uplinks -> BOOLEAN] /\ Counted(u)
  BY DEF UplinkInv, UplinkTyping
<1>4. /\ Up(fails[u]) \in 0..Threshold /\ Up(succs[u]) \in 0..Threshold
      /\ Up(fails[u]) < Threshold => fails[u] < Threshold - 1
      /\ fails[u] < Threshold - 1 => Up(fails[u]) < Threshold
  BY <1>3 DEF Up
<1>5. CASE reach[u] /\ enabled[u]
  <2>1. r.f = 0 /\ r.s = Up(succs[u])
    BY <1>5 DEF AfterProbe
  <2>2. r.h <=> Up(succs[u]) >= Threshold \/ healthy[u]
    BY <1>5 DEF AfterProbe
  <2>3. r.h \in BOOLEAN
    BY <1>5 DEF AfterProbe
  <2> HIDE DEF r
  <2> QED BY <1>2, <1>3, <1>4, <2>1, <2>2, <2>3 DEF Counted, UplinkInv
<1>6. CASE ~(reach[u] /\ enabled[u])
  <2>1. r.f = Up(fails[u]) /\ r.s = 0
    BY <1>6 DEF AfterProbe
  <2>2. r.h <=> Up(fails[u]) < Threshold /\ healthy[u]
    BY <1>6 DEF AfterProbe
  <2>3. r.h \in BOOLEAN
    BY <1>6 DEF AfterProbe
  <2> HIDE DEF r
  <2> QED BY <1>2, <1>3, <1>4, <1>6, <2>1, <2>2, <2>3 DEF Counted, UplinkInv
<1> QED BY <1>5, <1>6

LEMMA CheckKeepsUplinkInv == UplinkInv /\ CheckStep => UplinkInv'
<1> SUFFICES ASSUME UplinkInv, CheckStep PROVE UplinkInv'
  OBVIOUS
<1> USE UplinkAssumption
<1>1. CASE CheckStart
  BY <1>1 DEF CheckStart, UplinkInv, UplinkTyping, Counted, MarksFollowActive, groupState
<1>2. ASSUME NEW u \in Uplinks, CheckUplink(u) PROVE UplinkInv'
  <2>1. /\ pos' = u + 1 /\ pos' \in 0..(NumUplinks + 2) /\ pos' # NumUplinks + 2
    BY <1>2 DEF CheckUplink, Uplinks
  <2>2. UplinkTyping'
    BY <1>2, <2>1, ProbeCounts DEF CheckUplink, UplinkInv, UplinkTyping
  <2>3. MarksFollowActive'
    BY <1>2 DEF CheckUplink, UplinkInv, MarksFollowActive
  <2> QED BY <1>2, <2>1, <2>2, <2>3, ProbeCounts DEF UplinkInv
<1>3. CASE CheckDecide
  <2>1. TierChanges => mode # OnlyByHand
    BY DEF TierChanges, OnlyByHand
  <2>2. mode.failover # "manual" => mode # OnlyByHand
    BY DEF OnlyByHand
  <2>3. pos' = NumUplinks + 2 => mode # OnlyByHand
    BY <1>3, <2>1, <2>2 DEF CheckDecide
  <2>4. pos' \in {0, NumUplinks + 2}
    BY <1>3 DEF CheckDecide
  <2>5. UplinkTyping'
    BY <1>3, <2>4 DEF CheckDecide, UplinkInv, UplinkTyping, groupState
  <2> QED BY <1>3, <2>3, <2>5 DEF CheckDecide, UplinkInv, Counted, MarksFollowActive, groupState
<1>4. CASE CheckSwitch
  <2>1. UNCHANGED <<groupState, reach, checker>> /\ pos' = 0
    BY <1>4 DEF CheckSwitch
  <2>2. /\ active' \in Uplinks /\ marks' \in [Nets -> Uplinks \cup {NoMark}]
        /\ MarksFollowActive'
    <3>1. CASE Usable = {}
      BY <1>4, <2>1, <3>1
         DEF CheckSwitch, UplinkInv, UplinkTyping, MarksFollowActive, groupState
    <3>2. CASE Usable # {}
      <4>1. SwitchTo(BestUplink) /\ BestUplink \in Uplinks /\ tier' = tier
        BY <1>4, <2>1, <3>2, BestIsUsable DEF CheckSwitch, UplinkInv, groupState
      <4> QED BY <4>1, SwitchKeepsMarks
    <3> QED BY <3>1, <3>2
  <2>3. UplinkTyping'
    BY <2>1, <2>2 DEF UplinkInv, UplinkTyping, groupState
  <2> QED BY <2>1, <2>2, <2>3 DEF UplinkInv, Counted, groupState
<1> QED BY <1>1, <1>2, <1>3, <1>4 DEF CheckStep

LEMMA CallsKeepUplinkInv ==
    ASSUME UplinkInv,
           \/ \E u \in Uplinks : SwitchUplink(u) \/ ToggleUplink(u) \/ LinkChange(u)
           \/ SwitchToBest
    PROVE  UplinkInv'
<1>1. ASSUME NEW u \in Uplinks, SwitchTo(u), UNCHANGED <<groupState, reach, checker, pos>>
      PROVE  UplinkInv'
  <2>1. /\ active' \in Uplinks /\ marks' \in [Nets -> Uplinks \cup {NoMark}]
        /\ MarksFollowActive'
    BY <1>1, SwitchKeepsMarks DEF groupState
  <2> QED BY <1>1, <2>1 DEF UplinkInv, UplinkTyping, Counted, groupState
<1>2. ASSUME NEW u \in Uplinks, SwitchUplink(u) PROVE UplinkInv'
  BY <1>1, <1>2 DEF SwitchUplink
<1>3. CASE SwitchToBest
  <2>1. BestUplink \in Uplinks
    BY <1>3, BestIsUsable DEF SwitchToBest, UplinkInv
  <2> QED BY <1>1, <1>3, <2>1 DEF SwitchToBest
<1>4. ASSUME NEW u \in Uplinks, ToggleUplink(u) PROVE UplinkInv'
  <2>1. enabled' \in [Uplinks -> BOOLEAN]
    BY <1>4 DEF ToggleUplink, UplinkInv, UplinkTyping
  <2> QED BY <1>4, <2>1 DEF ToggleUplink, UplinkInv, UplinkTyping, Counted, MarksFollowActive
<1>5. ASSUME NEW u \in Uplinks, LinkChange(u) PROVE UplinkInv'
  <2>1. reach' \in [Uplinks -> BOOLEAN]
    BY <1>5 DEF LinkChange, UplinkInv, UplinkTyping
  <2> QED BY <1>5, <2>1 DEF LinkChange, UplinkInv, UplinkTyping, Counted, MarksFollowActive, groupState
<1> QED BY <1>2, <1>3, <1>4, <1>5

LEMMA ReloadsKeepUplinkInv ==
    ASSUME UplinkInv,
           \/ \E t \in TierChoices, m \in Modes : Reload(t, m)
           \/ \E ok \in BOOLEAN : FirewallReload(ok)
    PROVE  UplinkInv'
<1> USE UplinkAssumption
<1>1. ASSUME NEW t \in TierChoices, NEW m \in Modes, Reload(t, m) PROVE UplinkInv'
  <2>1. CASE checker = "closed"
    BY <1>1, <2>1 DEF Reload, UplinkInv, UplinkTyping, Counted, MarksFollowActive, groupState
  <2>2. CASE checker # "closed"
    <3>1. FreshGroup(t, m) /\ reach' = reach /\ pos' = pos /\ pos = 0
      BY <1>1, <2>2 DEF Reload
    <3>2. PICK failAt \in SetupFailPoints :
            /\ marks' \in Marked(1, failAt)
            /\ intact' = (failAt \notin Nets)
            /\ checker' = IF failAt = 0 THEN "running" ELSE "closed"
      BY <1>1, <2>2 DEF Reload
    <3>3. failAt \in 0..(NumNets + 1) /\ 1 \in Uplinks
      BY DEF SetupFailPoints, Uplinks
    <3>4. marks' \in [Nets -> Uplinks \cup {NoMark}]
      BY <3>2 DEF Marked
    <3>5. intact' => \A n \in Nets : marks'[n] = 1
      <4>1. CASE failAt = 0
        BY <3>2, <4>1 DEF Marked
      <4>2. CASE failAt = NumNets + 1
        <5>1. \A n \in Nets : n < failAt
          BY <4>2 DEF Nets
        <5> QED BY <3>2, <5>1 DEF Marked
      <4>3. CASE failAt \in Nets
        BY <3>2, <4>3
      <4> QED BY <3>3, <4>1, <4>2, <4>3 DEF Nets
    <3>6. MarksFollowActive'
      BY <3>1, <3>3, <3>5 DEF FreshGroup, MarksFollowActive
    <3>7. UplinkTyping'
      BY <3>1, <3>2, <3>3, <3>4 DEF FreshGroup, UplinkInv, UplinkTyping
    <3>8. \A u \in Uplinks : Counted(u)'
      BY <3>1 DEF FreshGroup, Counted
    <3> QED BY <3>1, <3>6, <3>7, <3>8 DEF UplinkInv
  <2> QED BY <2>1, <2>2
<1>2. ASSUME NEW ok \in BOOLEAN, FirewallReload(ok) PROVE UplinkInv'
  <2>1. marks' \in [Nets -> Uplinks \cup {NoMark}]
    BY <1>2 DEF FirewallReload, UplinkInv, UplinkTyping
  <2>2. MarksFollowActive'
    BY <1>2 DEF FirewallReload, UplinkInv, MarksFollowActive, groupState
  <2> QED BY <1>2, <2>1, <2>2 DEF FirewallReload, UplinkInv, UplinkTyping, Counted, groupState
<1> QED BY <1>1, <1>2

\* The marks of the kernel are those of the active uplink while nft does as it
\* is told; an uplink that works is never given up, one that fails only after
\* Threshold probes in a row; and what the operator alone may switch, the
\* checker does not.
THEOREM UplinksHold == UplinkSpec => UplinkSound
<1> USE UplinkAssumption
<1>1. UplinkInit => UplinkInv
  <2> SUFFICES ASSUME UplinkInit PROVE UplinkInv
    OBVIOUS
  <2>1. 1 \in Uplinks /\ pos = 0 /\ pos # NumUplinks + 2
    BY DEF UplinkInit, Uplinks
  <2>2. UplinkTyping
    BY <2>1 DEF UplinkInit, UplinkTyping
  <2> QED BY <2>1, <2>2 DEF UplinkInit, UplinkInv, Counted, MarksFollowActive
<1>2. UplinkInv /\ [UplinkNext]_uplinkVars => UplinkInv'
  <2>1. UplinkInv /\ UNCHANGED uplinkVars => UplinkInv'
    BY DEF UplinkInv, UplinkTyping, Counted, MarksFollowActive, uplinkVars, groupState
  <2> QED BY <2>1, CheckKeepsUplinkInv, CallsKeepUplinkInv, ReloadsKeepUplinkInv DEF UplinkNext
<1>3. UplinkInv => UplinkTypeOK /\ MarksFollowActive
  BY DEF UplinkInv, UplinkTyping, UplinkTypeOK, Counted, MarksFollowActive
<1>4. ASSUME UplinkInv, [UplinkNext]_uplinkVars, NEW u \in Uplinks, healthy[u], ~healthy'[u]
      PROVE  fails[u] = Threshold - 1 /\ ~(reach[u] /\ enabled[u])
  <2>1. healthy' # healthy /\ (~\A v \in Uplinks : healthy'[v])
    BY <1>4
  <2>2. PICK v \in Uplinks : CheckUplink(v)
    <3>1. CheckStep \/ ~CheckStep
      OBVIOUS
    <3>2. ASSUME NEW t \in TierChoices, NEW m \in Modes, Reload(t, m) PROVE FALSE
      BY <2>1, <3>2 DEF Reload, FreshGroup, groupState
    <3> QED BY <1>4, <2>1, <3>2
            DEF UplinkNext, CheckStep, CheckStart, CheckDecide, CheckSwitch, SwitchUplink, ToggleUplink,
                LinkChange, SwitchToBest, FirewallReload, groupState, uplinkVars
  <2> QED BY <1>4, <2>2, ProbeCounts
<1>5. ASSUME UplinkInv, active' # active, CheckStep
      PROVE  mode # [failover |-> "manual", failback |-> "never"]
  BY <1>5 DEF CheckStep, CheckStart, CheckUplink, CheckDecide, CheckSwitch, UplinkInv, OnlyByHand
<1>6. UplinkInv /\ [UplinkNext]_uplinkVars =>
        \A u \in Uplinks : healthy[u] /\ ~healthy'[u] =>
            fails[u] = Threshold - 1 /\ ~(reach[u] /\ enabled[u])
  BY <1>4
<1>7. UplinkInv =>
        (active' # active /\ CheckStep => mode # [failover |-> "manual", failback |-> "never"])
  BY <1>5
<1> QED BY <1>1, <1>2, <1>3, <1>6, <1>7, PTL DEF UplinkSpec, UplinkSound, NoFlapping, ManualStays

-----------------------------------------------------------------------------
(* IP sets                                                                 *)

IpsLists == IpsVersions \cup {None}

IpsTypes ==
    /\ ipsNow \in Nat /\ ipsRemote \in IpsVersions /\ ipsSince \in [IpsVersions -> Nat]
    /\ ipsData \in IpsLists \cup {Torn} /\ ipsMeta \in SUBSET [at : Nat, sum : IpsVersions]
    /\ ipsPc \in {"idle", "load", "data", "data2", "meta", "flush", "add1", "add2"}
    /\ ipsList \in IpsLists /\ ipsUsed \in IpsLists

\* The version v was the server's at time t or later.
IpsServed(v, t) == v = ipsRemote \/ ipsSince[v] >= t
IpsFresh(v) == v = ipsRemote \/ ipsNow - ipsSince[v] <= IpsMaxAge

\* Elements of the list in a set, and those of one version.
IpsListed(kernel) == {e \in kernel : e[1] = "list"}
IpsOf(v) == IF v = None THEN {} ELSE Elements(v)

\* A checksum in the cache is of a list the server had when it was saved.
IpsCacheSound == \A m \in ipsMeta : m.at <= ipsNow /\ IpsServed(m.sum, m.at)

\* The list an apply works with is the server's, or fresh enough.
IpsListSound ==
    /\ ipsPc \in {"data", "data2", "meta"} => ipsList # None /\ IpsServed(ipsList, ipsNow)
    /\ ipsPc \in {"flush", "add1", "add2"} => ipsList = None \/ IpsFresh(ipsList)
    /\ ipsPc \in {"add1", "add2"} => ipsUsed = ipsList

\* What an apply has put into the set so far.
IpsKernelSound ==
    /\ ipsPc \in {"load", "data", "data2", "meta", "flush", "add1"} => IpsListed(ipsKernel) = {}
    /\ ipsPc = "add2" => /\ IpsListed(ipsKernel) \subseteq IpsOf(ipsList)
                         /\ IpsStatic \subseteq ipsKernel
                         /\ ipsList # None => Batch(ipsList, 1) \in ipsKernel
    /\ \E v \in IpsVersions : IpsListed(ipsKernel) \subseteq Elements(v)

IpsDoneSound ==
    ipsDone = "ok" => /\ ipsPc = "idle" /\ ipsUsed # None /\ IpsFresh(ipsUsed)
                      /\ Elements(ipsUsed) \cup IpsStatic \subseteq ipsKernel

IpsInv == IpsTypes /\ IpsCacheSound /\ IpsListSound /\ IpsKernelSound /\ IpsDoneSound

\* A cache entry in use is what the data file holds, and not too old.
LEMMA IpsCached ==
    ASSUME IpsInv, Cached # {}
    PROVE  ipsData \in IpsVersions /\ IpsFresh(ipsData)
<1>1. PICK m \in ipsMeta : ipsData = m.sum /\ ipsNow - m.at <= IpsMaxAge
  BY DEF Cached
<1>2. m.at \in Nat /\ m.sum \in IpsVersions /\ m.at <= ipsNow /\ IpsServed(m.sum, m.at)
  BY <1>1 DEF IpsInv, IpsTypes, IpsCacheSound
<1>3. ipsSince[m.sum] \in Nat /\ ipsNow \in Nat /\ IpsMaxAge \in Nat
  BY <1>2, IpsAssumption DEF IpsInv, IpsTypes
<1>4. ipsSince[m.sum] >= m.at => ipsNow - ipsSince[m.sum] <= IpsMaxAge
  BY <1>1, <1>2, <1>3
<1> QED BY <1>1, <1>2, <1>4 DEF IpsServed, IpsFresh

LEMMA IpsTypesStep == ASSUME IpsInv, IpsNext PROVE IpsTypes'
<1> USE DEF IpsTypes, IpsLists
<1>1. IpsTypes
  BY DEF IpsInv
<1>2. ASSUME IpsLoad PROVE IpsTypes'
  <2>1. Cached # {} => ipsData \in IpsVersions
    BY IpsCached
  <2> QED BY <1>1, <1>2, <2>1 DEF IpsLoad
<1>3. ASSUME IpsWriteData PROVE IpsTypes'
  BY <1>1, <1>3 DEF IpsWriteData
<1>4. ASSUME IpsWriteMeta PROVE IpsTypes'
  <2>1. ipsList \in IpsVersions
    BY <1>1, <1>4 DEF IpsWriteMeta, IpsInv, IpsListSound
  <2>2. [at |-> ipsNow, sum |-> ipsList] \in [at : Nat, sum : IpsVersions]
    BY <1>1, <2>1
  <2> QED BY <1>1, <1>4, <2>2 DEF IpsWriteMeta
<1>5. ASSUME IpsScript \/ IpsFlush \/ IpsAdd \/ IpsClearCache \/ IpsCrash PROVE IpsTypes'
  BY <1>1, <1>5 DEF IpsScript, IpsFlush, IpsAdd, IpsClearCache, IpsCrash
<1>6. ASSUME NEW e \in IpsManual, IpsAddEntry(e) \/ IpsRemoveEntry(e) PROVE IpsTypes'
  BY <1>1, <1>6 DEF IpsAddEntry, IpsRemoveEntry
<1>7. ASSUME IpsPublish PROVE IpsTypes'
  BY <1>1, <1>7 DEF IpsPublish
<1>8. ASSUME IpsTick PROVE IpsTypes'
  BY <1>1, <1>8 DEF IpsTick
<1> QED BY <1>2, <1>3, <1>4, <1>5, <1>6, <1>7, <1>8 DEF IpsNext

\* The clock stands while an apply works, and what is published keeps what was
\* the server's before.
LEMMA IpsServedStep ==
    ASSUME IpsInv, IpsNext, NEW v \in IpsVersions, NEW t \in Nat, t <= ipsNow, IpsServed(v, t)
    PROVE  IpsServed(v, t)'
<1>1. IpsTypes
  BY DEF IpsInv
<1>2. CASE IpsPublish
  <2>1. ipsRemote + 1 # ipsRemote /\ ipsSince'[v] = (IF v = ipsRemote THEN ipsNow ELSE ipsSince[v])
    BY <1>1, <1>2, IpsAssumption DEF IpsTypes, IpsPublish
  <2> QED BY <1>1, <1>2, <2>1 DEF IpsServed, IpsTypes
<1>3. CASE ipsRemote' = ipsRemote /\ ipsSince' = ipsSince
  BY <1>3 DEF IpsServed
<1> QED BY <1>2, <1>3 DEF IpsNext, IpsScript, IpsLoad, IpsWriteData, IpsWriteMeta, IpsFlush, IpsAdd,
                          IpsAddEntry, IpsRemoveEntry, IpsClearCache, IpsCrash, IpsTick

LEMMA IpsFreshStep ==
    ASSUME IpsInv, IpsNext, ~IpsTick, NEW v \in IpsVersions, IpsFresh(v)
    PROVE  IpsFresh(v)'
<1>1. IpsTypes /\ IpsMaxAge \in Nat
  BY IpsAssumption DEF IpsInv
<1>2. CASE IpsPublish
  <2>1. ipsSince'[v] = (IF v = ipsRemote THEN ipsNow ELSE ipsSince[v]) /\ ipsNow' = ipsNow
    BY <1>1, <1>2 DEF IpsTypes, IpsPublish
  <2>2. v = ipsRemote => ipsNow' - ipsSince'[v] <= IpsMaxAge
    BY <1>1, <2>1 DEF IpsTypes
  <2> QED BY <1>1, <2>1, <2>2 DEF IpsFresh, IpsTypes
<1>3. CASE ipsRemote' = ipsRemote /\ ipsSince' = ipsSince /\ ipsNow' = ipsNow
  BY <1>3 DEF IpsFresh
<1> QED BY <1>2, <1>3 DEF IpsNext, IpsScript, IpsLoad, IpsWriteData, IpsWriteMeta, IpsFlush, IpsAdd,
                          IpsAddEntry, IpsRemoveEntry, IpsClearCache, IpsCrash

LEMMA IpsCacheStep == ASSUME IpsInv, IpsNext PROVE IpsCacheSound'
<1>1. IpsTypes
  BY DEF IpsInv
<1>2. \A m \in ipsMeta : m.at \in Nat /\ m.sum \in IpsVersions /\ m.at <= ipsNow /\ IpsServed(m.sum, m.at)
  BY DEF IpsInv, IpsTypes, IpsCacheSound
<1>3. \A m \in ipsMeta : m.at <= ipsNow' /\ IpsServed(m.sum, m.at)'
  <2>1. ipsNow' = ipsNow \/ ipsNow' = ipsNow + 1
    BY DEF IpsNext, IpsScript, IpsLoad, IpsWriteData, IpsWriteMeta, IpsFlush, IpsAdd, IpsPublish,
           IpsAddEntry, IpsRemoveEntry, IpsClearCache, IpsCrash, IpsTick
  <2>2. \A m \in ipsMeta : m.at <= ipsNow'
    BY <1>1, <1>2, <2>1 DEF IpsTypes
  <2> QED BY <1>2, <2>2, IpsServedStep
<1>4. CASE ipsMeta' \subseteq ipsMeta
  BY <1>3, <1>4 DEF IpsCacheSound, IpsServed
<1>5. CASE IpsWriteMeta
  <2>1. ipsNow' = ipsNow /\ ipsRemote' = ipsRemote /\ ipsSince' = ipsSince
    BY <1>5 DEF IpsWriteMeta
  <2>2. IpsServed(ipsList, ipsNow)
    BY <1>5 DEF IpsWriteMeta, IpsInv, IpsListSound
  <2>3. CASE ipsMeta' = {[at |-> ipsNow, sum |-> ipsList]}
    BY <1>1, <2>1, <2>2, <2>3 DEF IpsCacheSound, IpsServed, IpsTypes
  <2> QED BY <1>4, <1>5, <2>3 DEF IpsWriteMeta
<1> QED BY <1>4, <1>5 DEF IpsNext, IpsScript, IpsLoad, IpsWriteData, IpsFlush, IpsAdd, IpsPublish,
                          IpsAddEntry, IpsRemoveEntry, IpsClearCache, IpsCrash, IpsTick

LEMMA IpsListStep == ASSUME IpsInv, IpsNext PROVE IpsListSound'
<1>1. IpsTypes /\ IpsListSound
  BY DEF IpsInv
<1>2. ASSUME IpsScript \/ IpsCrash \/ IpsTick PROVE IpsListSound'
  BY <1>2 DEF IpsScript, IpsCrash, IpsTick, IpsListSound
<1>3. ASSUME IpsLoad PROVE IpsListSound'
  <2>1. /\ ipsNow' = ipsNow /\ ipsRemote' = ipsRemote /\ ipsSince' = ipsSince
        /\ ipsPc' \in {"flush", "data"}
    BY <1>3 DEF IpsLoad
  <2>2. CASE Cached # {}
    <3>1. ipsList' = ipsData /\ ipsPc' = "flush"
      BY <1>3, <2>2 DEF IpsLoad
    <3>2. IpsFresh(ipsData)
      BY <2>2, IpsCached
    <3> QED BY <2>1, <3>1, <3>2 DEF IpsListSound, IpsFresh
  <2>3. CASE Cached = {}
    <3>1. (ipsList' = ipsRemote /\ ipsPc' = "data") \/ (ipsList' = None /\ ipsPc' = "flush")
      BY <1>3, <2>3 DEF IpsLoad
    <3>2. ipsRemote # None
      BY <1>1, IpsAssumption DEF IpsTypes, None
    <3> QED BY <2>1, <3>1, <3>2 DEF IpsListSound, IpsServed
  <2> QED BY <2>2, <2>3
<1>4. ASSUME IpsWriteData \/ IpsWriteMeta PROVE IpsListSound'
  <2>1. /\ ipsNow' = ipsNow /\ ipsRemote' = ipsRemote /\ ipsSince' = ipsSince /\ ipsList' = ipsList
        /\ ipsPc' \in {"data2", "meta", "flush"} /\ ipsPc \in {"data", "data2", "meta"}
    BY <1>4 DEF IpsWriteData, IpsWriteMeta
  <2>2. ipsList \in IpsVersions /\ IpsServed(ipsList, ipsNow)
    BY <1>1, <2>1 DEF IpsListSound, IpsTypes, IpsLists
  <2>3. IpsFresh(ipsList)
    <3>1. ipsSince[ipsList] \in Nat /\ ipsNow \in Nat /\ IpsMaxAge \in Nat
      BY <1>1, <2>2, IpsAssumption DEF IpsTypes
    <3>2. ipsSince[ipsList] >= ipsNow => ipsNow - ipsSince[ipsList] <= IpsMaxAge
      BY <3>1
    <3> QED BY <2>2, <3>2 DEF IpsServed, IpsFresh
  <2>4. ipsList # None
    BY <1>1, <2>1 DEF IpsListSound
  <2> QED BY <2>1, <2>2, <2>3, <2>4 DEF IpsListSound, IpsServed, IpsFresh
<1>5. ASSUME IpsFlush \/ IpsAdd PROVE IpsListSound'
  <2>1. /\ ipsNow' = ipsNow /\ ipsRemote' = ipsRemote /\ ipsSince' = ipsSince /\ ipsList' = ipsList
        /\ ipsPc' \in {"add1", "add2", "idle"} /\ ipsPc \in {"flush", "add1", "add2"}
        /\ ipsPc' \in {"add1", "add2"} => ipsUsed' = ipsList
    BY <1>1, <1>5 DEF IpsFlush, IpsAdd, IpsListSound
  <2> QED BY <1>1, <2>1 DEF IpsListSound, IpsFresh
<1>6. ASSUME NEW e \in IpsManual, IpsAddEntry(e) \/ IpsRemoveEntry(e) \/ IpsClearCache
      PROVE  IpsListSound'
  BY <1>1, <1>6 DEF IpsAddEntry, IpsRemoveEntry, IpsClearCache, IpsListSound, IpsFresh, IpsServed
<1>7. ASSUME IpsClearCache PROVE IpsListSound'
  BY <1>1, <1>7 DEF IpsClearCache, IpsListSound, IpsFresh, IpsServed
<1>8. ASSUME IpsPublish PROVE IpsListSound'
  <2>1. ipsPc' = ipsPc /\ ipsList' = ipsList /\ ipsUsed' = ipsUsed /\ ipsNow' = ipsNow
    BY <1>8 DEF IpsPublish
  <2>2. ipsList # None => ipsList \in IpsVersions
    BY <1>1 DEF IpsTypes, IpsLists
  <2>3. ~IpsTick
    BY <1>1, <1>8, IpsAssumption DEF IpsPublish, IpsTick, IpsTypes
  <2>4. ipsList # None /\ IpsServed(ipsList, ipsNow) => IpsServed(ipsList, ipsNow)'
    <3> SUFFICES ASSUME ipsList \in IpsVersions, IpsServed(ipsList, ipsNow)
                 PROVE  IpsServed(ipsList, ipsNow)'
      BY <2>2
    <3>1. ipsSince' = [ipsSince EXCEPT ![ipsRemote] = ipsNow]
      BY <1>8 DEF IpsPublish
    <3>2. ipsSince'[ipsList] = (IF ipsList = ipsRemote THEN ipsNow ELSE ipsSince[ipsList])
      BY <1>1, <3>1 DEF IpsTypes
    <3> QED BY <1>1, <2>1, <3>2 DEF IpsServed, IpsTypes
  <2>5. ipsList # None /\ IpsFresh(ipsList) => IpsFresh(ipsList)'
    <3>1. ipsList # None /\ IpsFresh(ipsList) => \A v \in {ipsList} : (IpsFresh(v))'
      BY <2>2, <2>3, IpsFreshStep
    <3> QED BY <2>1, <3>1 DEF IpsFresh
  <2> QED BY <1>1, <2>1, <2>4, <2>5 DEF IpsListSound
<1> QED BY <1>2, <1>3, <1>4, <1>5, <1>6, <1>7, <1>8 DEF IpsNext

LEMMA IpsKernelStep == ASSUME IpsInv, IpsNext PROVE IpsKernelSound'
<1>1. IpsTypes /\ IpsKernelSound /\ 1 \in IpsVersions
  BY IpsAssumption DEF IpsInv
<1>a. \A e \in IpsStatic \cup IpsManual : e[1] # "list"
  BY IpsAssumption
<1>b. \A v, h : Batch(v, h)[1] = "list"
  BY DEF Batch
<1>2. ASSUME IpsScript PROVE IpsKernelSound'
  <2>1. IpsListed(IpsStatic) = {}
    BY <1>a DEF IpsListed
  <2>2. CASE ipsKernel' = IpsStatic /\ ipsPc' = "load"
    BY <1>1, <2>1, <2>2 DEF IpsKernelSound
  <2>3. CASE ipsKernel' = ipsKernel /\ ipsPc' = ipsPc /\ ipsPc = "idle"
    BY <1>1, <2>3 DEF IpsKernelSound
  <2>4. ipsPc = "idle"
    BY <1>2 DEF IpsScript
  <2> QED BY <1>2, <2>2, <2>3, <2>4 DEF IpsScript
<1>3. ASSUME IpsLoad \/ IpsWriteData \/ IpsWriteMeta \/ IpsCrash \/ IpsTick \/ IpsPublish \/ IpsClearCache
      PROVE  IpsKernelSound'
  <2>1. CASE IpsLoad \/ IpsWriteData \/ IpsWriteMeta
    <3>1. ipsKernel' = ipsKernel /\ IpsListed(ipsKernel) = {} /\ ipsPc' \in {"flush", "data", "data2", "meta"}
      BY <1>1, <2>1 DEF IpsLoad, IpsWriteData, IpsWriteMeta, IpsKernelSound
    <3> QED BY <1>1, <3>1 DEF IpsKernelSound
  <2>2. CASE IpsCrash \/ IpsTick
    <3>1. ipsKernel' = ipsKernel /\ ipsPc' = "idle"
      BY <2>2 DEF IpsCrash, IpsTick
    <3> QED BY <1>1, <3>1 DEF IpsKernelSound
  <2>3. CASE IpsPublish \/ IpsClearCache
    <3>1. ipsKernel' = ipsKernel /\ ipsPc' = ipsPc /\ ipsList' = ipsList
      BY <2>3 DEF IpsPublish, IpsClearCache
    <3> QED BY <1>1, <3>1 DEF IpsKernelSound
  <2> QED BY <1>3, <2>1, <2>2, <2>3
<1>4. ASSUME IpsFlush PROVE IpsKernelSound'
  <2>1. ipsKernel' \in {ipsKernel, {}} /\ ipsPc' = "add1" /\ IpsListed(ipsKernel) = {}
    BY <1>1, <1>4 DEF IpsFlush, IpsKernelSound
  <2>2. IpsListed(ipsKernel') = {}
    BY <2>1 DEF IpsListed
  <2> QED BY <1>1, <2>1, <2>2 DEF IpsKernelSound
<1>5. ASSUME IpsAdd PROVE IpsKernelSound'
  <2>1. CASE ipsKernel' = ipsKernel /\ ipsPc' = "idle"
    BY <1>1, <2>1 DEF IpsKernelSound
  <2>2. CASE /\ ipsPc = "add1" /\ ipsPc' = "add2" /\ ipsList' = ipsList
             /\ ipsKernel' = ipsKernel \cup IpsStatic \cup (IF ipsList = None THEN {} ELSE {Batch(ipsList, 1)})
    <3>1. IpsListed(ipsKernel') = (IF ipsList = None THEN {} ELSE {Batch(ipsList, 1)})
      <4>1. IpsListed(ipsKernel) = {}
        BY <1>1, <2>2 DEF IpsKernelSound
      <4> QED BY <4>1, <2>2, <1>a, <1>b DEF IpsListed
    <3>2. IpsListed(ipsKernel') \subseteq IpsOf(ipsList)
      BY <3>1 DEF IpsOf, Elements
    <3>3. \E v \in IpsVersions : IpsListed(ipsKernel') \subseteq Elements(v)
      BY <1>1, <3>2 DEF IpsOf, IpsTypes, IpsLists
    <3>4. IpsStatic \subseteq ipsKernel' /\ (ipsList # None => Batch(ipsList, 1) \in ipsKernel')
      BY <2>2
    <3> QED BY <2>2, <3>2, <3>3, <3>4 DEF IpsKernelSound
  <2>3. CASE /\ ipsPc = "add2" /\ ipsPc' = "idle" /\ ipsList' = ipsList
             /\ ipsKernel' = ipsKernel \cup (IF ipsList = None THEN {} ELSE {Batch(ipsList, 2)})
    <3>1. IpsListed(ipsKernel) \subseteq IpsOf(ipsList)
      BY <1>1, <2>3 DEF IpsKernelSound
    <3>2. IpsListed(ipsKernel') \subseteq IpsOf(ipsList)
      BY <2>3, <3>1 DEF IpsListed, IpsOf, Elements
    <3>3. \E v \in IpsVersions : IpsListed(ipsKernel') \subseteq Elements(v)
      BY <1>1, <3>2 DEF IpsOf, IpsTypes, IpsLists
    <3> QED BY <2>3, <3>3 DEF IpsKernelSound
  <2>4. ipsPc \in {"add1", "add2"} /\ ipsList' = ipsList
    BY <1>5 DEF IpsAdd
  <2>5. \/ ipsKernel' = ipsKernel /\ ipsPc' = "idle"
        \/ /\ ipsPc = "add1" => ipsPc' = "add2" /\ ipsKernel' = ipsKernel \cup IpsStatic \cup (IF ipsList = None THEN {} ELSE {Batch(ipsList, 1)})
           /\ ipsPc = "add2" => ipsPc' = "idle" /\ ipsKernel' = ipsKernel \cup (IF ipsList = None THEN {} ELSE {Batch(ipsList, 2)})
    BY <1>5 DEF IpsAdd
  <2> QED BY <2>1, <2>2, <2>3, <2>4, <2>5
<1>6. ASSUME NEW e \in IpsManual, IpsAddEntry(e) \/ IpsRemoveEntry(e) PROVE IpsKernelSound'
  <2>1. ipsPc' = ipsPc /\ ipsList' = ipsList /\ ipsKernel' \in {ipsKernel \cup {e}, ipsKernel \ {e}}
    BY <1>6 DEF IpsAddEntry, IpsRemoveEntry
  <2>2. e[1] # "list" /\ e \notin IpsStatic
    BY IpsAssumption
  <2>3. IpsListed(ipsKernel') = IpsListed(ipsKernel)
    BY <2>1, <2>2 DEF IpsListed
  <2>4. Batch(ipsList, 1) # e
    BY <2>2, <1>b
  <2> QED BY <1>1, <2>1, <2>2, <2>3, <2>4 DEF IpsKernelSound
<1> QED BY <1>2, <1>3, <1>4, <1>5, <1>6 DEF IpsNext

LEMMA IpsDoneStep == ASSUME IpsInv, IpsNext PROVE IpsDoneSound'
<1>1. IpsTypes /\ IpsDoneSound
  BY DEF IpsInv
<1>2. ASSUME IpsScript \/ IpsCrash \/ IpsTick PROVE IpsDoneSound'
  BY <1>2 DEF IpsScript, IpsCrash, IpsTick, IpsDoneSound
<1>3. ASSUME IpsLoad \/ IpsWriteData \/ IpsWriteMeta \/ IpsFlush PROVE IpsDoneSound'
  <2>1. ipsPc # "idle" /\ ipsDone' = ipsDone
    BY <1>3 DEF IpsLoad, IpsWriteData, IpsWriteMeta, IpsFlush
  <2> QED BY <1>1, <2>1 DEF IpsDoneSound
<1>4. ASSUME IpsAdd PROVE IpsDoneSound'
  <2> SUFFICES ASSUME ipsDone' = "ok"
               PROVE  /\ ipsPc' = "idle" /\ ipsUsed' # None /\ IpsFresh(ipsUsed)'
                      /\ Elements(ipsUsed') \cup IpsStatic \subseteq ipsKernel'
    BY DEF IpsDoneSound
  <2>1. /\ ipsPc = "add2" /\ ipsPc' = "idle" /\ ipsList # None /\ ipsUsed' = ipsUsed
        /\ ipsKernel' = ipsKernel \cup {Batch(ipsList, 2)}
        /\ ipsNow' = ipsNow /\ ipsRemote' = ipsRemote /\ ipsSince' = ipsSince
    BY <1>4 DEF IpsAdd
  <2>2. ipsUsed = ipsList /\ IpsFresh(ipsList) /\ IpsStatic \subseteq ipsKernel /\ Batch(ipsList, 1) \in ipsKernel
    BY <2>1 DEF IpsInv, IpsListSound, IpsKernelSound
  <2> QED BY <2>1, <2>2 DEF Elements, IpsFresh
<1>5. ASSUME NEW e \in IpsManual, IpsAddEntry(e) \/ IpsRemoveEntry(e) PROVE IpsDoneSound'
  <2>1. /\ ipsPc' = ipsPc /\ ipsDone' = ipsDone /\ ipsUsed' = ipsUsed /\ ipsKernel \ {e} \subseteq ipsKernel'
        /\ ipsNow' = ipsNow /\ ipsRemote' = ipsRemote /\ ipsSince' = ipsSince
    BY <1>5 DEF IpsAddEntry, IpsRemoveEntry
  <2>2. e \notin Elements(ipsUsed) /\ e \notin IpsStatic
    BY IpsAssumption DEF Elements, Batch
  <2> QED BY <1>1, <2>1, <2>2 DEF IpsDoneSound, IpsFresh
<1>6. ASSUME IpsClearCache \/ IpsPublish PROVE IpsDoneSound'
  <2>1. ipsPc' = ipsPc /\ ipsDone' = ipsDone /\ ipsUsed' = ipsUsed /\ ipsKernel' = ipsKernel
    BY <1>6 DEF IpsClearCache, IpsPublish
  <2>2. ~IpsTick
    BY <1>1, <1>6, IpsAssumption DEF IpsPublish, IpsClearCache, IpsTick, IpsTypes
  <2>3. ipsUsed # None /\ IpsFresh(ipsUsed) => \A v \in {ipsUsed} : (IpsFresh(v))'
    BY <1>1, <2>2, IpsFreshStep DEF IpsTypes, IpsLists
  <2>4. ipsUsed # None /\ IpsFresh(ipsUsed) => (IpsFresh(ipsUsed))'
    BY <2>1, <2>3 DEF IpsFresh
  <2> QED BY <1>1, <2>1, <2>4 DEF IpsDoneSound
<1> QED BY <1>2, <1>3, <1>4, <1>5, <1>6 DEF IpsNext

LEMMA IpsInitHolds == ASSUME IpsInit PROVE IpsInv
<1>1. IpsTypes
  BY IpsAssumption DEF IpsInit, IpsTypes, IpsLists
<1>2. IpsListed({}) = {} /\ 1 \in IpsVersions
  BY IpsAssumption DEF IpsListed
<1>3. IpsKernelSound
  BY <1>2 DEF IpsInit, IpsKernelSound
<1> QED BY <1>1, <1>3 DEF IpsInit, IpsInv, IpsCacheSound, IpsListSound, IpsDoneSound

LEMMA IpsInvStep == ASSUME IpsInv, IpsNext \/ UNCHANGED ipsVars PROVE IpsInv'
<1>1. CASE IpsNext
  BY <1>1, IpsTypesStep, IpsCacheStep, IpsListStep, IpsKernelStep, IpsDoneStep DEF IpsInv
<1>2. CASE UNCHANGED ipsVars
  BY <1>2 DEF ipsVars, IpsInv, IpsTypes, IpsCacheSound, IpsListSound, IpsKernelSound, IpsDoneSound,
              IpsServed, IpsFresh
<1> QED BY <1>1, <1>2

LEMMA IpsInvSuffices == IpsInv => ListWhole /\ ListRecent
<1> SUFFICES ASSUME IpsInv PROVE ListWhole /\ ListRecent
  OBVIOUS
<1>1. PICK v \in IpsVersions : IpsListed(ipsKernel) \subseteq Elements(v)
  BY DEF IpsInv, IpsKernelSound
<1>2. \A e \in ipsKernel : e[1] = "list" => e \in Elements(v)
  BY <1>1 DEF IpsListed
<1> QED BY <1>2 DEF IpsInv, IpsDoneSound, IpsFresh, ListWhole, ListRecent

-----------------------------------------------------------------------------
(* Queues                                                                  *)

QosTrees ==
    [root : BOOLEAN, rate : Nat, classes : Seq([name : STRING, rate : Nat, ceil : Nat]),
     leaves : SUBSET Nat, filters : SUBSET [proto : STRING, class : STRING, to : Nat]]

QosTypes ==
    /\ qosPolicies \in QosPolicies /\ qosTree \in [QosIfaces -> QosTrees]
    /\ qosPc \in [at : {"policy"}, policy : Nat \ {0}, step : {"clear", "root", "class", "leaf", "filter"},
                  n : Nat \ {0}]
                 \cup [at : {"applied", "failed"}]

\* The tree of a policy with its first c classes and the leaves of l of them.
QosHas(t, p, c, l) ==
    /\ t.root /\ t.rate = QosRate(p)
    /\ t.classes = [k \in 1..c |-> QosClass(p.classes[k], QosRate(p))]
    /\ t.leaves = {9 + k : k \in 1..l}
QosHasAll(t, p) == QosHas(t, p, Len(p.classes), Len(p.classes))

\* What each step of applyPolicy finds.
QosFinds(t, p, step, n) ==
    /\ step = "class" => n <= Len(p.classes) + 1 /\ QosHas(t, p, n - 1, n - 1)
    /\ step = "leaf" => n <= Len(p.classes) /\ QosHas(t, p, n, n - 1)
    /\ step = "filter" => QosHasAll(t, p)

QosFiltersLead(t) ==
    \A f \in t.filters : /\ f.to - 9 \in DOMAIN t.classes
                         /\ t.classes[f.to - 9].name = f.class
                         /\ f.to \in t.leaves

\* Of the policies l up to the m-th, which is being applied, the last one of
\* each other interface stands.
QosLastBefore(l, i, m) ==
    /\ i \in DOMAIN l /\ i < m /\ l[i].enabled
    /\ \A j \in DOMAIN l : i < j /\ j <= m => ~l[j].enabled \/ l[j].iface # l[i].iface
QosStand(tree, l, m) ==
    \A i \in DOMAIN l : QosLastBefore(l, i, m) => QosHasAll(tree[l[i].iface], l[i])

QosInv ==
    /\ QosTypes
    /\ \A i \in QosIfaces : QosFiltersLead(qosTree[i])
    /\ qosPc.at = "policy" =>
         /\ QosStand(qosTree, qosPolicies, qosPc.policy)
         /\ qosPc.policy <= Len(qosPolicies) /\ QosPolicy.enabled =>
              QosFinds(qosTree[QosPolicy.iface], QosPolicy, qosPc.step, qosPc.n)
    /\ qosPc.at = "applied" =>
         \A i \in DOMAIN qosPolicies :
            QosLast(i) => QosHasAll(qosTree[qosPolicies[i].iface], qosPolicies[i])

LEMMA QosOfConfig ==
    ASSUME QosTypes
    PROVE  /\ DOMAIN qosPolicies = 1..Len(qosPolicies) /\ Len(qosPolicies) \in Nat
           /\ \A i \in DOMAIN qosPolicies :
                qosPolicies[i] \in QosPolicyTypes /\ qosPolicies[i].iface \in QosIfaces
<1>1. qosPolicies \in QosPolicies /\ qosPolicies \in Seq(QosPolicyTypes)
  BY QosAssumption DEF QosTypes
<1>2. \A i \in DOMAIN qosPolicies : qosPolicies[i] \in QosPolicyTypes
  BY <1>1
<1>3. \A i \in DOMAIN qosPolicies : qosPolicies[i].iface \in QosIfaces
  BY <1>1 DEF QosIfaces
<1> QED BY <1>1, <1>2, <1>3

LEMMA QosRateStrType ==
    ASSUME NEW s \in QosRateStrs, NEW parent \in Nat
    PROVE  QosRateStr(s, parent) \in Nat
<1>1. s.value \in Nat
  BY DEF QosRateStrs
<1>2. parent * s.value \in Nat
  BY <1>1
<1>3. (parent * s.value) \div 100 \in Nat
  <2> DEFINE x == parent * s.value
  <2>1. x \in Nat
    BY <1>2
  <2> HIDE DEF x
  <2>2. x \div 100 \in Nat
    BY <2>1
  <2> QED BY <2>2 DEF x
<1> QED BY <1>1, <1>3 DEF QosRateStr

LEMMA QosClassType ==
    ASSUME NEW c \in QosClasses, NEW rate \in Nat
    PROVE  QosClass(c, rate) \in [name : STRING, rate : Nat, ceil : Nat]
<1>1. c.rate \in QosRateStrs /\ c.ceil \in QosRateStrs /\ c.name \in STRING
  BY DEF QosClasses
<1>2. QosRateStr(c.rate, rate) \in Nat /\ QosRateStr(c.ceil, rate) \in Nat
  BY <1>1, QosRateStrType
<1> QED BY <1>1, <1>2 DEF QosClass

\* A part of a rate is not more than the rate.
LEMMA QosPart ==
    ASSUME NEW rate \in Nat, NEW value \in Nat, value <= 100
    PROVE  (rate * value) \div 100 <= rate
<1> DEFINE x == rate * value
<1>1. x \in Nat /\ x <= rate * 100
  BY Z3
<1> HIDE DEF x
<1>2. x \div 100 <= rate
  BY <1>1
<1> QED BY <1>2 DEF x

LEMMA QosClassWithin ==
    ASSUME NEW c \in QosClasses, NEW rate \in Nat
    PROVE  QosWithin(QosClass(c, rate), c.ceil, rate)
<1>1. c.ceil \in QosRateStrs /\ c.ceil.value \in Nat
  BY DEF QosClasses, QosRateStrs
<1>2. QosRateStr(c.ceil, rate) \in Nat
  BY <1>1, QosRateStrType
<1>3. c.ceil.value <= (IF c.ceil.kind = "mbit" THEN rate ELSE 100) => QosRateStr(c.ceil, rate) <= rate
  BY <1>1, QosPart DEF QosRateStr
<1> DEFINE ceil == QosRateStr(c.ceil, rate)
<1>4. QosClass(c, rate).ceil = IF ceil = 0 THEN rate ELSE ceil
  BY DEF QosClass
<1>5. ceil \in Nat
  BY <1>2
<1>6. c.ceil.value <= (IF c.ceil.kind = "mbit" THEN rate ELSE 100) => ceil <= rate
  BY <1>3
<1> HIDE DEF ceil
<1> QED BY <1>4, <1>5, <1>6 DEF QosWithin

LEMMA QosHasAllIsWhole ==
    ASSUME NEW p \in QosPolicyTypes, NEW t, QosHasAll(t, p)
    PROVE  QosWhole(t, p)
<1>1. p.classes \in Seq(QosClasses) /\ QosRate(p) \in Nat
  BY DEF QosPolicyTypes, QosRate
<1>2. DOMAIN p.classes = 1..Len(p.classes) /\ \A k \in DOMAIN p.classes : p.classes[k] \in QosClasses
  BY <1>1
<1>3. /\ t.root /\ t.rate = QosRate(p) /\ t.leaves = {9 + k : k \in DOMAIN p.classes}
      /\ t.classes = [k \in DOMAIN p.classes |-> QosClass(p.classes[k], QosRate(p))]
  BY <1>2 DEF QosHasAll, QosHas
<1>4. [k \in DOMAIN t.classes |-> t.classes[k].name] = [k \in DOMAIN p.classes |-> p.classes[k].name]
  BY <1>3 DEF QosClass
<1>5. \A k \in DOMAIN t.classes : QosWithin(t.classes[k], p.classes[k].ceil, t.rate)
  BY <1>1, <1>2, <1>3, QosClassWithin
<1> QED BY <1>3, <1>4, <1>5 DEF QosWhole

\* The number of a class is that of the last one of its name.
LEMMA QosMinorLast ==
    ASSUME NEW p \in QosPolicyTypes, NEW name, QosMinor(p, name) # 0
    PROVE  \E i \in 1..Len(p.classes) : QosMinor(p, name) = 9 + i /\ p.classes[i].name = name
<1> DEFINE at == {i \in DOMAIN p.classes : p.classes[i].name = name}
           n == Len(p.classes)
<1>1. DOMAIN p.classes = 1..n /\ n \in Nat
  BY DEF QosPolicyTypes
<1>2. at # {} /\ QosMinor(p, name) = 9 + (CHOOSE i \in at : \A j \in at : j <= i)
  BY DEF QosMinor
<1>3. at \subseteq 1..n /\ at # {} /\ n \in Nat
  BY <1>1, <1>2
<1>4. \E i \in at : \A j \in at : j <= i
  <2> HIDE DEF at, n
  <2> DEFINE down == {n - i : i \in at}
  <2>1. down \in SUBSET Nat /\ down # {}
    <3>1. PICK i \in at : TRUE
      BY <1>3
    <3>2. n - i \in down
      BY <3>1
    <3>3. \A j \in at : n - j \in Nat
      BY <1>3
    <3> QED BY <3>2, <3>3
  <2>2. PICK x \in down : \A y \in down : x <= y
    BY <2>1, Least
  <2>3. PICK i \in at : x = n - i
    BY <2>2
  <2>4. \A j \in at : j <= i
    <3> TAKE j \in at
    <3>1. n - i <= n - j
      BY <2>2, <2>3
    <3> QED BY <1>3, <3>1
  <2> QED BY <2>4
<1>5. (CHOOSE i \in at : \A j \in at : j <= i) \in at
  BY <1>4
<1> DEFINE last == CHOOSE i \in at : \A j \in at : j <= i
<1>6. last \in 1..n /\ p.classes[last].name = name /\ QosMinor(p, name) = 9 + last
  BY <1>2, <1>3, <1>5
<1> HIDE DEF last
<1> QED BY <1>6

\* A step of applyPolicy that leaves the tree t2 and goes on at step2, n2.
LEMMA QosWork ==
    ASSUME QosInv, qosPc.at = "policy", qosPc.policy <= Len(qosPolicies), QosPolicy.enabled,
           NEW t2 \in QosTrees, QosUpdate(t2), qosPolicies' = qosPolicies,
           NEW step2 \in {"clear", "root", "class", "leaf", "filter"}, NEW n2 \in Nat \ {0},
           QosThen(step2, n2),
           QosFiltersLead(t2), QosFinds(t2, QosPolicy, step2, n2)
    PROVE  QosInv'
<1> DEFINE m == qosPc.policy
           p == qosPolicies[m]
<1>1. QosTypes /\ m \in Nat \ {0} /\ m \in DOMAIN qosPolicies
  BY QosOfConfig DEF QosInv, QosTypes
<1>2. p = QosPolicy /\ p \in QosPolicyTypes /\ p.iface \in QosIfaces
  BY <1>1, QosOfConfig DEF QosPolicy
<1>3. qosPc' = [at |-> "policy", policy |-> m, step |-> step2, n |-> n2]
  BY DEF QosThen, QosAt
<1>4. /\ qosTree' \in [QosIfaces -> QosTrees]
      /\ \A i \in QosIfaces : qosTree'[i] = IF i = p.iface THEN t2 ELSE qosTree[i]
  BY <1>1, <1>2 DEF QosUpdate, QosTypes
<1>5. QosTypes'
  BY <1>1, <1>3, <1>4 DEF QosTypes
<1>6. \A i \in QosIfaces : QosFiltersLead(qosTree'[i])
  BY <1>4 DEF QosInv
<1>7. QosStand(qosTree', qosPolicies, m)
  <2> SUFFICES ASSUME NEW i \in DOMAIN qosPolicies, QosLastBefore(qosPolicies, i, m)
               PROVE  QosHasAll(qosTree'[qosPolicies[i].iface], qosPolicies[i])
    BY DEF QosStand
  <2>1. qosPolicies[i].iface # p.iface
    BY <1>1, <1>2 DEF QosLastBefore
  <2>2. qosPolicies[i].iface \in QosIfaces
    BY <1>1, QosOfConfig
  <2>3. QosHasAll(qosTree[qosPolicies[i].iface], qosPolicies[i])
    BY DEF QosInv, QosStand
  <2> QED BY <1>4, <2>1, <2>2, <2>3
<1>8. QosFinds(qosTree'[p.iface], p, step2, n2)
  BY <1>2, <1>4
<1>9. qosPc'.at = "policy" /\ qosPc'.policy = m /\ qosPc'.step = step2 /\ qosPc'.n = n2
  BY <1>3
<1>10. QosPolicy' = p
  BY <1>9 DEF QosPolicy
<1> HIDE DEF p, m
<1> QED BY <1>5, <1>6, <1>7, <1>8, <1>9, <1>10 DEF QosInv

\* The next policy is begun, the tree as it is: of the one before, the tree
\* stands if it was enabled.
LEMMA QosNextPolicy ==
    ASSUME QosInv, qosPc.at = "policy", qosPc.policy <= Len(qosPolicies),
           qosPc' = QosAt(qosPc.policy + 1, "clear", 1), UNCHANGED <<qosPolicies, qosTree>>,
           QosPolicy.enabled => QosHasAll(qosTree[QosPolicy.iface], QosPolicy)
    PROVE  QosInv'
<1> DEFINE m == qosPc.policy
<1>1. QosTypes /\ m \in Nat \ {0} /\ m \in DOMAIN qosPolicies
  BY QosOfConfig DEF QosInv, QosTypes
<1>2. qosPc' = [at |-> "policy", policy |-> m + 1, step |-> "clear", n |-> 1]
  BY DEF QosAt
<1>3. QosTypes'
  BY <1>1, <1>2 DEF QosTypes
<1>4. QosStand(qosTree, qosPolicies, m + 1)
  <2> SUFFICES ASSUME NEW i \in DOMAIN qosPolicies, QosLastBefore(qosPolicies, i, m + 1)
               PROVE  QosHasAll(qosTree[qosPolicies[i].iface], qosPolicies[i])
    BY DEF QosStand
  <2>1. i \in Nat /\ m \in Nat
    BY <1>1, QosOfConfig
  <2>2. CASE i = m
    BY <2>2 DEF QosLastBefore, QosPolicy
  <2>3. CASE i # m
    <3>1. i < m /\ \A j \in DOMAIN qosPolicies : j <= m => j <= m + 1
      BY <2>1, <2>3, <1>1, QosOfConfig DEF QosLastBefore
    <3>2. QosLastBefore(qosPolicies, i, m)
      BY <3>1 DEF QosLastBefore
    <3> QED BY <3>2 DEF QosInv, QosStand
  <2> QED BY <2>2, <2>3
<1>5. qosPc'.at = "policy" /\ qosPc'.policy = m + 1 /\ qosPc'.step = "clear"
  BY <1>2
<1>6. \A t, q, n : QosFinds(t, q, "clear", n)
  BY DEF QosFinds
<1> HIDE DEF m
<1> QED BY <1>3, <1>4, <1>5, <1>6 DEF QosInv, QosPolicy

LEMMA QosDoingTypes ==
    ASSUME QosInv, NEW step, QosDoing(step)
    PROVE  /\ QosPolicy \in QosPolicyTypes /\ QosPolicy.iface \in QosIfaces
           /\ qosTree[QosPolicy.iface] \in QosTrees /\ qosPc.n \in Nat \ {0}
           /\ qosPc.at = "policy" /\ qosPc.policy <= Len(qosPolicies) /\ QosPolicy.enabled
           /\ QosFiltersLead(qosTree[QosPolicy.iface])
           /\ QosFinds(qosTree[QosPolicy.iface], QosPolicy, step, qosPc.n)
           /\ QosRate(QosPolicy) \in Nat
           /\ QosPolicy.classes \in Seq(QosClasses)
<1>1. /\ qosPc.at = "policy" /\ qosPc.policy <= Len(qosPolicies) /\ QosPolicy.enabled
      /\ qosPc.step = step
  BY DEF QosDoing
<1>2. QosTypes /\ qosPc.policy \in Nat \ {0} /\ qosPc.n \in Nat \ {0}
  BY <1>1 DEF QosInv, QosTypes
<1>3. qosPc.policy \in DOMAIN qosPolicies
  BY <1>1, <1>2, QosOfConfig
<1>4. QosPolicy \in QosPolicyTypes /\ QosPolicy.iface \in QosIfaces
  BY <1>2, <1>3, QosOfConfig DEF QosPolicy
<1>5. qosTree[QosPolicy.iface] \in QosTrees
  BY <1>2, <1>4 DEF QosTypes
<1>6. QosFiltersLead(qosTree[QosPolicy.iface])
  BY <1>4 DEF QosInv
<1>7. QosFinds(qosTree[QosPolicy.iface], QosPolicy, step, qosPc.n)
  BY <1>1 DEF QosInv
<1>8. QosRate(QosPolicy) \in Nat /\ QosPolicy.classes \in Seq(QosClasses)
  BY <1>4 DEF QosPolicyTypes, QosRate
<1> QED BY <1>1, <1>2, <1>4, <1>5, <1>6, <1>7, <1>8

LEMMA QosClearStep == ASSUME QosInv, QosClear PROVE QosInv'
<1>1. QosDoing("clear") /\ QosUpdate(QosBare) /\ QosThen("root", 1) /\ qosPolicies' = qosPolicies
  BY DEF QosClear
<1>2. QosBare \in QosTrees /\ QosFiltersLead(QosBare) /\ QosFinds(QosBare, QosPolicy, "root", 1)
  BY DEF QosBare, QosTrees, QosFiltersLead, QosFinds
<1> QED BY <1>1, <1>2, QosDoingTypes, QosWork

LEMMA QosRootStep == ASSUME QosInv, QosRoot PROVE QosInv'
<1> DEFINE t2 == [QosBare EXCEPT !.root = TRUE, !.rate = QosRate(QosPolicy)]
<1>1. QosDoing("root") /\ QosUpdate(t2) /\ QosThen("class", 1) /\ qosPolicies' = qosPolicies
  BY DEF QosRoot
<1>2. QosRate(QosPolicy) \in Nat /\ QosPolicy.classes \in Seq(QosClasses)
  BY <1>1, QosDoingTypes
<1>3. /\ t2 \in QosTrees /\ t2.root /\ t2.rate = QosRate(QosPolicy) /\ t2.classes = <<>>
      /\ t2.leaves = {} /\ t2.filters = {}
  <2>1. QosBare \in QosTrees /\ QosBare.classes = <<>> /\ QosBare.leaves = {} /\ QosBare.filters = {}
    BY DEF QosBare, QosTrees
  <2> DEFINE rate == QosRate(QosPolicy)
  <2>2. rate \in Nat
    BY <1>2
  <2>3. t2 = [QosBare EXCEPT !.root = TRUE, !.rate = rate]
    OBVIOUS
  <2> HIDE DEF rate, t2
  <2>4. t2 \in QosTrees /\ t2.root /\ t2.rate = rate /\ t2.classes = QosBare.classes
        /\ t2.leaves = QosBare.leaves /\ t2.filters = QosBare.filters
    BY <2>1, <2>2, <2>3 DEF QosTrees
  <2> QED BY <2>1, <2>4 DEF rate
<1>4. QosFiltersLead(t2)
  BY <1>3 DEF QosFiltersLead
<1>5. QosFinds(t2, QosPolicy, "class", 1)
  <2>1. 1 - 1 = 0 /\ 1..0 = {}
    OBVIOUS
  <2>2. t2.leaves = {9 + k : k \in 1..0}
    BY <1>3, <2>1
  <2>3. t2.classes = [k \in 1..0 |-> QosClass(QosPolicy.classes[k], QosRate(QosPolicy))]
    BY <1>3, <2>1
  <2>4. 1 <= Len(QosPolicy.classes) + 1
    BY <1>2
  <2> HIDE DEF t2
  <2> QED BY <1>3, <2>1, <2>2, <2>3, <2>4 DEF QosFinds, QosHas
<1> HIDE DEF t2
<1> QED BY <1>1, <1>3, <1>4, <1>5, QosDoingTypes, QosWork

LEMMA QosAddClassStep == ASSUME QosInv, QosAddClass PROVE QosInv'
<1> DEFINE t == qosTree[QosPolicy.iface]
           n == qosPc.n
           p == QosPolicy
           c == QosClass(p.classes[n], t.rate)
           t2 == [t EXCEPT !.classes = Append(@, c)]
<1>1. QosDoing("class") /\ n <= Len(p.classes) /\ QosUpdate(t2) /\ QosThen("leaf", n) /\ qosPolicies' = qosPolicies
  BY DEF QosAddClass
<1>2. /\ t \in QosTrees /\ n \in Nat \ {0} /\ QosFiltersLead(t) /\ QosHas(t, p, n - 1, n - 1)
      /\ QosRate(p) \in Nat /\ p.classes \in Seq(QosClasses)
  BY <1>1, QosDoingTypes DEF QosFinds
<1>3. t.rate = QosRate(p) /\ p.classes[n] \in QosClasses
  BY <1>1, <1>2 DEF QosHas
<1>4. c \in [name : STRING, rate : Nat, ceil : Nat]
  BY <1>2, <1>3, QosClassType
<1>5. t2 \in QosTrees /\ t2.classes = Append(t.classes, c) /\ t2.root = t.root /\ t2.rate = t.rate
      /\ t2.leaves = t.leaves /\ t2.filters = t.filters
  <2>1. Append(t.classes, c) \in Seq([name : STRING, rate : Nat, ceil : Nat])
    <3> HIDE DEF c, t
    <3> QED BY <1>2, <1>4 DEF QosTrees
  <2> DEFINE s == Append(t.classes, c)
  <2>2. s \in Seq([name : STRING, rate : Nat, ceil : Nat]) /\ t2 = [t EXCEPT !.classes = s]
    BY <2>1
  <2> HIDE DEF c, t, s, t2
  <2>3. t2 \in QosTrees /\ t2.classes = s /\ t2.root = t.root /\ t2.rate = t.rate
        /\ t2.leaves = t.leaves /\ t2.filters = t.filters
    BY <1>2, <2>2 DEF QosTrees
  <2> QED BY <2>3 DEF s
<1>6. t.classes \in Seq([name : STRING, rate : Nat, ceil : Nat])
  BY <1>2 DEF QosTrees
<1>7. /\ Len(t2.classes) = Len(t.classes) + 1 /\ t2.classes[Len(t.classes) + 1] = c
      /\ \A k \in 1..Len(t.classes) : t2.classes[k] = t.classes[k]
      /\ DOMAIN t2.classes = 1..(Len(t.classes) + 1) /\ DOMAIN t.classes = 1..Len(t.classes)
  <2> HIDE DEF c, t, t2
  <2> QED BY <1>4, <1>5, <1>6
<1>8. QosFiltersLead(t2)
  <2> HIDE DEF c, t, t2
  <2>1. DOMAIN t.classes \subseteq DOMAIN t2.classes
    BY <1>6, <1>7
  <2> QED BY <1>2, <1>5, <1>7, <2>1 DEF QosFiltersLead
<1>9. QosFinds(t2, p, "leaf", n)
  <2> DEFINE built(m) == [k \in 1..m |-> QosClass(p.classes[k], QosRate(p))]
  <2>1. t.classes = built(n - 1) /\ t.root /\ t.leaves = {9 + k : k \in 1..(n - 1)}
    BY <1>2 DEF QosHas
  <2>2. Len(t.classes) = n - 1
    <3> HIDE DEF t, n, c
    <3>1. DOMAIN t.classes = 1..(n - 1) /\ n - 1 \in Nat
      BY <1>2, <2>1
    <3> HIDE DEF built
    <3> QED BY <3>1, <1>6
  <2>3. t2.classes = built(n)
    <3>1. c = QosClass(p.classes[n], QosRate(p))
      BY <1>3
    <3> HIDE DEF t, n, c, t2, p
    <3>2. DOMAIN t2.classes = DOMAIN built(n)
      BY <1>2, <1>7, <2>2
    <3>3. \A k \in 1..n : t2.classes[k] = built(n)[k]
      <4> TAKE k \in 1..n
      <4>1. CASE k = n
        BY <1>2, <1>7, <2>2, <3>1, <4>1
      <4>2. CASE k # n
        <5>1. k \in 1..(n - 1)
          BY <1>2, <4>2
        <5> QED BY <1>7, <2>1, <2>2, <5>1
      <4> QED BY <4>1, <4>2
    <3>4. t2.classes \in Seq([name : STRING, rate : Nat, ceil : Nat])
      BY <1>4, <1>5, <1>6
    <3> QED BY <1>2, <1>7, <2>2, <3>2, <3>3, <3>4
  <2> HIDE DEF t, c, t2
  <2> QED BY <1>1, <1>3, <1>5, <2>1, <2>3 DEF QosFinds, QosHas
<1> HIDE DEF t2
<1> QED BY <1>1, <1>2, <1>5, <1>8, <1>9, QosDoingTypes, QosWork

LEMMA QosAddLeafStep == ASSUME QosInv, QosAddLeaf PROVE QosInv'
<1> DEFINE t == qosTree[QosPolicy.iface]
           n == qosPc.n
           p == QosPolicy
           t2 == [t EXCEPT !.leaves = @ \cup {9 + n}]
<1>1. QosDoing("leaf") /\ QosUpdate(t2) /\ QosThen("class", n + 1) /\ qosPolicies' = qosPolicies
  BY DEF QosAddLeaf
<1>2. /\ t \in QosTrees /\ n \in Nat \ {0} /\ QosFiltersLead(t) /\ QosHas(t, p, n, n - 1)
      /\ n <= Len(p.classes) /\ p.classes \in Seq(QosClasses)
  BY <1>1, QosDoingTypes DEF QosFinds
<1>3. t2 \in QosTrees /\ t2.classes = t.classes /\ t2.root = t.root /\ t2.rate = t.rate
      /\ t2.leaves = t.leaves \cup {9 + n} /\ t2.filters = t.filters
  <2> HIDE DEF t, n
  <2>1. 9 + n \in Nat
    BY <1>2
  <2> QED BY <1>2, <2>1 DEF QosTrees
<1>4. QosFiltersLead(t2)
  BY <1>2, <1>3 DEF QosFiltersLead
<1>5. QosFinds(t2, p, "class", n + 1)
  <2> HIDE DEF t, n, t2, p
  <2>1. t2.leaves = {9 + k : k \in 1..n}
    <3>1. t.leaves = {9 + k : k \in 1..(n - 1)}
      BY <1>2 DEF QosHas
    <3>2. 1..n = (1..(n - 1)) \cup {n}
      BY <1>2
    <3> QED BY <1>3, <3>1, <3>2
  <2>2. (n + 1) - 1 = n /\ n + 1 <= Len(p.classes) + 1
    BY <1>2
  <2> QED BY <1>2, <1>3, <2>1, <2>2 DEF QosFinds, QosHas
<1>6. n + 1 \in Nat \ {0}
  BY <1>2
<1> HIDE DEF t2
<1> QED BY <1>1, <1>3, <1>4, <1>5, <1>6, QosDoingTypes, QosWork

LEMMA QosClassesDoneStep == ASSUME QosInv, QosClassesDone PROVE QosInv'
<1> DEFINE t == qosTree[QosPolicy.iface]
           n == qosPc.n
           p == QosPolicy
<1>1. QosDoing("class") /\ n > Len(p.classes) /\ QosThen("filter", 1) /\ qosPolicies' = qosPolicies /\ qosTree' = qosTree
  BY DEF QosClassesDone
<1>2. /\ t \in QosTrees /\ n \in Nat \ {0} /\ QosFiltersLead(t) /\ QosHas(t, p, n - 1, n - 1)
      /\ n <= Len(p.classes) + 1 /\ p.classes \in Seq(QosClasses) /\ p.iface \in QosIfaces
  BY <1>1, QosDoingTypes DEF QosFinds
<1>3. n - 1 = Len(p.classes)
  BY <1>1, <1>2
<1>4. QosFinds(t, p, "filter", 1)
  BY <1>2, <1>3 DEF QosFinds, QosHasAll
<1>5. QosUpdate(t)
  BY <1>1, <1>2 DEF QosUpdate, QosInv, QosTypes
<1> QED BY <1>1, <1>2, <1>4, <1>5, QosDoingTypes, QosWork

LEMMA QosFilterStep == ASSUME QosInv, QosFilter PROVE QosInv'
<1> DEFINE t == qosTree[QosPolicy.iface]
           n == qosPc.n
           p == QosPolicy
           r == p.rules[n]
           minor == QosMinor(p, r.class)
           t2 == [t EXCEPT !.filters = @ \cup {[proto |-> r.proto, class |-> r.class, to |-> minor]}]
<1>1. /\ QosDoing("filter") /\ n <= Len(p.rules) /\ QosThen("filter", n + 1) /\ qosPolicies' = qosPolicies
      /\ (minor # 0 /\ QosUpdate(t2)) \/ qosTree' = qosTree
  BY DEF QosFilter
<1>2. /\ t \in QosTrees /\ n \in Nat \ {0} /\ QosFiltersLead(t) /\ QosHasAll(t, p) /\ p \in QosPolicyTypes
      /\ p.classes \in Seq(QosClasses) /\ p.iface \in QosIfaces
  BY <1>1, QosDoingTypes DEF QosFinds
<1>3. n + 1 \in Nat \ {0}
  BY <1>2
<1>4. CASE qosTree' = qosTree
  <2>1. QosUpdate(t)
    BY <1>2, <1>4 DEF QosUpdate, QosInv, QosTypes
  <2>2. QosFinds(t, p, "filter", n + 1)
    BY <1>2 DEF QosFinds
  <2> QED BY <1>1, <1>2, <1>3, <2>1, <2>2, QosDoingTypes, QosWork
<1>5. CASE minor # 0 /\ QosUpdate(t2)
  <2>1. PICK i \in 1..Len(p.classes) : minor = 9 + i /\ p.classes[i].name = r.class
    BY <1>2, <1>5, QosMinorLast
  <2>2. r.class \in STRING /\ r.proto \in STRING /\ minor \in Nat
    <3>1. p.rules \in Seq(QosRules) /\ n <= Len(p.rules) /\ n \in Nat \ {0}
      BY <1>1, <1>2 DEF QosPolicyTypes
    <3>2. r \in QosRules
      <4> HIDE DEF n, p
      <4> QED BY <3>1
    <3> HIDE DEF minor, p, r
    <3> QED BY <1>2, <2>1, <3>2 DEF QosRules
  <2> DEFINE f == [proto |-> r.proto, class |-> r.class, to |-> minor]
  <2>3. t2 \in QosTrees /\ t2.classes = t.classes /\ t2.root = t.root /\ t2.rate = t.rate
        /\ t2.leaves = t.leaves /\ t2.filters = t.filters \cup {f}
    <3>1. f \in [proto : STRING, class : STRING, to : Nat] /\ t2 = [t EXCEPT !.filters = @ \cup {f}]
      BY <2>2
    <3> HIDE DEF f, t, t2
    <3>2. t.filters \cup {f} \in SUBSET [proto : STRING, class : STRING, to : Nat]
      BY <1>2, <3>1 DEF QosTrees
    <3> QED BY <1>2, <3>1, <3>2 DEF QosTrees
  <2>4. QosHasAll(t2, p)
    BY <1>2, <2>3 DEF QosHasAll, QosHas
  <2>5. f.to - 9 \in DOMAIN t.classes /\ t.classes[f.to - 9].name = f.class /\ f.to \in t.leaves
    <3>1. t.classes = [k \in 1..Len(p.classes) |-> QosClass(p.classes[k], QosRate(p))]
          /\ t.leaves = {9 + k : k \in 1..Len(p.classes)}
      BY <1>2 DEF QosHasAll, QosHas
    <3>2. f.to = 9 + i /\ f.class = r.class
      BY <2>1
    <3>3. f.to - 9 = i
      BY <3>2
    <3>4. t.classes[i].name = r.class
      BY <2>1, <3>1 DEF QosClass
    <3> HIDE DEF f, t
    <3> QED BY <3>1, <3>2, <3>3, <3>4
  <2> HIDE DEF f
  <2>6. QosFiltersLead(t2)
    BY <1>2, <2>3, <2>5 DEF QosFiltersLead
  <2>7. QosFinds(t2, p, "filter", n + 1)
    BY <2>4 DEF QosFinds
  <2> HIDE DEF t2
  <2> QED BY <1>1, <1>3, <1>5, <2>3, <2>6, <2>7, QosDoingTypes, QosWork
<1> QED BY <1>1, <1>4, <1>5

LEMMA QosApplied ==
    ASSUME QosInv, QosEnd
    PROVE  QosInv'
<1>1. /\ qosPc.at = "policy" /\ qosPc.policy > Len(qosPolicies)
      /\ qosPc' = [at |-> "applied"] /\ qosPolicies' = qosPolicies /\ qosTree' = qosTree
  BY DEF QosEnd, QosDone
<1>2. QosTypes /\ qosPc.policy \in Nat \ {0} /\ Len(qosPolicies) \in Nat
  BY <1>1, QosOfConfig DEF QosInv, QosTypes
<1>3. QosTypes' /\ qosPc'.at = "applied"
  BY <1>1, <1>2 DEF QosTypes
<1>4. ASSUME NEW i \in DOMAIN qosPolicies, QosLast(i)
      PROVE  QosHasAll(qosTree[qosPolicies[i].iface], qosPolicies[i])
  <2>1. i \in 1..Len(qosPolicies) /\ DOMAIN qosPolicies = 1..Len(qosPolicies)
    BY <1>2, QosOfConfig
  <2>2. i < qosPc.policy
    BY <1>1, <1>2, <2>1
  <2>3. QosLastBefore(qosPolicies, i, qosPc.policy)
    <3>1. \A j \in DOMAIN qosPolicies : i < j => j \in i + 1 .. Len(qosPolicies)
      BY <1>2, <2>1
    <3> QED BY <1>4, <2>2, <3>1 DEF QosLast, QosLastBefore
  <2> QED BY <1>1, <2>3 DEF QosInv, QosStand
<1>5. \A i \in DOMAIN qosPolicies : (QosLast(i))' <=> QosLast(i)
  BY <1>1 DEF QosLast
<1>6. \A i \in DOMAIN qosPolicies' :
        (QosLast(i))' => QosHasAll(qosTree'[qosPolicies'[i].iface], qosPolicies'[i])
  BY <1>1, <1>4, <1>5
<1> QED BY <1>1, <1>3, <1>6 DEF QosInv

LEMMA QosFailed == ASSUME QosInv, QosFail PROVE QosInv'
<1>1. qosPc' = [at |-> "failed"] /\ qosPolicies' = qosPolicies /\ qosTree' = qosTree
  BY DEF QosFail, QosDone
<1>2. QosTypes' /\ qosPc'.at = "failed"
  BY <1>1 DEF QosInv, QosTypes
<1> QED BY <1>1, <1>2 DEF QosInv

LEMMA QosBegun ==
    ASSUME QosTypes', \A i \in QosIfaces : QosFiltersLead(qosTree'[i]), qosPc' = QosAt(1, "clear", 1)
    PROVE  QosInv'
<1>1. qosPc'.at = "policy" /\ qosPc'.policy = 1 /\ qosPc'.step = "clear" /\ qosPc'.n = 1
  BY DEF QosAt
<1>2. \A l : l \in Seq(QosPolicyTypes) => \A i \in DOMAIN l : ~QosLastBefore(l, i, 1)
  BY DEF QosLastBefore
<1>3. qosPolicies' \in Seq(QosPolicyTypes)
  BY QosAssumption DEF QosTypes
<1>4. QosStand(qosTree', qosPolicies', 1)
  BY <1>2, <1>3 DEF QosStand
<1>5. \A t, q, n : QosFinds(t, q, "clear", n)
  BY DEF QosFinds
<1> QED BY <1>1, <1>4, <1>5 DEF QosInv

LEMMA QosInitHolds == ASSUME QosInit PROVE QosInv
<1>1. QosTypes
  <2>1. QosBare \in QosTrees
    BY DEF QosBare, QosTrees
  <2>2. qosPolicies \in QosPolicies /\ qosTree \in [QosIfaces -> QosTrees]
    BY <2>1 DEF QosInit
  <2>3. qosPc = [at |-> "policy", policy |-> 1, step |-> "clear", n |-> 1]
    BY DEF QosInit, QosAt
  <2> QED BY <2>2, <2>3 DEF QosTypes
<1>2. \A i \in QosIfaces : QosFiltersLead(qosTree[i])
  BY DEF QosInit, QosBare, QosFiltersLead
<1>3. qosPc.at = "policy" /\ qosPc.policy = 1 /\ qosPc.step = "clear" /\ qosPc.n = 1
  BY DEF QosInit, QosAt
<1>4. QosStand(qosTree, qosPolicies, 1)
  <2>1. qosPolicies \in Seq(QosPolicyTypes)
    BY <1>1, QosAssumption DEF QosTypes
  <2>2. \A i \in DOMAIN qosPolicies : ~QosLastBefore(qosPolicies, i, 1)
    BY <2>1 DEF QosLastBefore
  <2> QED BY <2>2 DEF QosStand
<1>5. \A t, q, n : QosFinds(t, q, "clear", n)
  BY DEF QosFinds
<1> QED BY <1>1, <1>2, <1>3, <1>4, <1>5 DEF QosInv

LEMMA QosInvStep == ASSUME QosInv, QosNext \/ UNCHANGED qosVars PROVE QosInv'
<1>1. CASE QosSkip
  <2>1. /\ qosPc.at = "policy" /\ qosPc.policy <= Len(qosPolicies) /\ ~QosPolicy.enabled
        /\ qosPc' = QosAt(qosPc.policy + 1, "clear", 1) /\ UNCHANGED <<qosPolicies, qosTree>>
    BY <1>1 DEF QosSkip
  <2> QED BY <2>1, QosNextPolicy
<1>2. CASE QosFiltersDone
  <2>1. /\ QosDoing("filter") /\ UNCHANGED <<qosPolicies, qosTree>>
        /\ qosPc' = QosAt(qosPc.policy + 1, "clear", 1)
    BY <1>2 DEF QosFiltersDone
  <2>2. QosHasAll(qosTree[QosPolicy.iface], QosPolicy)
    BY <2>1, QosDoingTypes DEF QosFinds
  <2> QED BY <2>1, <2>2, QosDoingTypes, QosNextPolicy
<1>3. CASE QosRestart
  <2>1. qosPolicies' \in QosPolicies /\ qosPc' = QosAt(1, "clear", 1) /\ qosTree' = qosTree
    BY <1>3 DEF QosRestart
  <2>2. QosTypes'
    BY <2>1 DEF QosInv, QosTypes, QosAt
  <2> QED BY <2>1, <2>2, QosBegun DEF QosInv
<1>4. CASE UNCHANGED qosVars
  BY <1>4 DEF qosVars, QosInv, QosTypes, QosPolicy, QosLast
<1> QED BY <1>1, <1>2, <1>3, <1>4, QosApplied, QosFailed, QosClearStep, QosRootStep, QosAddClassStep,
           QosAddLeafStep, QosClassesDoneStep, QosFilterStep DEF QosNext

LEMMA QosInvSuffices == QosInv => FilterLeadsToClass /\ AppliedIsWhole
<1> SUFFICES ASSUME QosInv PROVE FilterLeadsToClass /\ AppliedIsWhole
  OBVIOUS
<1>1. FilterLeadsToClass
  BY DEF QosInv, QosFiltersLead, FilterLeadsToClass
<1>2. AppliedIsWhole
  <2>1. \A i \in DOMAIN qosPolicies : qosPolicies[i] \in QosPolicyTypes
    BY QosOfConfig DEF QosInv
  <2> QED BY <2>1, QosHasAllIsWhole DEF QosInv, AppliedIsWhole
<1> QED BY <1>1, <1>2

-----------------------------------------------------------------------------
(* IP sets and queues together                                             *)

SetsAndQueuesInv == IpsInv /\ QosInv

LEMMA SetsAndQueuesStep == ASSUME SetsAndQueuesInv, [Next]_vars PROVE SetsAndQueuesInv'
<1>1. IpsNext \/ UNCHANGED ipsVars
  BY DEF Next, Rest, vars
<1>2. QosNext \/ UNCHANGED qosVars
  BY DEF Next, Rest, vars
<1> QED BY <1>1, <1>2, IpsInvStep, QosInvStep DEF SetsAndQueuesInv

\* Whatever fails and whenever it fails, a set made from a downloaded list
\* never mixes two versions of it and is fresh enough when it is reported as
\* filled (IPSetService.ApplyIPSet); a tree of queues that is reported as
\* applied has every class, leaf and filter of its policy (applyPolicy).
THEOREM SetsAndQueuesHold == Spec => []SetsAndQueuesWhole
<1>1. Init => SetsAndQueuesInv
  BY IpsInitHolds, QosInitHolds DEF Init, SetsAndQueuesInv
<1>2. SetsAndQueuesInv /\ [Next]_vars => SetsAndQueuesInv'
  BY SetsAndQueuesStep
<1>3. SetsAndQueuesInv => SetsAndQueuesWhole
  BY IpsInvSuffices, QosInvSuffices DEF SetsAndQueuesInv, SetsAndQueuesWhole
<1> QED BY <1>1, <1>2, <1>3, PTL DEF Spec
-----------------------------------------------------------------------------
(* VPN providers                                                           *)

\* The entries have numbers of calls that were made, so that an added peer
\* replaces no other.
WgInv ==
    /\ vpnCalls \in Nat
    /\ DOMAIN wgConf \subseteq 0..vpnCalls
    /\ RemovedPeerStaysOut

TsSettings == [routes: SUBSET WgNets, exit: BOOLEAN]
TsDaemons == [present: BOOLEAN, up: BOOLEAN, routes: SUBSET WgNets, exit: BOOLEAN]
TsInv == tsConf \in TsSettings /\ tsDaemon \in TsDaemons /\ TailscaleKeepsSettings

LEMMA WgAddStep == ASSUME WgInv, NEW p \in WgPeers, WgAddPeer(p) PROVE WgInv'
<1>1. vpnCalls' = vpnCalls + 1
  BY DEF WgAddPeer, VpnCall
<1>2. CASE UNCHANGED <<wgConf, wgDev, wgRoutes, wgStatus, wgAsked>>
  BY <1>1, <1>2 DEF WgInv, RemovedPeerStaysOut, WgPeerKeys
<1>3. CASE /\ wgDev' = WgAssign(wgDev, p)
           /\ wgConf' = WgAppend(p, vpnCalls') /\ wgAsked' = wgAsked \cup {p.key}
  <2>1. DOMAIN wgDev' = DOMAIN wgDev \cup {p.key}
    BY <1>3 DEF WgAssign
  <2>2. DOMAIN wgConf' = DOMAIN wgConf \cup {vpnCalls'}
    BY <1>3 DEF WgAppend
  <2>3. wgConf'[vpnCalls'] = p /\ \A i \in DOMAIN wgConf : wgConf'[i] = wgConf[i]
    BY <1>1, <1>3 DEF WgAppend, WgInv
  <2>4. WgPeerKeys(wgConf)' = WgPeerKeys(wgConf) \cup {p.key}
    BY <2>2, <2>3 DEF WgPeerKeys
  <2>5. vpnCalls' \in Nat /\ DOMAIN wgConf' \subseteq 0..vpnCalls'
    BY <1>1, <2>2 DEF WgInv
  <2> QED BY <1>3, <2>1, <2>4, <2>5 DEF WgInv, RemovedPeerStaysOut
<1> QED BY <1>2, <1>3 DEF WgAddPeer

LEMMA WgRemoveStep == ASSUME WgInv, NEW k \in WgKeys, WgRemovePeer(k) PROVE WgInv'
<1>1. vpnCalls' = vpnCalls + 1
  BY DEF WgRemovePeer, VpnCall
<1>2. CASE UNCHANGED <<wgConf, wgDev, wgRoutes, wgStatus, wgAsked>>
  BY <1>1, <1>2 DEF WgInv, RemovedPeerStaysOut, WgPeerKeys
<1>3. CASE /\ wgDev' = [x \in DOMAIN wgDev \ {k} |-> wgDev[x]]
           /\ wgConf' = WgPeersWithout(k) /\ wgAsked' = wgAsked \ {k}
  <2>1. DOMAIN wgDev' = DOMAIN wgDev \ {k}
    BY <1>3
  <2>2. DOMAIN wgConf' = {i \in DOMAIN wgConf : wgConf[i].key # k}
    BY <1>3 DEF WgPeersWithout
  <2>3. \A i \in DOMAIN wgConf' : wgConf'[i] = wgConf[i]
    BY <1>3 DEF WgPeersWithout
  <2>4. WgPeerKeys(wgConf)' = WgPeerKeys(wgConf) \ {k}
    BY <2>2, <2>3 DEF WgPeerKeys
  <2>5. vpnCalls' \in Nat /\ DOMAIN wgConf' \subseteq 0..vpnCalls'
    BY <1>1, <2>2 DEF WgInv
  <2> QED BY <1>3, <2>1, <2>4, <2>5 DEF WgInv, RemovedPeerStaysOut
<1> QED BY <1>2, <1>3 DEF WgRemovePeer

LEMMA WgUpStep == ASSUME WgInv, WgUp PROVE WgInv'
<1>1. vpnCalls' = vpnCalls + 1 /\ wgConf' = wgConf /\ wgAsked' = wgAsked
  BY DEF WgUp, VpnCall
<1>2. wgDev' = wgDev \/ wgDev' = WgPeersWanted(wgConf)
  BY DEF WgUp
<1>3. DOMAIN WgPeersWanted(wgConf) \subseteq WgPeerKeys(wgConf)
  BY DEF WgPeersWanted, WgReadable, WgPeerKeys
<1>4. DOMAIN wgDev' \subseteq wgAsked
  BY <1>2, <1>3 DEF WgInv, RemovedPeerStaysOut
<1> QED BY <1>1, <1>4 DEF WgInv, RemovedPeerStaysOut, WgPeerKeys

LEMMA WgInvStep == ASSUME WgInv, VpnNext \/ UNCHANGED vpnVars PROVE WgInv'
<1>1. CASE WgDown
  <2>1. vpnCalls' = vpnCalls + 1 /\ wgConf' = wgConf /\ wgAsked' = wgAsked
    BY <1>1 DEF WgDown, VpnCall
  <2>2. DOMAIN wgDev' \subseteq DOMAIN wgDev
    BY <1>1 DEF WgDown, NoPeers
  <2> QED BY <2>1, <2>2 DEF WgInv, RemovedPeerStaysOut, WgPeerKeys
<1>2. CASE UNCHANGED <<wgConf, wgDev, wgAsked>> /\ (VpnCall \/ UNCHANGED vpnCalls)
  <2>1. vpnCalls' = vpnCalls + 1 \/ vpnCalls' = vpnCalls
    BY <1>2 DEF VpnCall
  <2> QED BY <1>2, <2>1 DEF WgInv, RemovedPeerStaysOut, WgPeerKeys
<1>3. CASE WgMonitor \/ WgTick \/ TsUp \/ TsDown \/ SetupTunnel \/ UNCHANGED vpnVars
  BY <1>2, <1>3 DEF WgMonitor, WgTick, TsUp, TsDown, SetupTunnel, vpnVars, wgVars
<1>4. CASE \/ \E nets \in SUBSET WgNets : TsAdvertiseRoutes(nets)
           \/ \E on \in BOOLEAN : TsSetExitNode(on)
  BY <1>2, <1>4 DEF TsAdvertiseRoutes, TsSetExitNode, TsSet, wgVars
<1> QED BY <1>1, <1>3, <1>4, WgUpStep, WgAddStep, WgRemoveStep DEF VpnNext

\* A change that the daemon refuses is not kept, one it takes is.
LEMMA TsSetStep == ASSUME TsInv, NEW new \in TsSettings, TsSet(new) PROVE TsInv'
<1>1. PICK done \in {FALSE, tsDaemon.present} :
         /\ tsDaemon' = IF done THEN [tsDaemon EXCEPT !.routes = new.routes, !.exit = new.exit] ELSE tsDaemon
         /\ TsKept(new, done)
  BY DEF TsSet
<1>2. CASE done
  <2>1. tsDaemon' = [tsDaemon EXCEPT !.routes = new.routes, !.exit = new.exit] /\ tsConf' = new
    BY <1>1, <1>2 DEF TsKept
  <2>2. tsDaemon' \in TsDaemons /\ tsDaemon'.routes = new.routes /\ tsDaemon'.exit = new.exit
    BY <2>1 DEF TsInv, TsDaemons, TsSettings
  <2> QED BY <2>1, <2>2 DEF TsInv, TailscaleKeepsSettings
<1>3. CASE ~done
  <2>1. tsDaemon' = tsDaemon /\ tsConf' = tsConf
    BY <1>1, <1>3 DEF TsKept
  <2> QED BY <2>1 DEF TsInv, TailscaleKeepsSettings
<1> QED BY <1>2, <1>3

LEMMA TsInvStep == ASSUME TsInv, VpnNext \/ UNCHANGED vpnVars PROVE TsInv'
<1>1. CASE UNCHANGED <<tsConf, tsDaemon>>
  BY <1>1 DEF TsInv, TailscaleKeepsSettings
<1>2. CASE TsUp
  <2>1. tsConf' = tsConf
    BY <1>2 DEF TsUp
  <2>2. \/ tsDaemon' = tsDaemon
        \/ tsDaemon' = [tsDaemon EXCEPT !.up = TRUE, !.routes = tsConf.routes, !.exit = tsConf.exit]
    BY <1>2 DEF TsUp
  <2>3. CASE tsDaemon' = [tsDaemon EXCEPT !.up = TRUE, !.routes = tsConf.routes, !.exit = tsConf.exit]
    <3>1. tsDaemon' \in TsDaemons /\ tsDaemon'.routes = tsConf.routes /\ tsDaemon'.exit = tsConf.exit
      BY <2>3 DEF TsInv, TsDaemons, TsSettings
    <3> QED BY <2>1, <3>1 DEF TsInv, TailscaleKeepsSettings
  <2> QED BY <1>1, <2>1, <2>2, <2>3
<1>3. CASE TsDown
  <2>1. tsConf' = tsConf
    BY <1>3 DEF TsDown
  <2>2. tsDaemon' = tsDaemon \/ tsDaemon' = [tsDaemon EXCEPT !.up = FALSE]
    BY <1>3 DEF TsDown
  <2>3. CASE tsDaemon' = [tsDaemon EXCEPT !.up = FALSE]
    <3>1. tsDaemon' \in TsDaemons /\ ~tsDaemon'.up
      BY <2>3 DEF TsInv, TsDaemons
    <3> QED BY <2>1, <3>1 DEF TsInv, TailscaleKeepsSettings
  <2> QED BY <1>1, <2>1, <2>2, <2>3
<1>4. ASSUME NEW nets \in SUBSET WgNets, TsAdvertiseRoutes(nets) PROVE TsInv'
  <2>1. [tsConf EXCEPT !.routes = nets] \in TsSettings
    BY DEF TsInv, TsSettings
  <2> QED BY <1>4, <2>1, TsSetStep DEF TsAdvertiseRoutes
<1>5. ASSUME NEW on \in BOOLEAN, TsSetExitNode(on) PROVE TsInv'
  <2>1. [tsConf EXCEPT !.exit = on] \in TsSettings
    BY DEF TsInv, TsSettings
  <2> QED BY <1>5, <2>1, TsSetStep DEF TsSetExitNode
<1>6. CASE WgUp \/ WgDown \/ WgMonitor \/ WgTick \/ SetupTunnel \/ UNCHANGED vpnVars
  BY <1>1, <1>6 DEF WgUp, WgDown, WgMonitor, WgTick, SetupTunnel, vpnVars, tsVars
<1>7. CASE (\E p \in WgPeers : WgAddPeer(p)) \/ (\E k \in WgKeys : WgRemovePeer(k))
  BY <1>1, <1>7 DEF WgAddPeer, WgRemovePeer, tsVars
<1> QED BY <1>2, <1>3, <1>4, <1>5, <1>6, <1>7 DEF VpnNext

LEMMA VpnInitHolds == ASSUME VpnInit PROVE WgInv /\ TsInv
<1>1. WgInv
  <2>1. PICK p \in WgPeers, numbers \in SUBSET {0} : wgConf = [i \in numbers |-> p]
    BY DEF VpnInit
  <2>2. vpnCalls = 0 /\ wgDev = NoPeers /\ wgAsked = WgPeerKeys(wgConf)
    BY DEF VpnInit
  <2>3. DOMAIN wgConf \subseteq 0..vpnCalls
    BY <2>1, <2>2
  <2> QED BY <2>2, <2>3 DEF WgInv, RemovedPeerStaysOut, NoPeers
<1>2. TsInv
  <2>1. tsConf \in TsSettings
    BY DEF VpnInit, TsSettings
  <2>2. tsDaemon \in TsDaemons /\ ~tsDaemon.up
    BY DEF VpnInit, TsDaemons
  <2> QED BY <2>1, <2>2 DEF TsInv, TailscaleKeepsSettings
<1> QED BY <1>1, <1>2
-----------------------------------------------------------------------------
(* The DHCP client                                                         *)

DcFiles == [addr: DcAddrs, at: Nat, sound: BOOLEAN]
DcStates == {"load", "request", "sleep", "retry", "ended"}
DcLoopTypes == [at: DcStates, addr: SUBSET DcAddrs, end: Nat, wake: Nat, sound: BOOLEAN]

DcTypes ==
    /\ dcNow \in Nat /\ dcFailures \in Nat
    /\ dcFile \in SUBSET DcFiles /\ \A f \in dcFile : f.at <= dcNow
    /\ \E n \in Nat : dcLoops \in [1..n -> DcLoopTypes] /\ dcPanics \in [1..n -> {0, 1}]

\* While the server answers, a loop that sleeps wakes before its lease ends.
DcInTime(loop, time, failures) ==
    (loop.at = "sleep" /\ failures = 0) => (time < loop.end /\ loop.wake < loop.end)

\* After a panic of a loop no bad lease is left that it could meet: not in the
\* file, and not in the loop.
DcOver(loop, panics, file) ==
    panics = 1 => /\ \A f \in file : f.sound
                  /\ loop.at = "sleep" => loop.sound

DcInv ==
    /\ DcTypes
    /\ \A l \in DOMAIN dcLoops : DcInTime(dcLoops[l], dcNow, dcFailures)
    /\ \A l \in DOMAIN dcLoops : DcOver(dcLoops[l], dcPanics[l], dcFile)

LEMMA DcIdleType ==
    ASSUME NEW at \in DcStates \ {"sleep"}, NEW wake \in Nat
    PROVE  DcIdle(at, wake) \in DcLoopTypes /\ DcIdle(at, wake).at # "sleep"
BY DEF DcIdle, DcLoopTypes, DcStates

\* A loop sleeps until a time before the end of its lease.
LEMMA DcWakes ==
    ASSUME dcNow \in Nat
    PROVE  /\ DcWake(FALSE, 0) = dcNow + DcT1
           /\ \A at \in Nat : at <= dcNow /\ dcNow - at < DcLease =>
                 /\ DcWake(TRUE, at) \in Nat /\ DcWake(TRUE, at) < at + DcLease
BY DcAssumption DEF DcWake

\* What a step of one loop must establish: what it says of that loop.
LEMMA DcLoopStep ==
    ASSUME DcInv, NEW l \in DOMAIN dcLoops, NEW new \in DcLoopTypes, NEW panics \in {0, 1},
           dcNow' = dcNow, dcFailures' \in Nat, dcFailures' >= dcFailures,
           dcFile' \in SUBSET DcFiles, \A f \in dcFile' : f.at <= dcNow /\ (f.sound \/ f \in dcFile),
           dcLoops' = [dcLoops EXCEPT ![l] = new], dcPanics' = [dcPanics EXCEPT ![l] = panics],
           DcInTime(new, dcNow, dcFailures'), DcOver(new, panics, dcFile')
    PROVE  DcInv'
<1>1. PICK n \in Nat : dcLoops \in [1..n -> DcLoopTypes] /\ dcPanics \in [1..n -> {0, 1}]
  BY DEF DcInv, DcTypes
<1>2. dcLoops' \in [1..n -> DcLoopTypes] /\ dcPanics' \in [1..n -> {0, 1}]
  BY <1>1
<1>3. DcTypes'
  BY <1>2 DEF DcInv, DcTypes
<1>4. /\ dcLoops'[l] = new /\ dcPanics'[l] = panics
      /\ \A k \in DOMAIN dcLoops' : k # l =>
            k \in DOMAIN dcLoops /\ dcLoops'[k] = dcLoops[k] /\ dcPanics'[k] = dcPanics[k]
  BY <1>1
<1>5. \A k \in DOMAIN dcLoops' : DcInTime(dcLoops'[k], dcNow', dcFailures')
  <2>1. dcFailures' = 0 => dcFailures = 0
    BY DEF DcInv, DcTypes
  <2> QED BY <1>4, <2>1 DEF DcInv, DcInTime
<1>6. \A k \in DOMAIN dcLoops' : DcOver(dcLoops'[k], dcPanics'[k], dcFile')
  BY <1>4 DEF DcInv, DcOver
<1> QED BY <1>3, <1>5, <1>6 DEF DcInv

\* The loop of a step, before it.
LEMMA DcLoopBefore ==
    ASSUME DcInv, NEW l \in DOMAIN dcLoops
    PROVE  /\ dcLoops[l] \in DcLoopTypes /\ dcPanics[l] \in {0, 1}
           /\ dcPanics = [dcPanics EXCEPT ![l] = dcPanics[l]]
           /\ DcInTime(dcLoops[l], dcNow, dcFailures) /\ DcOver(dcLoops[l], dcPanics[l], dcFile)
           /\ dcNow \in Nat /\ dcFailures \in Nat
BY DEF DcInv, DcTypes

\* A loop that does not sleep afterwards.
LEMMA DcAwakeStep ==
    ASSUME DcInv, NEW l \in DOMAIN dcLoops, NEW new \in DcLoopTypes, new.at # "sleep",
           dcNow' = dcNow, dcFailures' \in Nat, dcFailures' >= dcFailures, dcFile' = dcFile,
           dcLoops' = [dcLoops EXCEPT ![l] = new], dcPanics' = dcPanics
    PROVE  DcInv'
<1>1. DcInTime(new, dcNow, dcFailures')
  BY DEF DcInTime
<1>2. DcOver(new, dcPanics[l], dcFile')
  BY DcLoopBefore DEF DcOver
<1>3. dcFile' \in SUBSET DcFiles /\ \A f \in dcFile' : f.at <= dcNow /\ (f.sound \/ f \in dcFile)
  BY DEF DcInv, DcTypes
<1>4. dcPanics' = [dcPanics EXCEPT ![l] = dcPanics[l]] /\ dcPanics[l] \in {0, 1}
  BY DcLoopBefore
<1> QED BY <1>1, <1>2, <1>3, <1>4, DcLoopStep

LEMMA DcLoadStep == ASSUME DcInv, NEW l \in DOMAIN dcLoops, DcLoad(l) PROVE DcInv'
<1>1. UNCHANGED <<dcNow, dcFile, dcFailures, dcPanics>> /\ dcLoops[l].at = "load"
  BY DEF DcLoad
<1>2. ASSUME NEW f \in dcFile, dcNow - f.at < DcLease,
             dcLoops' = [dcLoops EXCEPT
                 ![l] = DcSleeping(f.addr, f.at + DcLease, DcWake(TRUE, f.at), f.sound)]
      PROVE  DcInv'
  <2>1. PICK new : new = DcSleeping(f.addr, f.at + DcLease, DcWake(TRUE, f.at), f.sound)
    OBVIOUS
  <2>2. f.addr \in DcAddrs /\ f.at \in Nat /\ f.sound \in BOOLEAN /\ f.at <= dcNow
    BY DEF DcInv, DcTypes, DcFiles
  <2>3. DcWake(TRUE, f.at) \in Nat /\ DcWake(TRUE, f.at) < f.at + DcLease
    BY <1>2, <2>2, DcWakes, DcLoopBefore
  <2>4. f.at + DcLease \in Nat /\ dcNow < f.at + DcLease
    BY <1>2, <2>2, DcAssumption, DcLoopBefore
  <2>5. /\ new \in DcLoopTypes /\ new.at = "sleep" /\ new.end = f.at + DcLease
        /\ new.wake = DcWake(TRUE, f.at) /\ new.sound = f.sound
    BY <2>1, <2>2, <2>3, <2>4 DEF DcSleeping, DcLoopTypes, DcStates
  <2>6. DcInTime(new, dcNow, dcFailures')
    BY <2>3, <2>4, <2>5 DEF DcInTime
  <2>7. DcOver(new, dcPanics[l], dcFile')
    BY <1>1, <2>5, DcLoopBefore DEF DcOver
  <2>8. dcFile' \in SUBSET DcFiles /\ \A g \in dcFile' : g.at <= dcNow /\ (g.sound \/ g \in dcFile)
    BY <1>1 DEF DcInv, DcTypes
  <2>9. /\ dcPanics' = [dcPanics EXCEPT ![l] = dcPanics[l]] /\ dcPanics[l] \in {0, 1}
        /\ dcFailures' \in Nat /\ dcFailures' >= dcFailures
    BY <1>1, DcLoopBefore
  <2>10. dcLoops' = [dcLoops EXCEPT ![l] = new]
    BY <1>2, <2>1
  <2> QED BY <1>1, <2>5, <2>6, <2>7, <2>8, <2>9, <2>10, DcLoopStep
<1>3. ASSUME dcLoops' = [dcLoops EXCEPT ![l].at = "request", ![l].addr = {f.addr : f \in dcFile}]
      PROVE  DcInv'
  <2>1. PICK new : new = [dcLoops[l] EXCEPT !.at = "request", !.addr = {f.addr : f \in dcFile}]
    OBVIOUS
  <2>2. {f.addr : f \in dcFile} \in SUBSET DcAddrs
    BY DEF DcInv, DcTypes, DcFiles
  <2>3. new \in DcLoopTypes /\ new.at = "request"
    BY <2>1, <2>2, DcLoopBefore DEF DcLoopTypes, DcStates
  <2>4. dcLoops' = [dcLoops EXCEPT ![l] = new]
    BY <1>3, <2>1
  <2>5. dcFailures' \in Nat /\ dcFailures' >= dcFailures /\ new.at # "sleep"
    BY <1>1, <2>3, DcLoopBefore
  <2> QED BY <1>1, <2>3, <2>4, <2>5, DcAwakeStep
<1> QED BY <1>2, <1>3 DEF DcLoad

\* A fresh lease, with which the loop sleeps.
LEMMA DcFreshStep ==
    ASSUME DcInv, NEW l \in DOMAIN dcLoops, NEW addr \in DcAddrs,
           NEW wake \in {dcNow, dcNow + DcT1},
           UNCHANGED <<dcNow, dcFailures, dcPanics>>,
           dcFile' = {[addr |-> addr, at |-> dcNow, sound |-> TRUE]},
           dcLoops' = [dcLoops EXCEPT ![l] = DcSleeping(addr, dcNow + DcLease, wake, TRUE)]
    PROVE  DcInv'
<1>1. PICK new : new = DcSleeping(addr, dcNow + DcLease, wake, TRUE)
  OBVIOUS
<1>2. /\ wake \in Nat /\ wake < dcNow + DcLease /\ dcNow < dcNow + DcLease
      /\ dcNow + DcLease \in Nat
  BY DcAssumption, DcLoopBefore
<1>3. new \in DcLoopTypes /\ new.at = "sleep" /\ new.end = dcNow + DcLease /\ new.wake = wake /\ new.sound
  BY <1>1, <1>2 DEF DcSleeping, DcLoopTypes, DcStates
<1>4. DcInTime(new, dcNow, dcFailures')
  BY <1>2, <1>3 DEF DcInTime
<1>5. dcFile' \in SUBSET DcFiles
  BY DcLoopBefore DEF DcFiles
<1>6. \A f \in dcFile' : f.at <= dcNow /\ f.sound
  BY DcLoopBefore
<1>7. DcOver(new, dcPanics[l], dcFile')
  BY <1>3, <1>6 DEF DcOver
<1>8. /\ dcPanics' = [dcPanics EXCEPT ![l] = dcPanics[l]] /\ dcPanics[l] \in {0, 1}
      /\ dcFailures' \in Nat /\ dcFailures' >= dcFailures
  BY DcLoopBefore
<1> QED BY <1>1, <1>3, <1>4, <1>5, <1>6, <1>7, <1>8, DcLoopStep

LEMMA DcRenewFailsStep == ASSUME DcInv, NEW l \in DOMAIN dcLoops, DcRenewFails(l) PROVE DcInv'
<1>1. /\ UNCHANGED <<dcNow, dcFile, dcPanics>> /\ dcFailures' = dcFailures + 1
      /\ dcLoops' = [dcLoops EXCEPT ![l].wake = dcNow + DcDelay + DcT1]
  BY DEF DcRenewFails
<1>2. PICK new : new = [dcLoops[l] EXCEPT !.wake = dcNow + DcDelay + DcT1]
  OBVIOUS
<1>3. dcNow + DcDelay + DcT1 \in Nat
  BY DcAssumption, DcLoopBefore
<1>4. new \in DcLoopTypes /\ new.at = dcLoops[l].at /\ new.sound = dcLoops[l].sound
  BY <1>2, <1>3, DcLoopBefore DEF DcLoopTypes
<1>5. dcFailures' \in Nat /\ dcFailures' > 0 /\ dcFailures' >= dcFailures
  BY <1>1, DcLoopBefore
<1>6. DcInTime(new, dcNow, dcFailures')
  BY <1>5 DEF DcInTime
<1>7. DcOver(new, dcPanics[l], dcFile')
  BY <1>1, <1>4, DcLoopBefore DEF DcOver
<1>8. dcFile' \in SUBSET DcFiles /\ \A g \in dcFile' : g.at <= dcNow /\ (g.sound \/ g \in dcFile)
  BY <1>1 DEF DcInv, DcTypes
<1>9. dcPanics' = [dcPanics EXCEPT ![l] = dcPanics[l]] /\ dcPanics[l] \in {0, 1}
  BY <1>1, DcLoopBefore
<1>10. dcLoops' = [dcLoops EXCEPT ![l] = new]
  BY <1>1, <1>2
<1> QED BY <1>1, <1>4, <1>5, <1>6, <1>7, <1>8, <1>9, <1>10, DcLoopStep

\* A loop that panics had not before: it would not have met a bad lease.
LEMMA DcPanicStep == ASSUME DcInv, NEW l \in DOMAIN dcLoops, DcPanic(l) PROVE DcInv'
<1>1. /\ UNCHANGED <<dcNow, dcFailures>> /\ dcFile' = {}
      /\ dcLoops[l].at = "sleep" /\ ~dcLoops[l].sound
      /\ dcLoops' = [dcLoops EXCEPT ![l] = DcIdle("load", dcNow + DcDelay)]
      /\ dcPanics' = [dcPanics EXCEPT ![l] = @ + 1]
  BY DEF DcPanic, DcWoken, DcFileAfterPanic
<1>2. PICK new : new = DcIdle("load", dcNow + DcDelay)
  OBVIOUS
<1>3. dcNow + DcDelay \in Nat
  BY DcAssumption, DcLoopBefore
<1>4. new \in DcLoopTypes /\ new.at # "sleep"
  BY <1>2, <1>3, DcIdleType DEF DcStates
<1>5. dcPanics[l] = 0
  BY <1>1, DcLoopBefore DEF DcOver
<1>6. dcPanics' = [dcPanics EXCEPT ![l] = 1]
  BY <1>1, <1>5
<1>7. DcInTime(new, dcNow, dcFailures') /\ DcOver(new, 1, dcFile')
  BY <1>1, <1>4 DEF DcInTime, DcOver
<1>8. dcFailures' \in Nat /\ dcFailures' >= dcFailures
  BY <1>1, DcLoopBefore
<1>9. dcLoops' = [dcLoops EXCEPT ![l] = new]
  BY <1>1, <1>2
<1> QED BY <1>1, <1>4, <1>6, <1>7, <1>8, <1>9, DcLoopStep

LEMMA DcStartStep == ASSUME DcInv, DcStart PROVE DcInv'
<1>1. PICK n \in Nat : dcLoops \in [1..n -> DcLoopTypes] /\ dcPanics \in [1..n -> {0, 1}]
  BY DEF DcInv, DcTypes
<1>2. Cardinality(DOMAIN dcLoops) = n
  BY <1>1, FS_Interval
<1>3. /\ UNCHANGED <<dcNow, dcFile, dcFailures>>
      /\ dcLoops' = [i \in 1..(n + 1) |-> IF i = n + 1 THEN DcIdle("load", dcNow) ELSE dcLoops[i]]
      /\ dcPanics' = [i \in 1..(n + 1) |-> IF i = n + 1 THEN 0 ELSE dcPanics[i]]
  BY <1>2 DEF DcStart
<1>4. DcIdle("load", dcNow) \in DcLoopTypes /\ DcIdle("load", dcNow).at # "sleep"
  BY DcIdleType DEF DcInv, DcTypes, DcStates
<1>5. \A i \in 1..(n + 1) : i # n + 1 => i \in 1..n
  OBVIOUS
<1>6. n + 1 \in Nat /\ dcLoops' \in [1..(n + 1) -> DcLoopTypes] /\ dcPanics' \in [1..(n + 1) -> {0, 1}]
  BY <1>1, <1>3, <1>4, <1>5
<1>7. DcTypes'
  BY <1>3, <1>6 DEF DcInv, DcTypes
<1>8. ASSUME NEW i \in 1..(n + 1)
      PROVE  DcInTime(dcLoops'[i], dcNow', dcFailures') /\ DcOver(dcLoops'[i], dcPanics'[i], dcFile')
  <2>1. CASE i = n + 1
    <3>1. dcLoops'[i] = DcIdle("load", dcNow) /\ dcPanics'[i] = 0
      BY <1>3, <2>1
    <3> QED BY <1>4, <3>1 DEF DcInTime, DcOver
  <2>2. CASE i # n + 1
    <3>1. i \in DOMAIN dcLoops /\ dcLoops'[i] = dcLoops[i] /\ dcPanics'[i] = dcPanics[i]
      BY <1>1, <1>3, <1>5, <2>2
    <3> QED BY <1>3, <3>1 DEF DcInv
  <2> QED BY <2>1, <2>2
<1>9. DOMAIN dcLoops' = 1..(n + 1)
  BY <1>3
<1> QED BY <1>7, <1>8, <1>9 DEF DcInv
\* The process had no loop, or has none any more.
LEMMA DcNoLoops ==
    ASSUME dcNow \in Nat, dcFailures \in Nat, dcFile \in SUBSET DcFiles, \A f \in dcFile : f.at <= dcNow,
           dcLoops = << >>, dcPanics = << >>
    PROVE  DcInv
<1>1. DOMAIN << >> = {} /\ 1..0 = {}
  OBVIOUS
<1>2. << >> \in [1..0 -> DcLoopTypes] /\ << >> \in [1..0 -> {0, 1}]
  BY <1>1
<1>3. DcTypes
  BY <1>2 DEF DcTypes
<1> QED BY <1>1, <1>3 DEF DcInv

LEMMA DcTickStep == ASSUME DcInv, DcTick PROVE DcInv'
<1>1. /\ UNCHANGED <<dcFile, dcLoops, dcFailures, dcPanics>> /\ dcNow' = dcNow + 1
      /\ \A l \in DOMAIN dcLoops : dcLoops[l].at # "ended" => dcLoops[l].wake > dcNow
  BY DEF DcTick
<1>2. DcTypes'
  <2>1. dcNow' \in Nat /\ \A f \in dcFile : f.at <= dcNow'
    BY <1>1 DEF DcInv, DcTypes, DcFiles
  <2> QED BY <1>1, <2>1 DEF DcInv, DcTypes
<1>3. ASSUME NEW l \in DOMAIN dcLoops PROVE DcInTime(dcLoops[l], dcNow', dcFailures)
  <2>1. dcLoops[l].wake \in Nat /\ dcLoops[l].end \in Nat
    BY DcLoopBefore DEF DcLoopTypes
  <2> QED BY <1>1, <2>1, DcLoopBefore DEF DcInTime
<1> QED BY <1>1, <1>2, <1>3 DEF DcInv

LEMMA DcInvStep == ASSUME DcInv, DcNext \/ UNCHANGED dcVars PROVE DcInv'
<1>1. CASE UNCHANGED dcVars
  BY <1>1 DEF dcVars, DcInv, DcTypes
<1>2. CASE DcRestart
  BY <1>2, DcNoLoops DEF DcRestart, DcInv, DcTypes
<1>3. ASSUME NEW l \in DOMAIN dcLoops, DcRefuse(l) PROVE DcInv'
  <2>1. /\ UNCHANGED <<dcNow, dcFile, dcPanics>> /\ dcFailures' = dcFailures + 1
        /\ dcLoops' = [dcLoops EXCEPT ![l] = DcIdle("retry", dcNow + DcDelay)]
    BY <1>3 DEF DcRefuse
  <2>2. dcNow + DcDelay \in Nat /\ dcFailures' \in Nat /\ dcFailures' >= dcFailures
    BY <2>1, DcAssumption, DcLoopBefore
  <2>3. DcIdle("retry", dcNow + DcDelay) \in DcLoopTypes /\ DcIdle("retry", dcNow + DcDelay).at # "sleep"
    BY <2>2 DEF DcIdle, DcLoopTypes, DcStates
  <2> QED BY <2>1, <2>2, <2>3, DcAwakeStep
<1>4. ASSUME NEW l \in DOMAIN dcLoops, NEW a \in DcAddrs, DcRetry(l, a) PROVE DcInv'
  <2>1. UNCHANGED <<dcNow, dcFile, dcFailures, dcPanics>> /\ dcLoops[l].at = "retry"
    BY <1>4 DEF DcRetry
  <2>2. \/ dcLoops' = [dcLoops EXCEPT ![l] = DcIdle("ended", 0)]
        \/ dcLoops' = [dcLoops EXCEPT ![l].wake = dcNow + DcDelay]
    BY <1>4 DEF DcRetry
  <2>3. PICK new : /\ dcLoops' = [dcLoops EXCEPT ![l] = new]
                   /\ \/ new = DcIdle("ended", 0)
                      \/ new = [dcLoops[l] EXCEPT !.wake = dcNow + DcDelay]
    BY <2>2
  <2>4. dcNow + DcDelay \in Nat /\ dcFailures' \in Nat /\ dcFailures' >= dcFailures
    BY <2>1, DcAssumption, DcLoopBefore
  <2>5. CASE new = DcIdle("ended", 0)
    <3>1. new \in DcLoopTypes /\ new.at # "sleep"
      BY <2>5 DEF DcIdle, DcLoopTypes, DcStates
    <3> QED BY <2>1, <2>3, <2>4, <3>1, DcAwakeStep
  <2>6. CASE new = [dcLoops[l] EXCEPT !.wake = dcNow + DcDelay]
    <3>1. new \in DcLoopTypes /\ new.at # "sleep"
      BY <2>1, <2>4, <2>6, DcLoopBefore DEF DcLoopTypes
    <3> QED BY <2>1, <2>3, <2>4, <3>1, DcAwakeStep
  <2> QED BY <2>3, <2>5, <2>6
<1>5. ASSUME NEW l \in DOMAIN dcLoops, NEW a \in DcAddrs, DcGrant(l, a) PROVE DcInv'
  <2>1. PICK wake : wake = IF dcLoops[l].addr = {} THEN DcWake(FALSE, 0) ELSE dcNow
    OBVIOUS
  <2>2. wake \in {dcNow, dcNow + DcT1}
    BY <2>1, DcWakes, DcLoopBefore
  <2>3. /\ UNCHANGED <<dcNow, dcFailures, dcPanics>>
        /\ dcFile' = {[addr |-> a, at |-> dcNow, sound |-> TRUE]}
        /\ dcLoops' = [dcLoops EXCEPT ![l] = DcSleeping(a, dcNow + DcLease, wake, TRUE)]
    BY <1>5, <2>1 DEF DcGrant
  <2> QED BY <2>2, <2>3, DcFreshStep
<1>6. ASSUME NEW l \in DOMAIN dcLoops, NEW a \in DcAddrs, DcRenew(l, a) PROVE DcInv'
  <2>1. DcWake(FALSE, 0) = dcNow + DcT1
    BY DcWakes, DcLoopBefore
  <2>2. /\ UNCHANGED <<dcNow, dcFailures, dcPanics>>
        /\ dcFile' = {[addr |-> a, at |-> dcNow, sound |-> TRUE]}
        /\ dcLoops' = [dcLoops EXCEPT ![l] = DcSleeping(a, dcNow + DcLease, dcNow + DcT1, TRUE)]
    BY <1>6, <2>1 DEF DcRenew
  <2> QED BY <2>2, DcFreshStep
<1> QED BY <1>1, <1>2, <1>3, <1>4, <1>5, <1>6, DcStartStep, DcTickStep, DcLoadStep,
           DcRenewFailsStep, DcPanicStep DEF DcNext

LEMMA DcInitHolds == ASSUME DcInit PROVE DcInv
<1>1. dcFile \in SUBSET DcFiles /\ \A f \in dcFile : f.at <= dcNow
  BY DEF DcInit, DcFiles
<1> QED BY <1>1, DcNoLoops DEF DcInit

LEMMA DcInvSuffices == DcInv => RenewedInTime /\ NoPanicLoop
<1> SUFFICES ASSUME DcInv PROVE RenewedInTime /\ NoPanicLoop
  OBVIOUS
<1>1. RenewedInTime
  BY DEF DcInv, DcInTime, RenewedInTime
<1>2. NoPanicLoop
  BY DEF DcInv, DcTypes, NoPanicLoop
<1> QED BY <1>1, <1>2

-----------------------------------------------------------------------------
(* The links together                                                      *)

LinksInv == WgInv /\ TsInv /\ DcInv

LEMMA LinksStep == ASSUME LinksInv, [Next]_vars PROVE LinksInv'
<1>1. VpnNext \/ UNCHANGED vpnVars
  BY DEF Next, Rest, vars
<1>2. DcNext \/ UNCHANGED dcVars
  BY DEF Next, Rest, vars
<1> QED BY <1>1, <1>2, WgInvStep, TsInvStep, DcInvStep DEF LinksInv

\* Whatever the order of calls and whichever of their steps fail, a removed
\* peer stays out of the device and of what the next Up installs
\* (WireGuardManager.RemovePeer), and Tailscale's settings are those in force;
\* for any lease times, a lease is renewed before it ends while the server
\* answers, and a bad lease file makes a loop of the client panic at most once
\* (runDHCPClientLoop).
THEOREM LinksHold == Spec => []LinksKept
<1>1. Init => LinksInv
  BY VpnInitHolds, DcInitHolds DEF Init, LinksInv
<1>2. LinksInv /\ [Next]_vars => LinksInv'
  BY LinksStep
<1>3. LinksInv => LinksKept
  BY DcInvSuffices DEF LinksInv, LinksKept, WgInv, TsInv
<1> QED BY <1>1, <1>2, <1>3, PTL DEF Spec

-----------------------------------------------------------------------------
(* Policy routing                                                          *)

PrKernelRules == [prio: Nat, mark: Nat, mask: BOOLEAN, table: Nat]
PrJobs == [by: {"start", "reload"}, phase: 1..4, n: Nat \ {0}, ok: BOOLEAN]
PolicyCommands(cfg) == RouteCommands(cfg) \o RuleCommands(cfg)
PrCommandTypes ==
    [kind: {"route"}, it: PrRoutes] \cup [kind: {"rule"}, it: PrRules]

PrTypes ==
    /\ prConfig \in PrConfigs /\ prJob \in PrJobs
    /\ prRules \in Seq(PrKernelRules) /\ prKnown \in Seq(PrRules)

\* The commands given before the n-th had their effect.
PrHad(routes, rules, c) ==
    /\ c.kind = "route" => c.it \in routes
    /\ c.kind = "rule" => (c.it.enabled => KernelRule(c.it) \in ToSet(rules))
PrHadBefore(routes, rules, cmds, n) ==
    \A i \in DOMAIN cmds : i < n => PrHad(routes, rules, cmds[i])
PrHadAll(routes, rules, cmds) == \A i \in DOMAIN cmds : PrHad(routes, rules, cmds[i])

\* How far applying a configuration has come without error.
PrSoFar(routes, rules, cfg, job) ==
    /\ job.phase = 2 => PrHadBefore(routes, rules, PolicyCommands(cfg), job.n)
    /\ job.phase \in 3..4 => PrHadAll(routes, rules, PolicyCommands(cfg))
    /\ job.phase = 3 => PrHadBefore(routes, rules, WanCommands(cfg), job.n)
    /\ (job.phase = 4 /\ job.by = "reload") => PrHadAll(routes, rules, WanCommands(cfg))

PrInv == PrTypes /\ (prJob.ok => PrSoFar(prRoutes, prRules, prConfig, prJob))

LEMMA PrPhaseAt ==
    ASSUME prJob \in PrJobs
    PROVE  /\ PrAt = "delete" <=> prJob.phase = 1
           /\ PrAt = "policy" <=> prJob.phase = 2
           /\ PrAt = "wans" <=> prJob.phase = 3
           /\ PrAt = "done" <=> prJob.phase = 4
<1>1. /\ PrPhases[1] = "delete" /\ PrPhases[2] = "policy"
      /\ PrPhases[3] = "wans" /\ PrPhases[4] = "done"
  BY DEF PrPhases
<1>2. prJob.phase \in 1..4
  BY DEF PrJobs
<1> QED BY <1>1, <1>2 DEF PrAt

LEMMA PrCommandsOf ==
    ASSUME PrTypes
    PROVE  /\ prJob.phase = 2 => PrCommands = PolicyCommands(prConfig)
           /\ prJob.phase = 3 => PrCommands = WanCommands(prConfig)
           /\ prJob.phase \notin 2..3 => PrCommands = << >>
<1>1. prJob \in PrJobs /\ prJob.phase \in 1..4
  BY DEF PrTypes, PrJobs
<1> QED BY <1>1, PrPhaseAt DEF PrCommands, PolicyCommands

LEMMA ListOf ==
    ASSUME NEW S, NEW n \in Nat, NEW f, f \in [1..n -> S]
    PROVE  f \in Seq(S) /\ Len(f) = n
OBVIOUS

\* The commands for a configuration.
LEMMA PolicyCommandsOf ==
    ASSUME NEW cfg \in PrConfigs
    PROVE  /\ PolicyCommands(cfg) \in Seq(PrCommandTypes)
           /\ WanCommands(cfg) \in Seq(PrCommandTypes)
           /\ \A i \in DOMAIN cfg.routes :
                 i \in DOMAIN PolicyCommands(cfg) /\ PolicyCommands(cfg)[i] = RouteCommands(cfg)[i]
           /\ \A i \in DOMAIN cfg.rules :
                 \E j \in DOMAIN PolicyCommands(cfg) : PolicyCommands(cfg)[j] = RuleCommands(cfg)[i]
<1>1. cfg.routes \in Seq(PrRoutes) /\ cfg.rules \in Seq(PrRules) /\ cfg.wans \in Nat
  BY PrAssumption
<1>2. RouteCommands(cfg) \in Seq(PrCommandTypes) /\ Len(RouteCommands(cfg)) = Len(cfg.routes)
  <2>1. \A i \in 1..Len(cfg.routes) : [kind |-> "route", it |-> cfg.routes[i]] \in PrCommandTypes
    BY <1>1 DEF PrCommandTypes
  <2> QED BY <1>1, <2>1 DEF RouteCommands
<1>3. RuleCommands(cfg) \in Seq(PrCommandTypes) /\ Len(RuleCommands(cfg)) = Len(cfg.rules)
  <2>1. ASSUME NEW r \in PrRules PROVE [r EXCEPT !.prio = 20000] \in PrRules
    BY DEF PrRules
  <2>2. \A i \in 1..Len(cfg.rules) :
          [kind |-> "rule", it |-> IF cfg.rules[i].prio = 0 THEN [cfg.rules[i] EXCEPT !.prio = 20000]
                                   ELSE cfg.rules[i]] \in PrCommandTypes
    BY <1>1, <2>1 DEF PrCommandTypes
  <2>3. RuleCommands(cfg) \in [1..Len(cfg.rules) -> PrCommandTypes]
    BY <1>1, <2>2 DEF RuleCommands
  <2>4. Len(cfg.rules) \in Nat
    BY <1>1
  <2> QED BY <2>3, <2>4, ListOf
<1>4. WanCommands(cfg) \in Seq(PrCommandTypes)
  <2>1. ASSUME NEW n \in 1..2 * cfg.wans PROVE WanCommands(cfg)[n] \in PrCommandTypes
    <3>1. PICK i \in Nat \ {0} : i = (n + 1) \div 2
      BY <1>1, <2>1
    <3>2. WanTable(i) \in Nat /\ WanMark(i) \in Nat /\ 100 + i - 1 \in Nat
      BY <3>1 DEF WanTable, WanMark
    <3>3. [table |-> WanTable(i), dest |-> "default", gw |-> i] \in PrRoutes
      <4>1. "default" \in PrDests
        BY PrAssumption
      <4> QED BY <3>2, <4>1 DEF PrRoutes
    <3>4. [prio |-> 100 + i - 1, mark |-> WanMark(i), mask |-> FALSE,
           table |-> WanTable(i), enabled |-> TRUE] \in PrRules
      BY <3>2 DEF PrRules
    <3> QED BY <3>1, <3>3, <3>4 DEF WanCommands, PrCommandTypes
  <2>2. DOMAIN WanCommands(cfg) = 1..2 * cfg.wans /\ 2 * cfg.wans \in Nat
    BY <1>1 DEF WanCommands
  <2>3. WanCommands(cfg) = [n \in 1..2 * cfg.wans |-> WanCommands(cfg)[n]]
    BY DEF WanCommands
  <2>4. WanCommands(cfg) \in [1..2 * cfg.wans -> PrCommandTypes]
    BY <2>1, <2>3
  <2> QED BY <2>2, <2>4, ListOf
<1>5. \A i \in DOMAIN cfg.routes :
        i \in DOMAIN PolicyCommands(cfg) /\ PolicyCommands(cfg)[i] = RouteCommands(cfg)[i]
  BY <1>1, <1>2, <1>3 DEF PolicyCommands
<1>6. ASSUME NEW i \in DOMAIN cfg.rules
      PROVE  \E j \in DOMAIN PolicyCommands(cfg) : PolicyCommands(cfg)[j] = RuleCommands(cfg)[i]
  <2>1. Len(cfg.routes) + i \in DOMAIN PolicyCommands(cfg)
    BY <1>1, <1>2, <1>3 DEF PolicyCommands
  <2>2. PolicyCommands(cfg)[Len(cfg.routes) + i] = RuleCommands(cfg)[i]
    BY <1>1, <1>2, <1>3 DEF PolicyCommands
  <2> QED BY <2>1, <2>2
<1> QED BY <1>2, <1>3, <1>4, <1>5, <1>6 DEF PolicyCommands

LEMMA PrDeleteRuleType ==
    ASSUME NEW list \in Seq(PrKernelRules), NEW r
    PROVE  DeleteRule(list, r) \in Seq(PrKernelRules)
<1> DEFINE found == {i \in DOMAIN list : Matches(list[i], r)}
<1>1. CASE found = {}
  BY <1>1 DEF DeleteRule
<1>2. CASE found # {}
  <2>1. found \subseteq Nat
    OBVIOUS
  <2>2. \E i \in found : \A j \in found : i <= j
    <3> HIDE DEF found
    <3> QED BY <1>2, <2>1, Least
  <2>3. Min(found) \in found
    <3> HIDE DEF found
    <3> QED BY <2>2 DEF Min
  <2>4. PICK m \in DOMAIN list : m = Min(found)
    BY <2>3
  <2>5. /\ SubSeq(list, 1, m - 1) \in Seq(PrKernelRules)
        /\ SubSeq(list, m + 1, Len(list)) \in Seq(PrKernelRules)
    <3>1. m \in 1..Len(list)
      BY <2>4
    <3>2. \A i \in 1..(m - 1) : list[i] \in PrKernelRules
      BY <3>1
    <3>3. \A i \in (m + 1)..Len(list) : list[i] \in PrKernelRules
      BY <3>1
    <3> QED BY <3>1, <3>2, <3>3, SubSeqProperties
  <2>6. DeleteRule(list, r) = RemoveAt(list, m)
    BY <1>2, <2>4 DEF DeleteRule
  <2> QED BY <2>5, <2>6 DEF RemoveAt
<1> QED BY <1>1, <1>2

\* What was in the kernel stays there while rules and routes are only added.
LEMMA PrMore ==
    ASSUME NEW routes, NEW moreRoutes, routes \subseteq moreRoutes,
           NEW list, NEW longer, ToSet(list) \subseteq ToSet(longer)
    PROVE  \A c : PrHad(routes, list, c) => PrHad(moreRoutes, longer, c)
BY DEF PrHad

LEMMA PrGoesOn ==
    ASSUME prJob \in PrJobs, PrGoOn
    PROVE  /\ prJob' \in PrJobs /\ prJob'.by = prJob.by /\ prJob'.phase = prJob.phase
           /\ prJob'.n = prJob.n + 1 /\ prJob'.ok = prJob.ok
<1>1. prJob' = [prJob EXCEPT !.n = prJob.n + 1]
  BY DEF PrGoOn
<1>2. prJob.n + 1 \in Nat \ {0}
  BY DEF PrJobs
<1> QED BY <1>1, <1>2 DEF PrJobs

LEMMA PrToNextPhase ==
    ASSUME prJob \in PrJobs, prJob.phase \in 1..3, NEW good \in BOOLEAN, PrNextPhase(good)
    PROVE  /\ prJob' \in PrJobs /\ prJob'.by = prJob.by /\ prJob'.n = 1
           /\ prJob'.ok <=> (prJob.ok /\ good)
           /\ prJob'.phase = IF prJob.by = "start" /\ prJob.phase = 2 THEN 4 ELSE prJob.phase + 1
<1>1. PICK phase : phase = IF prJob.by = "start" /\ PrPhases[prJob.phase + 1] = "wans"
                           THEN prJob.phase + 2 ELSE prJob.phase + 1
  OBVIOUS
<1>2. PICK ok : ok = (prJob.ok /\ good)
  OBVIOUS
<1>3. prJob' = [prJob EXCEPT !.phase = phase, !.n = 1, !.ok = ok]
  BY <1>1, <1>2 DEF PrNextPhase
<1>4. /\ PrPhases[2] = "policy" /\ PrPhases[3] = "wans" /\ PrPhases[4] = "done"
  BY DEF PrPhases
<1>5. phase = IF prJob.by = "start" /\ prJob.phase = 2 THEN 4 ELSE prJob.phase + 1
  BY <1>1, <1>4
<1>6. phase \in 1..4
  BY <1>5
<1>7. ok \in BOOLEAN /\ (ok <=> (prJob.ok /\ good))
  BY <1>2 DEF PrJobs
<1>8. /\ prJob' \in PrJobs /\ prJob'.by = prJob.by /\ prJob'.n = 1
      /\ prJob'.phase = phase /\ prJob'.ok = ok
  <2>1. prJob = [by |-> prJob.by, phase |-> prJob.phase, n |-> prJob.n, ok |-> prJob.ok]
    BY DEF PrJobs
  <2>2. prJob' = [by |-> prJob.by, phase |-> phase, n |-> 1, ok |-> ok]
    BY <1>3, <2>1
  <2> QED BY <1>6, <1>7, <2>2 DEF PrJobs
<1> QED BY <1>5, <1>7, <1>8

LEMMA PrDeleteStep == ASSUME PrInv, PrDelete PROVE PrInv'
<1>1. prJob.phase = 1 /\ UNCHANGED <<prKnown, prConfig>> /\ PrGoOn
  BY PrPhaseAt DEF PrDelete, PrInv, PrTypes
<1>2. prRules' = prRules \/ prRules' = DeleteRule(prRules, prKnown[prJob.n])
  BY DEF PrDelete
<1>3. prRules' \in Seq(PrKernelRules)
  BY <1>2, PrDeleteRuleType DEF PrInv, PrTypes
<1>4. prJob' \in PrJobs /\ prJob'.phase = 1
  BY <1>1, PrGoesOn DEF PrInv, PrTypes
<1>5. PrSoFar(prRoutes', prRules', prConfig', prJob')
  BY <1>4 DEF PrSoFar
<1> QED BY <1>1, <1>3, <1>4, <1>5 DEF PrInv, PrTypes

LEMMA PrDeletedStep == ASSUME PrInv, PrDeleted PROVE PrInv'
<1>1. prJob \in PrJobs /\ prJob.phase = 1
  BY PrPhaseAt DEF PrDeleted, PrInv, PrTypes
<1>2. prKnown' = << >> /\ PrNextPhase(TRUE) /\ UNCHANGED <<prRules, prConfig>>
  BY DEF PrDeleted
<1>3. prJob' \in PrJobs /\ prJob'.phase = 2 /\ prJob'.n = 1
  <2>1. prJob.phase \in 1..3 /\ TRUE \in BOOLEAN
    BY <1>1
  <2>2. /\ prJob' \in PrJobs /\ prJob'.n = 1
        /\ prJob'.phase = IF prJob.by = "start" /\ prJob.phase = 2 THEN 4 ELSE prJob.phase + 1
    BY <1>1, <1>2, <2>1, PrToNextPhase
  <2> QED BY <1>1, <2>2
<1>4. PolicyCommands(prConfig') \in Seq(PrCommandTypes)
  BY <1>2, PolicyCommandsOf DEF PrInv, PrTypes
<1>5. \A i \in DOMAIN PolicyCommands(prConfig') : ~(i < 1)
  BY <1>4
<1>6. PrSoFar(prRoutes', prRules', prConfig', prJob')
  BY <1>3, <1>5 DEF PrSoFar, PrHadBefore
<1> QED BY <1>2, <1>3, <1>6 DEF PrInv, PrTypes

\* The command that is next, and what its phase has to say of those before it.
LEMMA PrCurrent ==
    ASSUME PrInv, prJob.n \in DOMAIN PrCommands
    PROVE  /\ prJob.phase \in 2..3 /\ prJob.n \in Nat
           /\ PrCommands \in Seq(PrCommandTypes) /\ PrCommands[prJob.n] \in PrCommandTypes
           /\ prJob.ok => PrHadBefore(prRoutes, prRules, PrCommands, prJob.n)
<1>1. prJob.phase \in 2..3
  <2>1. DOMAIN << >> = {}
    OBVIOUS
  <2> QED BY <2>1, PrCommandsOf DEF PrInv
<1>2. prJob.phase = 2 \/ prJob.phase = 3
  BY <1>1
<1>3. PrCommands = PolicyCommands(prConfig) \/ PrCommands = WanCommands(prConfig)
  BY <1>2, PrCommandsOf DEF PrInv
<1>4. PrCommands \in Seq(PrCommandTypes)
  BY <1>3, PolicyCommandsOf DEF PrInv, PrTypes
<1>5. PrCommands[prJob.n] \in PrCommandTypes
  BY <1>4
<1>6. prJob.ok => PrHadBefore(prRoutes, prRules, PrCommands, prJob.n)
  BY <1>2, PrCommandsOf DEF PrInv, PrSoFar
<1>7. prJob.n \in Nat
  BY DEF PrInv, PrTypes, PrJobs
<1> QED BY <1>1, <1>4, <1>5, <1>6, <1>7

\* A command that had its effect, and one that failed.
LEMMA PrOneMore ==
    ASSUME PrInv, prJob.n \in DOMAIN PrCommands, PrGoOn, prConfig' = prConfig,
           prKnown' \in Seq(PrRules), prRules' \in Seq(PrKernelRules),
           prRoutes \subseteq prRoutes', ToSet(prRules) \subseteq ToSet(prRules'),
           PrHad(prRoutes', prRules', PrCommands[prJob.n])
    PROVE  PrInv'
<1>1. /\ prJob' \in PrJobs /\ prJob'.by = prJob.by /\ prJob'.phase = prJob.phase
      /\ prJob'.n = prJob.n + 1 /\ prJob'.ok = prJob.ok
  BY PrGoesOn DEF PrInv, PrTypes
<1>2. PrTypes'
  BY <1>1 DEF PrInv, PrTypes
<1>3. \A c : PrHad(prRoutes, prRules, c) => PrHad(prRoutes', prRules', c)
  BY PrMore
<1>4. SUFFICES ASSUME prJob.ok PROVE PrSoFar(prRoutes', prRules', prConfig, prJob')
  BY <1>1, <1>2 DEF PrInv
<1>5. PrHadBefore(prRoutes', prRules', PrCommands, prJob.n + 1)
  <2>1. DOMAIN PrCommands = 1..Len(PrCommands) /\ prJob.n \in Nat
    BY PrCurrent
  <2>2. \A i \in DOMAIN PrCommands : i < prJob.n + 1 => i < prJob.n \/ i = prJob.n
    BY <2>1
  <2> QED BY <1>3, <1>4, <2>2, PrCurrent DEF PrHadBefore
<1>6. PrSoFar(prRoutes, prRules, prConfig, prJob)
  BY <1>4 DEF PrInv
<1>7. CASE prJob.phase = 2
  <2>1. PrCommands = PolicyCommands(prConfig)
    BY <1>7, PrCommandsOf DEF PrInv
  <2>2. prJob'.phase = 2 /\ PrHadBefore(prRoutes', prRules', PolicyCommands(prConfig), prJob'.n)
    BY <1>1, <1>5, <1>7, <2>1
  <2> QED BY <2>2 DEF PrSoFar
<1>8. CASE prJob.phase = 3
  <2>1. PrCommands = WanCommands(prConfig)
    BY <1>8, PrCommandsOf DEF PrInv
  <2>2. prJob'.phase = 3 /\ PrHadBefore(prRoutes', prRules', WanCommands(prConfig), prJob'.n)
    BY <1>1, <1>5, <1>8, <2>1
  <2>3. PrHadAll(prRoutes, prRules, PolicyCommands(prConfig))
    BY <1>6, <1>8 DEF PrSoFar
  <2>4. PrHadAll(prRoutes', prRules', PolicyCommands(prConfig))
    BY <1>3, <2>3 DEF PrHadAll
  <2> QED BY <2>2, <2>4 DEF PrSoFar
<1> QED BY <1>7, <1>8, PrCurrent

LEMMA PrFailed ==
    ASSUME PrInv, prJob.n \in DOMAIN PrCommands, PrNextPhase(FALSE), prConfig' = prConfig,
           prKnown' \in Seq(PrRules), prRules' = prRules
    PROVE  PrInv'
<1>1. prJob \in PrJobs /\ prJob.phase \in 1..3
  BY PrCurrent DEF PrInv, PrTypes
<1>2. prJob' \in PrJobs /\ ~prJob'.ok
  BY <1>1, PrToNextPhase
<1> QED BY <1>2 DEF PrInv, PrTypes

LEMMA PrAddRouteStep == ASSUME PrInv, PrAddRoute PROVE PrInv'
<1>1. PICK c : c = PrCommands[prJob.n]
  OBVIOUS
<1>2. /\ prJob.n \in DOMAIN PrCommands /\ c.kind = "route"
      /\ UNCHANGED <<prRules, prKnown, prConfig>>
  BY <1>1 DEF PrAddRoute
<1>3. \/ prRoutes' = prRoutes \cup {c.it} /\ PrGoOn
      \/ PrNextPhase(FALSE)
  BY <1>1 DEF PrAddRoute
<1>4. prKnown' \in Seq(PrRules) /\ prRules' \in Seq(PrKernelRules)
  BY <1>2 DEF PrInv, PrTypes
<1>5. CASE prRoutes' = prRoutes \cup {c.it} /\ PrGoOn
  <2>1. PrHad(prRoutes', prRules', c)
    BY <1>2, <1>5 DEF PrHad
  <2>2. prRoutes \subseteq prRoutes' /\ ToSet(prRules) \subseteq ToSet(prRules')
    BY <1>2, <1>5
  <2> QED BY <1>1, <1>2, <1>4, <1>5, <2>1, <2>2, PrOneMore
<1> QED BY <1>2, <1>3, <1>4, <1>5, PrFailed

LEMMA PrAddRuleStep == ASSUME PrInv, PrAddRule PROVE PrInv'
<1>1. PICK c : c = PrCommands[prJob.n]
  OBVIOUS
<1>2. /\ prJob.n \in DOMAIN PrCommands /\ c.kind = "rule" /\ PrNote(c.it)
      /\ UNCHANGED <<prRoutes, prConfig>>
  BY <1>1 DEF PrAddRule
<1>3. \/ PrGoOn /\ prRules' = IF c.it.enabled THEN Append(prRules, KernelRule(c.it)) ELSE prRules
      \/ PrNextPhase(FALSE) /\ prRules' = prRules
  BY <1>1 DEF PrAddRule
<1>4. c \in PrCommandTypes
  BY <1>1, <1>2, PrCurrent
<1>5. c.it \in PrRules /\ KernelRule(c.it) \in PrKernelRules
  <2>1. c.it \in PrRules
    BY <1>2, <1>4 DEF PrCommandTypes
  <2> QED BY <2>1 DEF KernelRule, PrRules, PrKernelRules
<1>6. prKnown' \in Seq(PrRules)
  BY <1>2, <1>5 DEF PrNote, PrInv, PrTypes
<1>7. CASE PrGoOn /\ prRules' = IF c.it.enabled THEN Append(prRules, KernelRule(c.it)) ELSE prRules
  <2>1. PICK k \in PrKernelRules : k = KernelRule(c.it)
    BY <1>5
  <2>2. prRules \in Seq(PrKernelRules)
    BY DEF PrInv, PrTypes
  <2>3. /\ Append(prRules, k) \in Seq(PrKernelRules)
        /\ ToSet(Append(prRules, k)) = ToSet(prRules) \cup {k}
    <3>1. /\ Append(prRules, k) \in Seq(PrKernelRules)
          /\ DOMAIN Append(prRules, k) = DOMAIN prRules \cup {Len(prRules) + 1}
          /\ Append(prRules, k)[Len(prRules) + 1] = k
          /\ \A i \in DOMAIN prRules : Append(prRules, k)[i] = prRules[i]
      BY <2>2
    <3> QED BY <3>1 DEF ToSet
  <2>4. /\ prRules' \in Seq(PrKernelRules) /\ ToSet(prRules) \subseteq ToSet(prRules')
        /\ c.it.enabled => KernelRule(c.it) \in ToSet(prRules')
    BY <1>7, <2>1, <2>2, <2>3
  <2>5. PrHad(prRoutes', prRules', c)
    BY <1>2, <2>4 DEF PrHad
  <2> QED BY <1>1, <1>2, <1>6, <1>7, <2>4, <2>5, PrOneMore
<1> QED BY <1>2, <1>3, <1>6, <1>7, PrFailed

LEMMA PrAddedStep == ASSUME PrInv, PrAdded PROVE PrInv'
<1>1. prJob \in PrJobs /\ prJob.phase \in 2..3
  BY PrPhaseAt DEF PrAdded, PrInv, PrTypes
<1>2. /\ prJob.n \notin DOMAIN PrCommands /\ PrNextPhase(TRUE)
      /\ UNCHANGED <<prRules, prRoutes, prKnown, prConfig>>
  BY DEF PrAdded
<1>3. /\ prJob' \in PrJobs /\ prJob'.by = prJob.by /\ prJob'.n = 1 /\ (prJob'.ok <=> prJob.ok)
      /\ prJob'.phase = IF prJob.by = "start" /\ prJob.phase = 2 THEN 4 ELSE prJob.phase + 1
  <2>1. prJob.phase \in 1..3 /\ TRUE \in BOOLEAN
    BY <1>1
  <2>2. prJob'.ok <=> (prJob.ok /\ TRUE)
    BY <1>1, <1>2, <2>1, PrToNextPhase
  <2>3. prJob'.ok <=> prJob.ok
    BY <2>2
  <2> QED BY <1>1, <1>2, <2>1, <2>3, PrToNextPhase
<1>4. PrTypes'
  BY <1>2, <1>3 DEF PrInv, PrTypes
<1>5. SUFFICES ASSUME prJob.ok PROVE PrSoFar(prRoutes, prRules, prConfig, prJob')
  BY <1>2, <1>3, <1>4 DEF PrInv
<1>6. PolicyCommands(prConfig) \in Seq(PrCommandTypes) /\ WanCommands(prConfig) \in Seq(PrCommandTypes)
  BY PolicyCommandsOf DEF PrInv, PrTypes
<1>7. PrSoFar(prRoutes, prRules, prConfig, prJob)
  BY <1>5 DEF PrInv
<1>8. ASSUME NEW cmds \in Seq(PrCommandTypes), cmds = PrCommands,
             PrHadBefore(prRoutes, prRules, cmds, prJob.n)
      PROVE  PrHadAll(prRoutes, prRules, cmds)
  <2>1. prJob.n \in Nat \ {0} /\ prJob.n \notin DOMAIN cmds
    BY <1>1, <1>2, <1>8 DEF PrJobs
  <2>2. \A i \in DOMAIN cmds : i < prJob.n
    BY <2>1
  <2> QED BY <1>8, <2>2 DEF PrHadBefore, PrHadAll
<1>9. CASE prJob.phase = 2
  <2>1. PrHadAll(prRoutes, prRules, PolicyCommands(prConfig))
    BY <1>6, <1>7, <1>8, <1>9, PrCommandsOf DEF PrSoFar, PrInv
  <2>2. \A i \in DOMAIN WanCommands(prConfig) : ~(i < 1)
    BY <1>6
  <2>3. CASE prJob.by = "start"
    <3>1. prJob'.phase = 4 /\ prJob'.by = "start"
      BY <1>3, <1>9, <2>3
    <3> QED BY <2>1, <3>1 DEF PrSoFar
  <2>4. CASE prJob.by # "start"
    <3>1. prJob'.phase = 3 /\ prJob'.n = 1
      BY <1>3, <1>9, <2>4
    <3> QED BY <2>1, <2>2, <3>1 DEF PrSoFar, PrHadBefore
  <2> QED BY <2>3, <2>4
<1>10. CASE prJob.phase = 3
  <2>1. PrHadAll(prRoutes, prRules, WanCommands(prConfig))
    BY <1>6, <1>7, <1>8, <1>10, PrCommandsOf DEF PrSoFar, PrInv
  <2>2. PrHadAll(prRoutes, prRules, PolicyCommands(prConfig))
    BY <1>7, <1>10 DEF PrSoFar
  <2>3. prJob'.phase = 4
    BY <1>3, <1>10
  <2> QED BY <2>1, <2>2, <2>3 DEF PrSoFar
<1> QED BY <1>1, <1>9, <1>10

\* Applying a configuration begins with nothing claimed.
LEMMA PrBegins ==
    ASSUME NEW who \in {"start", "reload"}, NEW cfg \in PrConfigs, NEW routes, NEW list
    PROVE  PrBegun(who) \in PrJobs /\ PrSoFar(routes, list, cfg, PrBegun(who))
BY DEF PrBegun, PrJobs, PrSoFar

LEMMA PrInitHolds == ASSUME PrInit PROVE PrInv
<1>1. prConfig \in PrConfigs /\ prJob = PrBegun("start") /\ prRules = << >> /\ prKnown = << >>
  BY DEF PrInit
<1> QED BY <1>1, PrBegins DEF PrInv, PrTypes

LEMMA PrInvStep == ASSUME PrInv, PrNext \/ UNCHANGED prVars PROVE PrInv'
<1>1. CASE PrStart
  <2>1. /\ prJob' = PrBegun("start") /\ prKnown' = << >>
        /\ UNCHANGED <<prRules, prRoutes, prConfig>>
    BY <1>1 DEF PrStart
  <2> QED BY <2>1, PrBegins DEF PrInv, PrTypes
<1>2. ASSUME NEW cfg \in PrConfigs, PrReload(cfg) PROVE PrInv'
  <2>1. prJob' = PrBegun("reload") /\ prConfig' = cfg /\ UNCHANGED <<prRules, prKnown>>
    BY <1>2 DEF PrReload
  <2> QED BY <2>1, PrBegins DEF PrInv, PrTypes
<1>3. CASE UNCHANGED prVars
  BY <1>3 DEF prVars, PrInv, PrTypes
<1> QED BY <1>1, <1>2, <1>3, PrDeleteStep, PrDeletedStep, PrAddRouteStep, PrAddRuleStep, PrAddedStep
        DEF PrNext

LEMMA PrInvSuffices == PrInv => ReloadComplete
<1> SUFFICES ASSUME PrInv, PrAt = "done", prJob.ok
             PROVE  /\ \A i \in DOMAIN prConfig.routes : InKernel(RouteCommands(prConfig)[i])
                    /\ \A i \in DOMAIN prConfig.rules : InKernel(RuleCommands(prConfig)[i])
                    /\ prJob.by = "reload" =>
                         \A i \in DOMAIN WanCommands(prConfig) : InKernel(WanCommands(prConfig)[i])
  BY DEF ReloadComplete
<1>1. prConfig \in PrConfigs /\ prJob.phase = 4
  BY PrPhaseAt DEF PrInv, PrTypes
<1>2. PrSoFar(prRoutes, prRules, prConfig, prJob)
  BY DEF PrInv
<1>3. \A i \in DOMAIN PolicyCommands(prConfig) : InKernel(PolicyCommands(prConfig)[i])
  BY <1>1, <1>2 DEF PrSoFar, PrHadAll, PrHad, InKernel
<1>4. prJob.by = "reload" =>
        \A i \in DOMAIN WanCommands(prConfig) : InKernel(WanCommands(prConfig)[i])
  BY <1>1, <1>2 DEF PrSoFar, PrHadAll, PrHad, InKernel
<1>5. \A i \in DOMAIN prConfig.routes : InKernel(RouteCommands(prConfig)[i])
  BY <1>1, <1>3, PolicyCommandsOf
<1>6. \A i \in DOMAIN prConfig.rules : InKernel(RuleCommands(prConfig)[i])
  BY <1>1, <1>3, PolicyCommandsOf
<1> QED BY <1>4, <1>5, <1>6

-----------------------------------------------------------------------------
(* Marks and tables of uplinks                                             *)

UpUplinks == [type: UplinkTypes, mark: Nat, table: Nat]
UpOfType(list, t) == {i \in DOMAIN list : list[i].type = t}

\* Uplinks of a type have numbers of their own, below the count of that type,
\* and their marks and tables come from number and place.
UpNumbered(list, index) ==
    /\ \A i \in DOMAIN list :
          /\ list[i].mark = AllocateMark(list[i].type, index[i], i - 1)
          /\ list[i].table = AllocateTable(list[i].type, index[i], i - 1)
          /\ index[i] < Cardinality(UpOfType(list, list[i].type))
    /\ \A i, j \in DOMAIN list :
          (i # j /\ list[i].type = list[j].type) => index[i] # index[j]

UpInv ==
    /\ upList \in Seq(UpUplinks)
    /\ \E index \in [DOMAIN upList -> Nat] : UpNumbered(upList, index)

LEMMA UpBases ==
    /\ MarkBase["wan"] = 256 /\ MarkBase["wireguard"] = 512 /\ MarkBase["tailscale"] = 544
    /\ MarkBase["openvpn"] = 576 /\ MarkBase["ipsec"] = 608 /\ MarkBase["custom"] = 4096
    /\ TableBase["wan"] = 10 /\ TableBase["wireguard"] = 30 /\ TableBase["tailscale"] = 50
    /\ TableBase["openvpn"] = 60 /\ TableBase["ipsec"] = 200 /\ TableBase["custom"] = 200
BY DEF MarkBase, TableBase

\* Marks and tables are numbers.
LEMMA UpAllocated ==
    ASSUME NEW t \in UplinkTypes, NEW index \in Nat, NEW place \in Nat
    PROVE  AllocateMark(t, index, place) \in Nat /\ AllocateTable(t, index, place) \in Nat
<1>1. AllocateMark(t, index, place) \in Nat
  BY UpBases DEF AllocateMark, MarkNone, UplinkTypes
<1>2. AllocateTable(t, index, place) \in Nat
  BY UpBases DEF AllocateTable, TableMain, UplinkTypes
<1> QED BY <1>1, <1>2

\* Uplinks at different places, with different numbers if they are of one type,
\* have different marks and tables.
LEMMA UpMarksApart ==
    ASSUME NEW t \in UplinkTypes, NEW u \in UplinkTypes, NEW a \in Nat, NEW b \in Nat,
           NEW p \in Nat, NEW q \in Nat, p # q, t = u => a # b,
           AllocateMark(t, a, p) # MarkNone
    PROVE  AllocateMark(t, a, p) # AllocateMark(u, b, q)
<1>1. CASE t = "custom" /\ u = "custom"
  BY <1>1, UpBases DEF AllocateMark
<1>2. CASE t = "custom" /\ u # "custom"
  BY <1>2, UpBases DEF AllocateMark, LastMark, MarkNone, UplinkTypes
<1>3. CASE t # "custom" /\ u = "custom"
  BY <1>3, UpBases DEF AllocateMark, LastMark, MarkNone, UplinkTypes
<1>4. CASE t # "custom" /\ u # "custom"
  BY <1>4, UpBases DEF AllocateMark, LastMark, MarkNone, UplinkTypes
<1> QED BY <1>1, <1>2, <1>3, <1>4

LEMMA UpTablesApart ==
    ASSUME NEW t \in UplinkTypes, NEW u \in UplinkTypes, NEW a \in Nat, NEW b \in Nat,
           NEW p \in Nat, NEW q \in Nat, p # q, t = u => a # b,
           AllocateTable(t, a, p) # TableMain
    PROVE  AllocateTable(t, a, p) # AllocateTable(u, b, q)
<1> DEFINE Placed == {"custom", "ipsec"}
<1>1. CASE t \in Placed /\ u \in Placed
  BY <1>1, UpBases DEF AllocateTable
<1>2. CASE t \in Placed /\ u \notin Placed
  BY <1>2, UpBases DEF AllocateTable, LastTable, TableMain, UplinkTypes
<1>3. CASE t \notin Placed /\ u \in Placed
  BY <1>3, UpBases DEF AllocateTable, LastTable, TableMain, UplinkTypes
<1>4. CASE t \notin Placed /\ u \notin Placed
  BY <1>4, UpBases DEF AllocateTable, LastTable, TableMain, UplinkTypes
<1> QED BY <1>1, <1>2, <1>3, <1>4

LEMMA UpInvSuffices == UpInv => UplinksApart
<1> SUFFICES ASSUME UpInv, NEW i \in DOMAIN upList, NEW j \in DOMAIN upList, i # j
             PROVE  /\ upList[i].mark # MarkNone => upList[i].mark # upList[j].mark
                    /\ upList[i].table # TableMain => upList[i].table # upList[j].table
  BY DEF UplinksApart
<1>1. PICK index \in [DOMAIN upList -> Nat] : UpNumbered(upList, index)
  BY DEF UpInv
<1>2. upList \in Seq(UpUplinks)
  BY DEF UpInv
<1>3. upList[i].type \in UplinkTypes /\ upList[j].type \in UplinkTypes
  <2>1. upList[i] \in UpUplinks /\ upList[j] \in UpUplinks
    BY <1>2
  <2> QED BY <2>1 DEF UpUplinks
<1>4. i - 1 \in Nat /\ j - 1 \in Nat /\ i - 1 # j - 1 /\ index[i] \in Nat /\ index[j] \in Nat
  BY <1>1, <1>2
<1>5. upList[i].type = upList[j].type => index[i] # index[j]
  BY <1>1 DEF UpNumbered
<1>6. /\ upList[i].mark = AllocateMark(upList[i].type, index[i], i - 1)
      /\ upList[j].mark = AllocateMark(upList[j].type, index[j], j - 1)
      /\ upList[i].table = AllocateTable(upList[i].type, index[i], i - 1)
      /\ upList[j].table = AllocateTable(upList[j].type, index[j], j - 1)
  BY <1>1 DEF UpNumbered
<1>7. upList[i].mark # MarkNone => upList[i].mark # upList[j].mark
  BY <1>3, <1>4, <1>5, <1>6, UpMarksApart
<1>8. upList[i].table # TableMain => upList[i].table # upList[j].table
  BY <1>3, <1>4, <1>5, <1>6, UpTablesApart
<1> QED BY <1>7, <1>8

LEMMA UpInitHolds == ASSUME UpInit PROVE UpInv
<1>1. upList = << >> /\ DOMAIN upList = {}
  BY DEF UpInit
<1>2. [i \in {} |-> 0] \in [DOMAIN upList -> Nat]
  BY <1>1
<1>3. UpNumbered(upList, [i \in {} |-> 0])
  BY <1>1 DEF UpNumbered
<1>4. upList \in Seq(UpUplinks)
  BY <1>1
<1>5. \E index \in [DOMAIN upList -> Nat] : UpNumbered(upList, index)
  BY <1>2, <1>3
<1> QED BY <1>4, <1>5 DEF UpInv

\* How many uplinks of a type a list has.
LEMMA UpCount ==
    ASSUME NEW list \in Seq(UpUplinks), NEW t
    PROVE  /\ IsFiniteSet(UpOfType(list, t)) /\ Cardinality(UpOfType(list, t)) \in Nat
           /\ UpOfType(list, t) \subseteq 1..Len(list)
<1>1. UpOfType(list, t) \in SUBSET (1..Len(list))
  BY DEF UpOfType
<1>2. IsFiniteSet(UpOfType(list, t))
  BY <1>1, FS_Interval, FS_Subset
<1> QED BY <1>1, <1>2, FS_CardinalityType

\* The uplinks of AddUplinks.
LEMMA UpAddedAre ==
    ASSUME NEW list \in Seq(UpUplinks), NEW t \in UplinkTypes, NEW n \in Nat, NEW k \in 1..n
    PROVE  LET c == Cardinality(UpOfType(list, t))
           IN  /\ AddedUplink(list, t, k) \in UpUplinks
               /\ AddedUplink(list, t, k).type = t
               /\ AddedUplink(list, t, k).mark = AllocateMark(t, c + k - 1, Len(list) + k - 1)
               /\ AddedUplink(list, t, k).table = AllocateTable(t, c + k - 1, Len(list) + k - 1)
<1> DEFINE c == Cardinality(UpOfType(list, t))
<1>1. AddedUplink(list, t, k) = [type |-> t,
                                 mark |-> AllocateMark(t, c + k - 1, Len(list) + k - 1),
                                 table |-> AllocateTable(t, c + k - 1, Len(list) + k - 1)]
  BY DEF AddedUplink, UpOfType
<1>2. c \in Nat
  BY UpCount
<1> HIDE DEF c
<1>3. c + k - 1 \in Nat /\ Len(list) + k - 1 \in Nat
  BY <1>2
<1>4. /\ AllocateMark(t, c + k - 1, Len(list) + k - 1) \in Nat
      /\ AllocateTable(t, c + k - 1, Len(list) + k - 1) \in Nat
  BY <1>3, UpAllocated
<1>5. /\ AddedUplink(list, t, k) \in UpUplinks
      /\ AddedUplink(list, t, k).type = t
      /\ AddedUplink(list, t, k).mark = AllocateMark(t, c + k - 1, Len(list) + k - 1)
      /\ AddedUplink(list, t, k).table = AllocateTable(t, c + k - 1, Len(list) + k - 1)
  BY <1>1, <1>4 DEF UpUplinks
<1> QED BY <1>5 DEF c

LEMMA UpAdds ==
    ASSUME NEW list \in Seq(UpUplinks), NEW index \in [DOMAIN list -> Nat],
           UpNumbered(list, index), NEW t \in UplinkTypes, NEW n \in Nat,
           NEW more, more = list \o [k \in 1..n |-> AddedUplink(list, t, k)]
    PROVE  /\ more \in Seq(UpUplinks)
           /\ \E index2 \in [DOMAIN more -> Nat] : UpNumbered(more, index2)
<1> DEFINE L == Len(list)
           c == Cardinality(UpOfType(list, t))
           number == [i \in 1..L + n |-> IF i <= L THEN index[i] ELSE c + (i - L) - 1]
<1>1. L \in Nat /\ DOMAIN list = 1..L
  OBVIOUS
<1>2. c \in Nat
  BY UpCount
<1>3. \A k \in 1..n : /\ AddedUplink(list, t, k) \in UpUplinks
                       /\ AddedUplink(list, t, k).type = t
                       /\ AddedUplink(list, t, k).mark = AllocateMark(t, c + k - 1, L + k - 1)
                       /\ AddedUplink(list, t, k).table = AllocateTable(t, c + k - 1, L + k - 1)
  BY UpAddedAre
<1>a. [k \in 1..n |-> AddedUplink(list, t, k)] \in [1..n -> UpUplinks]
  BY <1>3
<1>4. /\ [k \in 1..n |-> AddedUplink(list, t, k)] \in Seq(UpUplinks)
      /\ Len([k \in 1..n |-> AddedUplink(list, t, k)]) = n
  BY <1>a, ListOf
<1>5. /\ more \in Seq(UpUplinks) /\ Len(more) = L + n
      /\ \A i \in 1..L + n :
            more[i] = IF i <= L THEN list[i]
                      ELSE [k \in 1..n |-> AddedUplink(list, t, k)][i - L]
  BY <1>4, ConcatProperties
<1>6. DOMAIN more = 1..L + n
  BY <1>5
<1>7. \A i \in 1..L : i \in DOMAIN more /\ more[i] = list[i] /\ number[i] = index[i]
  BY <1>1, <1>5, <1>6
<1>8. \A i \in (L + 1)..(L + n) : i \in DOMAIN more /\ i \notin 1..L /\ i - L \in 1..n
                                  /\ more[i] = AddedUplink(list, t, i - L)
                                  /\ number[i] = c + (i - L) - 1
  BY <1>1, <1>5, <1>6
<1>9. \A i \in DOMAIN more : i \in 1..L \/ i \in (L + 1)..(L + n)
  BY <1>1, <1>6
<1>10. number \in [DOMAIN more -> Nat]
  BY <1>1, <1>2, <1>6
<1>11. /\ UpOfType(more, t) = UpOfType(list, t) \cup ((L + 1)..(L + n))
       /\ \A u : u # t => UpOfType(more, u) = UpOfType(list, u)
  <2>1. \A i \in (L + 1)..(L + n) : more[i].type = t
    <3> HIDE DEF L, c, number
    <3> QED BY <1>3, <1>8
  <2> HIDE DEF number
  <2>2. \A u : UpOfType(list, u) \subseteq 1..L
    BY UpCount
  <2>3. \A u, i : i \in UpOfType(list, u) => i \in UpOfType(more, u)
    BY <1>1, <1>7, <2>2 DEF UpOfType
  <2>4. \A u, i : (i \in UpOfType(more, u) /\ i \in 1..L) => i \in UpOfType(list, u)
    BY <1>1, <1>7 DEF UpOfType
  <2>5. \A i \in (L + 1)..(L + n) : i \in UpOfType(more, t)
    BY <1>8, <2>1 DEF UpOfType
  <2>6. \A u, i : (i \in UpOfType(more, u) /\ i \in (L + 1)..(L + n)) => u = t
    BY <2>1 DEF UpOfType
  <2>7. \A u, i : i \in UpOfType(more, u) => (i \in 1..L \/ i \in (L + 1)..(L + n))
    BY <1>9 DEF UpOfType
  <2>8. UpOfType(more, t) = UpOfType(list, t) \cup ((L + 1)..(L + n))
    <3> HIDE DEF L
    <3>1. \A i : i \in UpOfType(more, t) <=> (i \in UpOfType(list, t) \/ i \in (L + 1)..(L + n))
      BY <2>3, <2>4, <2>5, <2>7
    <3> QED BY <3>1, Zenon
  <2>9. \A u : u # t => UpOfType(more, u) = UpOfType(list, u)
    <3>1. \A u, i : u # t => (i \in UpOfType(more, u) <=> i \in UpOfType(list, u))
      <4> HIDE DEF L
      <4> QED BY <2>3, <2>4, <2>6, <2>7
    <3> QED BY <3>1, Zenon DEF UpOfType
  <2> QED BY <2>8, <2>9
<1>12. Cardinality(UpOfType(more, t)) = c + n
  <2>1. Cardinality((L + 1)..(L + n)) = n /\ IsFiniteSet((L + 1)..(L + n))
    BY <1>1, FS_Interval
  <2>2. UpOfType(list, t) \cap ((L + 1)..(L + n)) = {}
    BY <1>1, UpCount
  <2>3. IsFiniteSet(UpOfType(list, t))
    BY UpCount
  <2>4. Cardinality(UpOfType(more, t)) = c + n - Cardinality({})
    BY <1>11, <2>1, <2>2, <2>3, FS_Union
  <2> QED BY <1>2, <2>4, FS_EmptySet
<1>13. ASSUME NEW i \in DOMAIN more
       PROVE  /\ more[i].mark = AllocateMark(more[i].type, number[i], i - 1)
              /\ more[i].table = AllocateTable(more[i].type, number[i], i - 1)
              /\ number[i] < Cardinality(UpOfType(more, more[i].type))
  <2>1. CASE i \in 1..L
    <3>1. /\ list[i].mark = AllocateMark(list[i].type, index[i], i - 1)
          /\ list[i].table = AllocateTable(list[i].type, index[i], i - 1)
          /\ index[i] < Cardinality(UpOfType(list, list[i].type))
      BY <1>1, <2>1 DEF UpNumbered
    <3>2. Cardinality(UpOfType(list, list[i].type)) \in Nat
      BY UpCount
    <3>3. Cardinality(UpOfType(list, list[i].type)) <= Cardinality(UpOfType(more, list[i].type))
      <4>1. CASE list[i].type = t
        BY <1>2, <1>12, <4>1
      <4>2. CASE list[i].type # t
        <5>1. UpOfType(more, list[i].type) = UpOfType(list, list[i].type)
          BY <1>11, <4>2
        <5> QED BY <3>2, <5>1
      <4> QED BY <4>1, <4>2
    <3>4. index[i] \in Nat
      BY <1>1, <2>1
    <3>5. index[i] < Cardinality(UpOfType(more, list[i].type))
      <4>1. CASE list[i].type = t
        BY <1>2, <1>12, <3>1, <3>4, <4>1
      <4>2. CASE list[i].type # t
        BY <1>11, <3>1, <4>2
      <4> QED BY <4>1, <4>2
    <3>6. more[i] = list[i] /\ number[i] = index[i]
      BY <1>7, <2>1
    <3> QED BY <3>1, <3>5, <3>6
  <2>2. CASE i \in (L + 1)..(L + n)
    <3>1. i - L \in 1..n /\ more[i] = AddedUplink(list, t, i - L) /\ number[i] = c + (i - L) - 1
      BY <1>8, <2>2
    <3>2. /\ more[i].type = t
          /\ more[i].mark = AllocateMark(t, c + (i - L) - 1, L + (i - L) - 1)
          /\ more[i].table = AllocateTable(t, c + (i - L) - 1, L + (i - L) - 1)
      <4> HIDE DEF L, c
      <4> QED BY <1>3, <3>1
    <3>3. L + (i - L) - 1 = i - 1 /\ c + (i - L) - 1 < c + n
      BY <1>1, <1>2, <2>2
    <3> HIDE DEF L, c, number
    <3> QED BY <1>12, <3>1, <3>2, <3>3
  <2> QED BY <1>9, <2>1, <2>2
<1>14. ASSUME NEW i \in DOMAIN more, NEW j \in DOMAIN more, i # j, more[i].type = more[j].type
       PROVE  number[i] # number[j]
  <2>1. \A k \in (L + 1)..(L + n) : more[k].type = t /\ number[k] = c + (k - L) - 1
    <3> HIDE DEF L, c, number
    <3> QED BY <1>3, <1>8
  <2>2. \A k \in 1..L : list[k].type = t => (number[k] < c /\ number[k] \in Nat)
    BY <1>1, <1>7 DEF UpNumbered
  <2>3. CASE i \in 1..L /\ j \in 1..L
    BY <1>1, <1>7, <1>14, <2>3 DEF UpNumbered
  <2>4. CASE i \in 1..L /\ j \in (L + 1)..(L + n)
    <3>1. number[i] < c /\ number[i] \in Nat
      BY <1>7, <1>14, <2>1, <2>2, <2>4
    <3>2. number[j] = c + (j - L) - 1
      BY <2>1, <2>4
    <3> HIDE DEF number, c
    <3> QED BY <1>1, <1>2, <2>4, <3>1, <3>2
  <2>5. CASE i \in (L + 1)..(L + n) /\ j \in 1..L
    <3>1. number[j] < c /\ number[j] \in Nat
      BY <1>7, <1>14, <2>1, <2>2, <2>5
    <3>2. number[i] = c + (i - L) - 1
      BY <2>1, <2>5
    <3> HIDE DEF number, c
    <3> QED BY <1>1, <1>2, <2>5, <3>1, <3>2
  <2>6. CASE i \in (L + 1)..(L + n) /\ j \in (L + 1)..(L + n)
    <3>1. number[i] = c + (i - L) - 1 /\ number[j] = c + (j - L) - 1
      BY <2>1, <2>6
    <3> HIDE DEF number, c
    <3> QED BY <1>1, <1>2, <1>14, <2>6, <3>1
  <2> QED BY <1>9, <2>3, <2>4, <2>5, <2>6
<1>15. UpNumbered(more, number)
  <2> HIDE DEF number
  <2> QED BY <1>13, <1>14 DEF UpNumbered
<1> HIDE DEF number
<1> QED BY <1>5, <1>10, <1>15

LEMMA UpInvStep == ASSUME UpInv, UpNext \/ UNCHANGED upVars PROVE UpInv'
<1>1. CASE UNCHANGED upVars
  BY <1>1 DEF UpInv, upVars
<1>2. CASE UpNext
  <2>1. PICK t \in UplinkTypes, n \in UplinkRuns : AddUplinks(t, n)
    BY <1>2 DEF UpNext
  <2>2. n \in Nat
    BY UpAssumption
  <2>3. PICK index \in [DOMAIN upList -> Nat] : UpNumbered(upList, index)
    BY DEF UpInv
  <2>4. upList' = upList \o [k \in 1..n |-> AddedUplink(upList, t, k)]
    BY <2>1 DEF AddUplinks
  <2>5. upList \in Seq(UpUplinks)
    BY DEF UpInv
  <2>6. /\ upList' \in Seq(UpUplinks)
        /\ \E index2 \in [DOMAIN upList' -> Nat] : UpNumbered(upList', index2)
    BY <2>2, <2>3, <2>4, <2>5, UpAdds
  <2> QED BY <2>6 DEF UpInv
<1> QED BY <1>1, <1>2

-----------------------------------------------------------------------------
(* Routes together                                                         *)

RoutesInv == PrInv /\ UpInv

LEMMA RoutesStep == ASSUME RoutesInv, [Next]_vars PROVE RoutesInv'
<1>1. PrNext \/ UNCHANGED prVars
  BY DEF Next, Rest, vars
<1>2. UpNext \/ UNCHANGED upVars
  BY DEF Next, Rest, vars
<1> QED BY <1>1, <1>2, PrInvStep, UpInvStep DEF RoutesInv

\* A reload or a start that reports no error has every route and every enabled
\* rule of its configuration in the kernel, whatever the reloads, failed
\* commands and deaths of the daemon before it left there
\* (PolicyRoutingManager.Reload, SetupMultiWAN); and no two uplinks of a group
\* share a mark or a table of their own, however many are added and in whatever
\* order of types (UplinkGroup.AddUplink, allocateMark, allocateTable).
THEOREM RoutesHold == Spec => []RoutesWhole
<1>1. Init => RoutesInv
  BY PrInitHolds, UpInitHolds DEF Init, RoutesInv
<1>2. RoutesInv /\ [Next]_vars => RoutesInv'
  BY RoutesStep
<1>3. RoutesInv => RoutesWhole
  BY PrInvSuffices, UpInvSuffices DEF RoutesInv, RoutesWhole
<1> QED BY <1>1, <1>2, <1>3, PTL DEF Spec
=============================================================================
