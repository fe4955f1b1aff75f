---------------------------- MODULE Observation -----------------------------
(***************************************************************************)
(* What the appliance shows of itself: the status of its interfaces and    *)
(* its health, its logs, and the statistics of its rules.                  *)
(***************************************************************************)
EXTENDS FiniteSets, Integers, Sequences, SequencesExt, Functions

-----------------------------------------------------------------------------
(***************************************************************************)
(* What the appliance says about itself: the state of each interface       *)
(* (GetInterfaces of internal/ctlplane/network_manager.go with the readers *)
(* of link_linux.go), and the health report (internal/health, and the      *)
(* handlers of internal/api/server.go).                                    *)
(*                                                                         *)
(* GetInterfaces asks the kernel several times for one line of its answer: *)
(* the link's attributes, then the carrier, then a bond's members, each    *)
(* from another file, while cables and links come and go.  A health report *)
(* is put together from checks that run at the same time.                  *)
(***************************************************************************)
CONSTANTS
  SsMembers,      \* interfaces that are members of the bond
  MaxSsChanges,   \* bound: changes of the kernel's links during a request
  MaxHlChanges    \* bound: changes of what the checks find

VARIABLES
  ssEntry,    \* the configured interface asked about
  ssLink,     \* the kernel's view of it
  ssPc, ssReply, ssSeen,   \* GetInterfaces: its place, its answer, what was the case meanwhile (ghost)
  ssChanges,
  hlWorld, hlChanges,      \* what each check would find, and how often that changed
  hlHealthy, hlProbe,      \* Server.healthy, and what the probe under way found
  hlRun,                   \* the request in progress and its report
  hlSince, hlSeen          \* ghosts: what nftables were since the probes, and what was the case meanwhile

ssVars == <<ssEntry, ssLink, ssPc, ssReply, ssSeen, ssChanges>>
hlVars == <<hlWorld, hlChanges, hlHealthy, hlProbe, hlRun, hlSince, hlSeen>>

----------------------------------------------------------------------------
(* Interfaces                                                              *)

\* GetInterfaceType: by the directories of the link, then by the form of its name.
SsTypes == {"ethernet", "bond", "vlan", "wireguard"}

SsEntries == [type : SsTypes, disabled : BOOLEAN, mode : {"active-backup", "balance"}]

\* The kernel's links: present, administratively up, operating, with carrier, and the
\* members that carry traffic.
SsLinks == [present : BOOLEAN, admin : BOOLEAN, oper : BOOLEAN, carrier : BOOLEAN, members : SUBSET SsMembers]

\* A link that operates is up and has carrier, as a bond does with a member.
SsPossible(l, type) ==
  /\ l.oper => (l.present /\ l.admin /\ l.carrier)
  /\ ~l.present => (~l.admin /\ ~l.carrier)
  /\ l.members # {} => (l.present /\ type = "bond")
  /\ (type = "bond" /\ l.carrier) => l.members # {}

SsNoReply == [state |-> "none", missing |-> {}]

\* ReadBondActiveSlaves: the active one in active-backup mode, all of them in the others.
SsActives(mode, members) ==
  IF mode = "active-backup" /\ members # {} THEN {{m} : m \in members} ELSE {members}

\* The state shown: down, no carrier, up, in that order.  The oper flag is of the
\* attributes read first, the carrier of the file read later.
SsState(type, link, carrier) ==
  CASE ~link.admin -> "down"
    [] link.admin /\ ~carrier /\ type = "ethernet" -> "no_carrier"
    [] link.admin /\ (carrier \/ type # "ethernet") /\ link.oper -> "up"
    [] OTHER -> "down"

SsInit ==
  /\ ssEntry \in SsEntries
  /\ ssLink \in {l \in SsLinks : SsPossible(l, ssEntry.type)}
  /\ ssPc = "link" /\ ssReply = SsNoReply
  /\ ssSeen = {ssLink}
  /\ ssChanges = MaxSsChanges

\* A cable is pulled, a link is set down or removed, a member joins or leaves.
SsKernel ==
  /\ ssChanges > 0 /\ ssPc # "done"
  /\ \E l \in SsLinks :
        /\ SsPossible(l, ssEntry.type) /\ l # ssLink
        /\ ssLink' = l
        /\ ssSeen' = ssSeen \cup {l}
  /\ ssChanges' = ssChanges - 1
  /\ UNCHANGED <<ssEntry, ssPc, ssReply>>

\* Disabled in the configuration, or not found: nothing else is asked.
SsReadLink ==
  /\ ssPc = "link"
  /\ \/ /\ ssEntry.disabled \/ ~ssLink.present
        /\ ssReply' = [state |-> IF ssEntry.disabled THEN "disabled" ELSE "missing", missing |-> {}]
        /\ ssPc' = "done"
     \/ /\ ~ssEntry.disabled /\ ssLink.present
        /\ ssReply' = [state |-> "read", missing |-> {}, link |-> ssLink]
        /\ ssPc' = "carrier"
  /\ UNCHANGED <<ssEntry, ssLink, ssSeen, ssChanges>>

\* ReadCarrier: an unreadable file means no carrier.  A wireguard link listed under VPN
\* is up when its flag says so.
SsReadCarrier ==
  /\ ssPc = "carrier"
  /\ ssReply' = [state |-> IF ssEntry.type = "wireguard"
                           THEN (IF ssReply.link.admin THEN "up" ELSE "down")
                           ELSE SsState(ssEntry.type, ssReply.link, ssLink.carrier),
                 missing |-> {}]
  /\ ssPc' = IF ssEntry.type = "bond" THEN "members" ELSE "done"
  /\ UNCHANGED <<ssEntry, ssLink, ssSeen, ssChanges>>

\* A bond with a configured member that is not active is degraded if it is up.
SsDegraded_Any(state, missing) == IF missing # {} THEN "degraded" ELSE state
SsDegraded(state, missing) == IF missing # {} /\ state = "up" THEN "degraded" ELSE state

SsReadMembers ==
  /\ ssPc = "members"
  /\ \E active \in SsActives(ssEntry.mode, ssLink.members) :
        LET missing == SsMembers \ active
        IN ssReply' = [state |-> SsDegraded(ssReply.state, missing), missing |-> missing]
  /\ ssPc' = "done"
  /\ UNCHANGED <<ssEntry, ssLink, ssSeen, ssChanges>>

SsNext == SsKernel \/ SsReadLink \/ SsReadCarrier \/ SsReadMembers

----------------------------------------------------------------------------
(* Health                                                                  *)

\* The checks and what each may report: conntrack stands for disk and memory, which do the
\* same, and interfaces for the configuration.
HlOutcomes ==
  [nftables |-> {"healthy", "unhealthy"}, interfaces |-> {"healthy", "unhealthy"},
   conntrack |-> {"healthy", "degraded"}, control_plane |-> {"healthy", "degraded", "unhealthy"}]
HlChecks == DOMAIN HlOutcomes

HlNoReport == [status |-> "none", checks |-> <<>>]
HlIdle == [on |-> FALSE, status |-> "none", checks |-> <<>>, report |-> HlNoReport]

\* Nothing is known of nftables before the first probe: they are shown unhealthy.
HlInit ==
  /\ hlWorld = [c \in HlChecks |-> "healthy"] /\ hlChanges = 0
  /\ hlHealthy = FALSE /\ hlProbe = "none"
  /\ hlRun = HlIdle
  /\ hlSince = [stored |-> {"unhealthy", "healthy"}, read |-> {}]
  /\ hlSeen = [c \in HlChecks |-> {}]

\* Something breaks or recovers.
HlWorldChanges ==
  /\ hlChanges < MaxHlChanges
  /\ \E c \in HlChecks : \E o \in HlOutcomes[c] \ {hlWorld[c]} :
        /\ hlWorld' = [hlWorld EXCEPT ![c] = o]
        /\ hlSince' = IF c = "nftables" THEN [k \in DOMAIN hlSince |-> hlSince[k] \cup {o}] ELSE hlSince
        /\ hlSeen' = IF hlRun.on THEN [hlSeen EXCEPT ![c] = @ \cup {o}] ELSE hlSeen
  /\ hlChanges' = hlChanges + 1
  /\ UNCHANGED <<hlHealthy, hlProbe, hlRun>>

\* runHealthCheck: at once and every 30 s, checkNFTables lists the tables, asks the server
\* for its own status, whose failure counts for nothing, and what it found is stored.
HlProbeReads ==
  /\ hlProbe = "none"
  /\ hlProbe' = hlWorld["nftables"]
  /\ hlSince' = [hlSince EXCEPT !.read = {hlWorld["nftables"]}]
  /\ UNCHANGED <<hlWorld, hlChanges, hlHealthy, hlRun, hlSeen>>
HlProbeStores ==
  /\ hlProbe # "none"
  /\ hlHealthy' = (hlProbe = "healthy") /\ hlProbe' = "none"
  /\ hlSince' = [stored |-> hlSince.read, read |-> {}]
  /\ UNCHANGED <<hlWorld, hlChanges, hlRun, hlSeen>>

\* handleHealth makes a checker of its own, which has no report to repeat, and asks it.
HlBegin ==
  /\ ~hlRun.on
  /\ hlRun' = [HlIdle EXCEPT !.on = TRUE, !.status = "healthy"]
  /\ hlSeen' = [c \in HlChecks |-> IF c = "nftables" THEN hlSince.stored ELSE {hlWorld[c]}]
  /\ UNCHANGED <<hlWorld, hlChanges, hlHealthy, hlProbe, hlSince>>

\* What a check finds: the API's own of nftables repeats the last probe.
HlFinds(c) ==
  IF c # "nftables" THEN hlWorld[c] ELSE IF hlHealthy THEN "healthy" ELSE "unhealthy"

\* The last check decides between unhealthy and degraded.
HlWorst_Last(status, check) ==
  IF check = "healthy" THEN status ELSE check
\* Unhealthy stays, degraded only replaces healthy.
HlWorst(status, check) ==
  CASE check = "unhealthy" -> "unhealthy"
    [] check = "degraded" /\ status # "unhealthy" -> "degraded"
    [] OTHER -> status

\* A check ends, in whatever order.
HlCheckEnds(c) ==
  /\ hlRun.on /\ c \notin DOMAIN hlRun.checks
  /\ hlRun' = [hlRun EXCEPT !.status = HlWorst(@, HlFinds(c)),
                            !.checks = [x \in DOMAIN @ \cup {c} |-> IF x = c THEN HlFinds(c) ELSE @[x]]]
  /\ UNCHANGED <<hlWorld, hlChanges, hlHealthy, hlProbe, hlSince, hlSeen>>

\* All have ended: the report is returned.
HlReport ==
  /\ hlRun.on /\ DOMAIN hlRun.checks = HlChecks
  /\ hlRun' = [HlIdle EXCEPT !.report = [status |-> hlRun.status, checks |-> hlRun.checks]]
  /\ UNCHANGED <<hlWorld, hlChanges, hlHealthy, hlProbe, hlSince, hlSeen>>

\* The handlers' answer: 200 unless unhealthy.
HlCode(report) == IF report.status \in {"healthy", "degraded"} THEN 200 ELSE 503

HlNext ==
  \/ HlWorldChanges \/ HlProbeReads \/ HlProbeStores
  \/ HlBegin \/ (\E c \in HlChecks : HlCheckEnds(c)) \/ HlReport

----------------------------------------------------------------------------
\* What is shown was the case while the answer was put together, although its parts were
\* read at different times: "up" and "degraded" of a link that operated, "no_carrier" of
\* one administratively up, "missing" of one that was absent, and a member named missing
\* of one that was not active. (GetInterfaces.)
ShownWasTheCase ==
  ssPc = "done" /\ ~ssEntry.disabled =>
    /\ ssReply.state \in {"up", "degraded"} =>
          \E l \in ssSeen : l.admin /\ (l.oper \/ ssEntry.type = "wireguard")
    /\ ssReply.state = "no_carrier" => (\E l \in ssSeen : l.admin) /\ (\E l \in ssSeen : ~l.carrier)
    /\ ssReply.state = "missing" => \E l \in ssSeen : ~l.present
    /\ \A m \in ssReply.missing :
          \E l \in ssSeen : \E active \in SsActives(ssEntry.mode, l.members) : m \notin active

\* A report is as bad as the worst of its checks, in whatever order they ended, and it is
\* refused with 503 exactly when one of them is unhealthy; and what it says of a check was the
\* case while it was put together, of nftables since the last probe. (Checker.Check,
\* handleHealth, runHealthCheck.)
ReportIsWorst ==
  hlRun.report # HlNoReport =>
    LET found == {hlRun.report.checks[c] : c \in HlChecks}
    IN /\ hlRun.report.status = (IF "unhealthy" \in found THEN "unhealthy"
                                 ELSE IF "degraded" \in found THEN "degraded" ELSE "healthy")
       /\ (HlCode(hlRun.report) = 503) = ("unhealthy" \in found)
       /\ \A c \in HlChecks : hlRun.report.checks[c] \in hlSeen[c]

-----------------------------------------------------------------------------
(***************************************************************************)
(* The logs the control plane serves: the ring of application entries, the *)
(* buffer of packets logged by netfilter, and the tail of a log file read  *)
(* in chunks while it grows or is truncated; and the request that puts     *)
(* them together.                                                          *)
(*                                                                         *)
(* Sources: internal/logging/ringbuffer.go, internal/ctlplane/logs.go,     *)
(* internal/ctlplane/nflog.go, internal/ctlplane/kmsg_linux.go             *)
(*                                                                         *)
(* An entry is a number with its source.  A file is a sequence of          *)
(* characters: 0 ends a line, a line of the log is a run of its number.    *)
(* Entries come in order of their numbers; the ghosts lgApp and lgNf hold  *)
(* all of them.  Levels, search and times of a filter are one predicate.   *)
(***************************************************************************)
CONSTANTS
  LogSources,   \* sources of application entries
  RingSize,     \* size of the ring (5000)
  NfMax,        \* maxSize of the packet buffer (10000)
  NfCut,        \* maxSize / 10: what a full buffer gives up
  SubLimit,     \* the least limit of one source in a combined request (50)
  ChunkSize,    \* bytes read at once (8192)
  LineLength,   \* characters of a log line, without its end
  MaxTail,      \* bound: lines asked for of a file
  MaxLogged     \* bound: entries of each kind

\* What a full packet buffer gives up is part of it; lines have characters.
ASSUME LogAssumption ==
  /\ RingSize \in Nat \ {0} /\ NfMax \in Nat /\ NfCut \in 1 .. NfMax /\ SubLimit \in Nat \ {0}
  /\ ChunkSize \in Nat \ {0} /\ LineLength \in Nat \ {0} /\ MaxTail \in Nat /\ MaxLogged \in Nat

VARIABLES
  lgRing, lgHead, lgCount,   \* RingBuffer
  lgApp,                     \* ghost: entries added since the last Clear
  lgNfBuf, lgNf,             \* NFLogReader.entries; ghost: all entries
  lgFile,                    \* the log file
  lgTail                     \* readLastLines in progress

lgVars == <<lgRing, lgHead, lgCount, lgApp, lgNfBuf, lgNf, lgFile, lgTail>>

LgNoTail == [at |-> "idle", n |-> 0, size |-> 0, offset |-> 0, lines |-> <<>>, file |-> <<>>, cut |-> FALSE, out |-> <<>>]

LgInit ==
  /\ lgRing = [i \in 0 .. RingSize - 1 |-> [src |-> "none", n |-> 0]]
  /\ lgHead = 0 /\ lgCount = 0 /\ lgApp = <<>>
  /\ lgNfBuf = <<>> /\ lgNf = <<>>
  /\ lgFile = <<>> /\ lgTail = LgNoTail

\* The last n elements of a sequence.
LgLastOf(s, n) == SubSeq(s, (IF Len(s) > n THEN Len(s) - n ELSE 0) + 1, Len(s))

\* The j-th smallest of a set of numbers, and the elements of a sequence at such places.
LgNth(set, j) == CHOOSE i \in set : Cardinality({k \in set : k < i}) = j - 1
LgPicked(s, places) == [j \in 1 .. Cardinality(places) |-> s[LgNth(places, j)]]
LgNotEmpty(lines) == LgPicked(lines, {i \in DOMAIN lines : lines[i] # <<>>})
LgOfSource(entries, src) == LgPicked(entries, {i \in DOMAIN entries : entries[i].src = src})

----------------------------------------------------------------------------
(* The ring of application entries. *)

\* RingBuffer.Add.
LgAdd(src) ==
  /\ Len(lgApp) < MaxLogged
  /\ LET e == [src |-> src, n |-> Len(lgApp) + 1]
     IN /\ lgRing' = [lgRing EXCEPT ![lgHead] = e]
        /\ lgApp' = Append(lgApp, e)
  /\ lgHead' = (lgHead + 1) % RingSize
  /\ lgCount' = IF lgCount < RingSize THEN lgCount + 1 ELSE lgCount
  /\ UNCHANGED <<lgNfBuf, lgNf, lgFile, lgTail>>

\* RingBuffer.Clear: the entries stay in the array.
LgClear ==
  /\ lgCount > 0
  /\ lgHead' = 0 /\ lgCount' = 0 /\ lgApp' = <<>>
  /\ UNCHANGED <<lgRing, lgNfBuf, lgNf, lgFile, lgTail>>

LgRead(start, n) == [i \in 1 .. n |-> lgRing[(start + i - 1) % RingSize]]

\* GetAll.
LgGetAll == LgRead(IF lgCount = RingSize THEN lgHead ELSE 0, lgCount)

\* GetLast, beginning one entry too late when the ring has wrapped.
LgGetLast_Wrap(n) ==
  LET m == IF n > lgCount THEN lgCount ELSE n
  IN LgRead(IF m > lgHead THEN lgHead - m + RingSize + 1 ELSE lgHead - m, m)
\* GetLast.
LgGetLast(n) ==
  LET m == IF n > lgCount THEN lgCount ELSE n
  IN LgRead((lgHead - m + RingSize) % RingSize, m)

\* GetBySource stops at the limit, so it has the oldest entries of the source.
LgGetBySource(src, limit) ==
  LET all == LgOfSource(LgGetAll, src)
  IN IF limit > 0 /\ Len(all) > limit THEN SubSeq(all, 1, limit) ELSE all

----------------------------------------------------------------------------
(* The packets netfilter logs. *)

\* A full buffer gives up what it must keep.
LgRoom_KeepCut(buf) == IF Len(buf) >= NfMax THEN SubSeq(buf, 1, NfMax - NfCut) ELSE buf
\* addEntry: the oldest tenth goes when the buffer is full.
LgRoom(buf) == IF Len(buf) >= NfMax THEN SubSeq(buf, NfCut + 1, Len(buf)) ELSE buf

LgAddEntry ==
  /\ Len(lgNf) < MaxLogged
  /\ lgNfBuf' = Append(LgRoom(lgNfBuf), Len(lgNf) + 1)
  /\ lgNf' = Append(lgNf, Len(lgNf) + 1)
  /\ UNCHANGED <<lgRing, lgHead, lgCount, lgApp, lgFile, lgTail>>

\* GetEntries: a limit of 0 means all.
LgGetEntries(limit) ==
  LET m == IF limit <= 0 \/ limit > Len(lgNfBuf) THEN Len(lgNfBuf) ELSE limit
  IN LgLastOf(lgNfBuf, m)

----------------------------------------------------------------------------
(* The tail of a file. *)

\* syslogd appends a line.
LgAppendLine ==
  /\ Len(lgFile) < MaxLogged * (LineLength + 1)
  /\ LET k == Len(lgFile) \div (LineLength + 1) + 1
     IN lgFile' = lgFile \o [i \in 1 .. LineLength |-> k] \o <<0>>
  /\ UNCHANGED <<lgRing, lgHead, lgCount, lgApp, lgNfBuf, lgNf, lgTail>>

\* logrotate truncates the file in place.
LgTruncate ==
  /\ lgFile # <<>>
  /\ lgFile' = <<>>
  /\ lgTail' = [lgTail EXCEPT !.cut = lgTail.at # "idle"]
  /\ UNCHANGED <<lgRing, lgHead, lgCount, lgApp, lgNfBuf, lgNf>>

\* strings.Split at the line ends: one more piece than line ends.
LgEnds(s) == {0, Len(s) + 1} \cup {i \in 1 .. Len(s) : s[i] = 0}
LgSplit(s) ==
  [j \in 1 .. Cardinality(LgEnds(s)) - 1 |-> SubSeq(s, LgNth(LgEnds(s), j) + 1, LgNth(LgEnds(s), j + 1) - 1)]

\* readLastLines opens the file and takes its size; an empty file has no lines.
LgTailOpen(n) ==
  /\ lgTail.at = "idle" /\ lgFile # <<>>
  /\ lgTail' = [LgNoTail EXCEPT !.at = "read", !.n = n, !.size = Len(lgFile),
                                !.offset = Len(lgFile), !.file = lgFile]
  /\ UNCHANGED <<lgRing, lgHead, lgCount, lgApp, lgNfBuf, lgNf, lgFile>>

\* The pieces of a chunk put before the ones read, the line at the seam left in two.
LgMerge_NoSeam(pieces, lines) == pieces \o lines
\* The last piece of a chunk is the beginning of the first line read before it.
LgMerge(pieces, lines) ==
  IF lines = <<>> THEN pieces
  ELSE Front(pieces) \o <<Last(pieces) \o Head(lines)>> \o Tail(lines)

\* One turn of the loop: ReadAt fails when the file has become shorter.
LgTailChunk ==
  /\ lgTail.at = "read" /\ Len(lgTail.lines) < lgTail.n + 1 /\ lgTail.offset > 0
  /\ LET chunk == IF ChunkSize > lgTail.size THEN lgTail.size ELSE ChunkSize
         from == IF lgTail.offset < chunk THEN 0 ELSE lgTail.offset - chunk
     IN IF lgTail.offset > Len(lgFile)
        THEN lgTail' = [lgTail EXCEPT !.at = "lines", !.offset = from]
        ELSE lgTail' = [lgTail EXCEPT !.offset = from,
                          !.lines = LgMerge(LgSplit(SubSeq(lgFile, from + 1, lgTail.offset)), @)]
  /\ UNCHANGED <<lgRing, lgHead, lgCount, lgApp, lgNfBuf, lgNf, lgFile>>

\* The last n pieces that are not empty.
LgTailDone ==
  /\ \/ lgTail.at = "lines"
     \/ lgTail.at = "read" /\ (Len(lgTail.lines) >= lgTail.n + 1 \/ lgTail.offset = 0)
  /\ lgTail' = [lgTail EXCEPT !.at = "done",
                  !.out = LgLastOf(LgNotEmpty(lgTail.lines), lgTail.n)]
  /\ UNCHANGED <<lgRing, lgHead, lgCount, lgApp, lgNfBuf, lgNf, lgFile>>

LgTailReply ==
  /\ lgTail.at = "done"
  /\ lgTail' = LgNoTail
  /\ UNCHANGED <<lgRing, lgHead, lgCount, lgApp, lgNfBuf, lgNf, lgFile>>

----------------------------------------------------------------------------
(* The combined request. *)

\* Every source may fill half of the request.
LgSubLimit_Fixed(limit) == IF limit \div 2 < SubLimit THEN SubLimit ELSE limit \div 2
\* getAllLogs: a quarter of the limit for each source, and not less than SubLimit.
LgSubLimit(limit) == IF limit \div 4 < SubLimit THEN SubLimit ELSE limit \div 4

\* What the sources hold that matches: kernel messages, lines of the file, packets, and
\* the lines of the file that are about DHCP (here all of them).
LgMatching ==
  LET lines == Len(lgFile) \div (LineLength + 1)
  IN <<MaxLogged, lines, Len(lgNfBuf), lines>>

\* getAllLogs, in that order; limitEntries keeps the end.
LgAllLogs(limit) ==
  LET size(k) == IF LgMatching[k] > LgSubLimit(limit) THEN LgSubLimit(limit) ELSE LgMatching[k]
      of(k) == [i \in 1 .. size(k) |-> k]
  IN LgLastOf(of(1) \o of(2) \o of(3) \o of(4), limit)

LgNext ==
  \/ \E src \in LogSources : LgAdd(src)
  \/ LgClear \/ LgAddEntry \/ LgAppendLine \/ LgTruncate
  \/ \E n \in 1 .. MaxTail : LgTailOpen(n)
  \/ LgTailChunk \/ LgTailDone \/ LgTailReply

LgSpec == LgInit /\ [][LgNext]_lgVars

----------------------------------------------------------------------------
\* Whatever was added, wrapped or cleared, the ring answers with the entries of the
\* last RingSize additions, in order: all, the last n, and those of a source from the
\* oldest on. (RingBuffer.GetAll, GetLast, GetBySource.)
RingIsWindow ==
  LET window == LgLastOf(lgApp, RingSize)
  IN /\ LgGetAll = window
     /\ \A n \in 0 .. RingSize + 1 : LgGetLast(n) = LgLastOf(window, n)
     /\ \A src \in LogSources : IsPrefix(LgGetBySource(src, 1), LgOfSource(window, src))

\* The packet buffer never exceeds its size, and a request gets the newest packets, at
\* least nine tenths of the buffer once it has been full. (addEntry, GetEntries.)
PacketsAreNewest ==
  /\ Len(lgNfBuf) <= NfMax
  /\ \A limit \in 0 .. NfMax : IsSuffix(LgGetEntries(limit), lgNf)
  /\ Len(lgNf) >= NfMax => Len(lgNfBuf) > NfMax - NfCut

\* The tail of a file that was not truncated meanwhile is the newest lines at the time
\* of opening, in order and whole, but for the oldest of the n asked for, which may be
\* cut, or missing, where a chunk begins. (readLastLines.)
TailIsEnd ==
  lgTail.at = "done" /\ ~lgTail.cut =>
    LET want == LgLastOf(LgNotEmpty(LgSplit(lgTail.file)), lgTail.n)
        got == lgTail.out
        short == Len(want) - Len(got)
    IN /\ short \in {0, 1}
       /\ \A i \in 2 - short .. Len(got) : got[i] = want[i + short]
       /\ short = 0 /\ want # <<>> => IsSuffix(got[1], want[1])

\* A combined request with room for SubLimit entries of each source shows every source
\* that has any, and never more than it was asked for. (getAllLogs, limitEntries.)
EverySourceShown ==
  \A limit \in 1 .. 4 * SubLimit + 1 :
    LET out == LgAllLogs(limit)
    IN /\ Len(out) <= limit
       /\ limit >= 4 * SubLimit =>
            \A k \in 1 .. 4 : LgMatching[k] > 0 => \E i \in DOMAIN out : out[i] = k

-----------------------------------------------------------------------------
(***************************************************************************)
(* The sparklines of the firewall rules: a collector polls the byte        *)
(* counters of the kernel and keeps, for each rule, a ring of rates.       *)
(*                                                                         *)
(* Sources: internal/stats/collector.go, internal/stats/nft_parser.go      *)
(*                                                                         *)
(* The fetch runs without the lock, so a reload of the rules (which sets   *)
(* the kernel's counters to zero and may leave rules out) and the reset    *)
(* of the collector may fall between the fetch and its recording.  A rate  *)
(* is the difference of one interval.  The ghost rsPassed counts the bytes *)
(* that passed a rule since the fetch recorded last, rsMade the points     *)
(* added since the rule was first seen.                                    *)
(***************************************************************************)
CONSTANTS
  RuleIDs,       \* rules with a counter and a "rule:" comment
  Points,        \* capacity of a ring (60)
  CounterWidth,  \* counters are taken modulo 2^CounterWidth
  MaxBytes,      \* bound: bytes passed by each rule
  MaxPoints      \* bound: points made for each rule

ASSUME StatsAssumption == Points \in Nat \ {0} /\ MaxPoints \in Nat /\ MaxBytes \in Nat

VARIABLES
  rsKernel,    \* counters of the rules in force
  rsFetch,     \* what tick has fetched and not recorded
  rsLast,      \* lastRaw
  rsBuf,       \* buffers: data, head, isFull
  rsPassed,    \* ghost: bytes since the fetch recorded last, and since the fetch under way
  rsMade,      \* ghost: points made, with what really passed
  rsTotal      \* bytes passed, for the bound

rsVars == <<rsKernel, rsFetch, rsLast, rsBuf, rsPassed, rsMade, rsTotal>>

RsNoFetch == [on |-> FALSE, counters |-> <<>>]
RsZero == [r \in RuleIDs |-> [recorded |-> 0, fetched |-> 0]]

RsInit ==
  /\ rsKernel = [r \in RuleIDs |-> 0]
  /\ rsFetch = RsNoFetch
  /\ rsLast = <<>> /\ rsBuf = <<>>
  /\ rsPassed = RsZero /\ rsMade = [r \in RuleIDs |-> <<>>] /\ rsTotal = [r \in RuleIDs |-> 0]

\* A packet passes a rule in force.
RsTraffic(r) ==
  /\ r \in DOMAIN rsKernel /\ rsTotal[r] < MaxBytes
  /\ rsKernel' = [rsKernel EXCEPT ![r] = @ + 1]
  /\ rsPassed' = [rsPassed EXCEPT ![r].recorded = @ + 1, ![r].fetched = @ + 1]
  /\ rsTotal' = [rsTotal EXCEPT ![r] = @ + 1]
  /\ UNCHANGED <<rsFetch, rsLast, rsBuf, rsMade>>

\* The firewall replaces its rules: counters start again, rules come and go.
RsReload(rules) ==
  /\ rsKernel' = [r \in rules |-> 0]
  /\ UNCHANGED <<rsFetch, rsLast, rsBuf, rsPassed, rsMade, rsTotal>>

\* FetchCounters, ParseNFTCounters: the counters of the rules in force.
RsTickFetch ==
  /\ ~rsFetch.on
  /\ rsFetch' = [on |-> TRUE, counters |-> rsKernel]
  /\ rsPassed' = [r \in RuleIDs |-> [rsPassed[r] EXCEPT !.fetched = 0]]
  /\ UNCHANGED <<rsKernel, rsLast, rsBuf, rsMade, rsTotal>>

\* A counter that has become smaller: the unsigned difference wraps around.
RsDelta_Wraps(current, prev) == (current - prev) % 2^CounterWidth
\* After a reset of the counter, what it shows is what passed since.
RsDelta(current, prev) == IF current >= prev THEN current - prev ELSE current

RsNewRing == [data |-> [i \in 0 .. Points - 1 |-> 0], head |-> 0, full |-> FALSE]

\* Full one point early.
RsRingAdd_Early(b, v) ==
  [data |-> [b.data EXCEPT ![b.head] = v], head |-> (b.head + 1) % Points,
   full |-> b.full \/ b.head + 2 >= Points]
\* RingBuffer.Add.
RsRingAdd(b, v) ==
  [data |-> [b.data EXCEPT ![b.head] = v], head |-> (b.head + 1) % Points,
   full |-> b.full \/ (b.head + 1) % Points = 0]

\* RingBuffer.Snapshot: from the oldest to the newest.
RsSnapshot(b) ==
  LET part(from, to) == [i \in 1 .. to - from |-> b.data[from + i - 1]]
  IN IF b.full THEN part(b.head, Points) \o part(0, b.head) ELSE part(0, b.head)

\* The rest of tick, under the lock: a rule seen first has no point yet.
RsTickRecord ==
  /\ rsFetch.on
  /\ \A r \in DOMAIN rsFetch.counters : Len(rsMade[r]) < MaxPoints
  /\ LET c == rsFetch.counters
         known == DOMAIN c \cap DOMAIN rsBuf
         delta(r) == RsDelta(c[r], rsLast[r])
     IN /\ rsBuf' = [r \in DOMAIN rsBuf \cup DOMAIN c |->
                       IF r \in known THEN RsRingAdd(rsBuf[r], delta(r))
                       ELSE IF r \in DOMAIN c THEN RsNewRing ELSE rsBuf[r]]
        /\ rsLast' = [r \in DOMAIN rsLast \cup DOMAIN c |-> IF r \in DOMAIN c THEN c[r] ELSE rsLast[r]]
        /\ rsMade' = [r \in RuleIDs |->
                        IF r \in known
                        THEN Append(rsMade[r], [point |-> delta(r), passed |-> rsPassed[r].recorded - rsPassed[r].fetched])
                        ELSE rsMade[r]]
        /\ rsPassed' = [r \in RuleIDs |->
                          IF r \in DOMAIN c THEN [rsPassed[r] EXCEPT !.recorded = rsPassed[r].fetched] ELSE rsPassed[r]]
  /\ rsFetch' = RsNoFetch
  /\ UNCHANGED <<rsKernel, rsTotal>>

\* A fetch that fails ends the tick.
RsTickFails ==
  /\ rsFetch.on
  /\ rsFetch' = RsNoFetch
  /\ UNCHANGED <<rsKernel, rsLast, rsBuf, rsPassed, rsMade, rsTotal>>

\* Reset.
RsReset ==
  /\ rsBuf # <<>>
  /\ rsBuf' = <<>> /\ rsLast' = <<>>
  /\ rsMade' = [r \in RuleIDs |-> <<>>]
  /\ UNCHANGED <<rsKernel, rsFetch, rsPassed, rsTotal>>

RsNext ==
  \/ \E r \in RuleIDs : RsTraffic(r)
  \/ \E rules \in SUBSET RuleIDs : RsReload(rules)
  \/ RsTickFetch \/ RsTickRecord \/ RsTickFails \/ RsReset

RsSpec == RsInit /\ [][RsNext]_rsVars

----------------------------------------------------------------------------
\* No point shows more than really passed the rule between the two fetches it compares,
\* whatever reloads, resets, failed fetches and rules that came and went lie between.
\* (Collector.tick.)
RateNotOverstated ==
  \A r \in RuleIDs : \A i \in DOMAIN rsMade[r] : rsMade[r][i].point <= rsMade[r][i].passed

\* A rule's sparkline is its last points, from the oldest to the newest. (RingBuffer.)
SparklineIsWindow ==
  \A r \in DOMAIN rsBuf :
    RsSnapshot(rsBuf[r]) =
      LET made == [i \in DOMAIN rsMade[r] |-> rsMade[r][i].point]
      IN SubSeq(made, (IF Len(made) > Points THEN Len(made) - Points ELSE 0) + 1, Len(made))
=============================================================================
