----------------------------- MODULE DnsService -----------------------------
(***************************************************************************)
(* The DNS server: queries, each in a goroutine of its own, against the    *)
(* blocklist, the cache, the local records and the upstream servers; and   *)
(* the reloads that replace all of these, restart the listeners or not,    *)
(* and fetch the blocklist with a file as fallback.  One RWMutex guards    *)
(* the maps.                                                               *)
(***************************************************************************)
EXTENDS Integers, FiniteSets

CONSTANTS DnsNames, DnsAddrs, Queries,
          DefaultAddr,    \* 0.0.0.0
          ListedName,     \* the name the configured blocklist has
          DnsReloads, DnsQueries   \* bounds

VARIABLES dnsUp,        \* s.running
          dnsCfg,       \* s.config of the last reload: [mode, addr, list]
          dnsServing,   \* the address of s.servers
          dnsSocks,     \* the upgrade manager's socket per address
          blockedNames, dnsRecords,
          dnsCache,     \* names with a cached answer
          dnsOwner,     \* the query that holds s.mu for writing, or NoQuery
          query,        \* [pc, name, answer]
          listFile,     \* the cached copy of the blocklist: "none", "whole"
          dnsReloaded, dnsAsked

dnsVars == <<dnsUp, dnsCfg, dnsServing, dnsSocks, blockedNames, dnsRecords, dnsCache, dnsOwner, query, listFile,
             dnsReloaded, dnsAsked>>

NoQuery == "nobody"
DnsModes == {"off", "external", "legacy", "new"}
DnsConfigs == [mode: DnsModes, addr: DnsAddrs, list: BOOLEAN]

DnsInit ==
    /\ dnsUp = FALSE /\ dnsCfg = [mode |-> "off", addr |-> DefaultAddr, list |-> FALSE] /\ dnsServing = DefaultAddr
    /\ dnsSocks = [a \in DnsAddrs |-> "none"]
    /\ blockedNames = {} /\ dnsRecords = {} /\ dnsCache = {} /\ dnsOwner = NoQuery
    /\ query = [q \in Queries |-> [pc |-> "idle", name |-> ListedName, answer |-> "none"]]
    /\ listFile = "none" /\ dnsReloaded = 0 /\ dnsAsked = 0

DnsUnlocked == dnsOwner = NoQuery

-----------------------------------------------------------------------------
\* loadBlocklistsFromConfig: the download, kept in a file when that can be
\* written; when it fails, the file.
ListDownloads == {[got |-> TRUE, file |-> "whole"], [got |-> TRUE, file |-> listFile],
              [got |-> FALSE, file |-> listFile]}
DnsListed_NoFallback(cfg, d) == IF cfg.list /\ d.got THEN {ListedName} ELSE {}
DnsListed(cfg, d) == IF cfg.list /\ (d.got \/ d.file = "whole") THEN {ListedName} ELSE {}

\* Stop closes the sockets; the upgrade manager still has them.
SocketsStopped(socks) == IF dnsUp THEN [socks EXCEPT ![dnsServing] = "closed"] ELSE socks

TakeDnsConfig(cfg, d) ==
    /\ blockedNames' = DnsListed(cfg, d) /\ dnsRecords' = {}
    /\ listFile' = IF cfg.list THEN d.file ELSE listFile
    \* the new format leaves the old format's ListenOn empty
    /\ dnsCfg' = [cfg EXCEPT !.addr = IF cfg.mode = "new" THEN DefaultAddr ELSE @]

\* Off or external: the listeners end, everything else stays as it was.
DnsReloadOff(cfg) ==
    /\ cfg.mode \in {"off", "external"}
    /\ dnsUp' = FALSE /\ dnsSocks' = SocketsStopped(dnsSocks)
    /\ UNCHANGED <<dnsCfg, dnsServing, blockedNames, dnsRecords, listFile>>

\* buildServers takes the socket the upgrade manager knows, closed or not.
BoundSockets(addr) == [SocketsStopped(dnsSocks) EXCEPT ![addr] = IF @ = "none" THEN "open" ELSE @]

\* New listeners when the address changed, and in the new format always.
ReloadRestart(cfg, d) ==
    /\ cfg.mode = "new" \/ (cfg.mode = "legacy" /\ (~dnsUp \/ cfg.addr # dnsCfg.addr))
    /\ dnsSocks' = BoundSockets(cfg.addr) /\ dnsServing' = cfg.addr
    /\ dnsUp' = TRUE /\ TakeDnsConfig(cfg, d)

ReloadHot(cfg, d) ==
    /\ cfg.mode = "legacy" /\ dnsUp /\ cfg.addr = dnsCfg.addr
    /\ TakeDnsConfig(cfg, d) /\ UNCHANGED <<dnsUp, dnsServing, dnsSocks>>

DnsReload(cfg, d) ==
    /\ DnsUnlocked /\ dnsReloaded < DnsReloads /\ dnsReloaded' = dnsReloaded + 1
    /\ DnsReloadOff(cfg) \/ ReloadRestart(cfg, d) \/ ReloadHot(cfg, d)
    /\ UNCHANGED <<dnsCache, dnsOwner, query, dnsAsked>>

\* AddRecord and RemoveRecord, from the DHCP server's leases.
LeaseRecord(n) ==
    /\ DnsUnlocked /\ dnsRecords' \in {dnsRecords \cup {n}, dnsRecords \ {n}}
    /\ UNCHANGED <<dnsUp, dnsCfg, dnsServing, dnsSocks, blockedNames, dnsCache, dnsOwner, query, listFile, dnsReloaded, dnsAsked>>

\* UpdateBlockedDomains, from threat intelligence.
ThreatDomains(n) ==
    /\ DnsUnlocked /\ blockedNames' = blockedNames \cup {n}
    /\ UNCHANGED <<dnsUp, dnsCfg, dnsServing, dnsSocks, dnsRecords, dnsCache, dnsOwner, query, listFile, dnsReloaded, dnsAsked>>

-----------------------------------------------------------------------------
QueryAt(q, pc) == query' = [query EXCEPT ![q].pc = pc]
AnswerQuery(q, answer) == query' = [query EXCEPT ![q].pc = "done", ![q].answer = answer]
QueryOnly == UNCHANGED <<dnsUp, dnsCfg, dnsServing, dnsSocks, blockedNames, dnsRecords, listFile, dnsReloaded>>

AskDns(q, n) ==
    /\ dnsUp /\ dnsSocks[dnsServing] = "open"
    /\ query[q].pc = "idle" /\ dnsAsked < DnsQueries /\ dnsAsked' = dnsAsked + 1
    /\ query' = [query EXCEPT ![q] = [pc |-> "blocked?", name |-> n, answer |-> "none"]]
    /\ QueryOnly /\ UNCHANGED <<dnsCache, dnsOwner>>

CheckBlocked(q) ==
    /\ query[q].pc = "blocked?" /\ DnsUnlocked
    /\ IF query[q].name \in blockedNames THEN AnswerQuery(q, "nxdomain") ELSE QueryAt(q, "cached?")
    /\ QueryOnly /\ UNCHANGED <<dnsCache, dnsOwner, dnsAsked>>

\* An entry that has expired is passed over.
CheckCache(q) ==
    /\ query[q].pc = "cached?" /\ DnsUnlocked
    /\ \/ query[q].name \in dnsCache /\ AnswerQuery(q, "address")
       \/ QueryAt(q, "local?")
    /\ QueryOnly /\ UNCHANGED <<dnsCache, dnsOwner, dnsAsked>>

CheckRecords(q) ==
    /\ query[q].pc = "local?" /\ DnsUnlocked
    /\ IF query[q].name \in dnsRecords THEN AnswerQuery(q, "address") ELSE QueryAt(q, "forward")
    /\ QueryOnly /\ UNCHANGED <<dnsCache, dnsOwner, dnsAsked>>

\* forwardTo: no upstream server answers, or one does; an answer that lives
\* longer than five seconds is cached.
ForwardQuery(q) ==
    /\ query[q].pc = "forward"
    /\ \/ AnswerQuery(q, "failed") \/ QueryAt(q, "snoop") \/ QueryAt(q, "cache")
    /\ QueryOnly /\ UNCHANGED <<dnsCache, dnsOwner, dnsAsked>>

\* cacheResponse keeps the lock until it returns ...
CacheResponse(q) ==
    /\ query[q].pc = "cache" /\ DnsUnlocked
    /\ dnsOwner' = q /\ dnsCache' = dnsCache \cup {query[q].name} /\ QueryAt(q, "snoop")
    /\ QueryOnly /\ UNCHANGED dnsAsked

\* ... and calls snoopResponse, which takes it again for reading.
SnoopResponse(q) ==
    /\ query[q].pc = "snoop" /\ DnsUnlocked /\ AnswerQuery(q, "address")
    /\ QueryOnly /\ UNCHANGED <<dnsCache, dnsOwner, dnsAsked>>

QueryDone(q) ==
    /\ query[q].pc = "done" /\ QueryAt(q, "idle")
    /\ QueryOnly /\ UNCHANGED <<dnsCache, dnsOwner, dnsAsked>>

QueryStep(q) ==
    \/ CheckBlocked(q) \/ CheckCache(q) \/ CheckRecords(q) \/ ForwardQuery(q)
    \/ CacheResponse(q) \/ SnoopResponse(q) \/ QueryDone(q)

DnsNext ==
    \/ \E cfg \in DnsConfigs, d \in ListDownloads : DnsReload(cfg, d)
    \/ \E n \in DnsNames : LeaseRecord(n) \/ ThreatDomains(n)
    \/ \E q \in Queries : QueryStep(q) \/ \E n \in DnsNames : AskDns(q, n)

DnsFairness == \A q \in Queries : WF_dnsVars(QueryStep(q))

DnsSpec == DnsInit /\ [][DnsNext]_dnsVars /\ DnsFairness

-----------------------------------------------------------------------------
\* A configured blocklist stays in force through reloads whose download fails,
\* once a copy of it was kept, whatever else changes the set of blocked names.
BlocklistInForce ==
    (dnsUp /\ dnsCfg.list /\ listFile = "whole") => ListedName \in blockedNames

\* "s.cacheResponse(expiredMsg, expiredMsg) // Use helper" and then further
\* queries: caching an answer ends, and queries are answered.  The first cached
\* answer holds the lock for ever.
QueryAnswered == \A q \in Queries : query[q].pc # "idle" ~> query[q].pc = "idle"
=============================================================================
