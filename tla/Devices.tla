------------------------------ MODULE Devices ------------------------------
(***************************************************************************)
(* What the router knows of the devices around it: the discovery collector *)
(* (one goroutine applies packets, mDNS and DHCP events; others enrich and *)
(* save), the device identities a user links hardware addresses to, and    *)
(* the start and stop of the mDNS reflector that feeds the collector.      *)
(***************************************************************************)
EXTENDS Integers, Sequences, FiniteSets

CONSTANTS Macs, DevIPs,
          PublicIPs,       \* the addresses of DevIPs that are not private
          Identities, Updaters,
          EnrichSlots,     \* capacity of enrichQueue
          DevSteps         \* bound: events and requests

VARIABLES seen,        \* c.devices: [known, ips, gateway, alias, fresh] per address
          enriched, enrichQueue,
          devFile,     \* storagePath: "none", "torn", or the devices saved
          devTmp,      \* its ".tmp", shared by all savers
          saver,       \* the periodic worker and Stop: [pc, data]
          idCache, idStore,     \* identities: version, 0 = none
          linkCache, linkStore, \* address -> identity or NoLink
          updater,     \* UpdateIdentity in progress: [pc, id, version]
          refl,        \* reflector: [on, mu, loop, stop]
          devSteps

collVars == <<seen, enriched, enrichQueue, devFile, devTmp, saver>>
identVars == <<idCache, idStore, linkCache, linkStore, updater>>
devVars == <<collVars, identVars, refl, devSteps>>

NoLink == "none"
Unseen == [known |-> FALSE, ips |-> {}, gateway |-> FALSE, alias |-> "none", fresh |-> FALSE]
NewDevice(fresh) == [Unseen EXCEPT !.known = TRUE, !.fresh = fresh]
NothingSeen == [m \in Macs |-> Unseen]
Savers == {"worker", "stop"}

DevInit ==
    /\ seen = NothingSeen /\ enriched = {} /\ enrichQueue = <<>>
    /\ devFile = [kind |-> "none", data |-> NothingSeen] /\ devTmp = devFile
    /\ saver = [s \in Savers |-> [pc |-> "idle", data |-> NothingSeen]]
    /\ idCache = [i \in Identities |-> 0] /\ idStore = idCache
    /\ linkCache = [m \in Macs |-> NoLink] /\ linkStore = linkCache
    /\ updater = [u \in Updaters |-> [pc |-> "idle", id |-> "none", version |-> 0]]
    /\ refl = [on |-> FALSE, mu |-> "free", loop |-> "none", stop |-> "idle"]
    /\ devSteps = 0

DevStep == devSteps < DevSteps /\ devSteps' = devSteps + 1

-----------------------------------------------------------------------------
\* queueEnrichment gives up when the queue is full.
Queued(m) ==
    IF m \notin enriched /\ Len(enrichQueue) < EnrichSlots THEN Append(enrichQueue, m) ELSE enrichQueue

\* processEvent: an address that sends from public addresses is a gateway and
\* has no addresses of its own.
AfterPacket_KeepIPs(d, ip) ==
    LET gateway == d.gateway \/ ip \in PublicIPs
    IN  [d EXCEPT !.gateway = gateway, !.ips = IF gateway THEN d.ips ELSE d.ips \cup {ip}]
AfterPacket(d, ip) ==
    LET gateway == d.gateway \/ ip \in PublicIPs
    IN  [d EXCEPT !.gateway = gateway, !.ips = IF gateway THEN {} ELSE d.ips \cup {ip}]
SeePacket(m, ip) ==
    /\ DevStep
    /\ seen' = [seen EXCEPT ![m] = AfterPacket(IF @.known THEN @ ELSE NewDevice(TRUE), ip)]
    /\ enrichQueue' = IF seen[m].known THEN enrichQueue ELSE Queued(m)
    /\ UNCHANGED <<enriched, devFile, devTmp, saver, identVars, refl>>

\* A friendly name fills an empty alias.
Announced(d) == [d EXCEPT !.alias = IF @ = "none" THEN "announced" ELSE @]

\* processMDNSEvent: an event without a hardware address comes again after an
\* ARP probe, or never.
ProcessMDNS(m) ==
    /\ DevStep
    /\ seen' = [seen EXCEPT ![m] = Announced(IF @.known THEN @ ELSE NewDevice(FALSE))]
    /\ UNCHANGED <<enriched, enrichQueue, devFile, devTmp, saver, identVars, refl>>

ProcessDHCP(m) ==
    /\ DevStep /\ seen' = [seen EXCEPT ![m] = IF @.known THEN @ ELSE NewDevice(FALSE)]
    /\ UNCHANGED <<enriched, enrichQueue, devFile, devTmp, saver, identVars, refl>>

\* UpdateDevice: only a device that is known.
UpdateDevice(m) ==
    /\ DevStep /\ seen[m].known /\ seen' = [seen EXCEPT ![m].alias = "user"]
    /\ UNCHANGED <<enriched, enrichQueue, devFile, devTmp, saver, identVars, refl>>

Enrich ==
    /\ enrichQueue # <<>> /\ enrichQueue' = Tail(enrichQueue)
    /\ enriched' = enriched \cup {m \in {Head(enrichQueue)} : seen[m].known}
    /\ seen' = [seen EXCEPT ![Head(enrichQueue)].fresh = FALSE]
    /\ UNCHANGED <<devFile, devTmp, saver, identVars, refl, devSteps>>

-----------------------------------------------------------------------------
\* Save: a copy under the lock, the file beside the old one, the rename.
SaveCopy(s) ==
    /\ DevStep /\ saver[s].pc = "idle" /\ saver' = [saver EXCEPT ![s] = [pc |-> "open", data |-> seen]]
    /\ UNCHANGED <<seen, enriched, enrichQueue, devFile, devTmp, identVars, refl>>
SaveStep(s, from, to) ==
    /\ saver[s].pc = from /\ saver' = [saver EXCEPT ![s].pc = to]
    /\ UNCHANGED <<seen, enriched, enrichQueue, identVars, refl, devSteps>>
SaveOpen(s) == SaveStep(s, "open", "write") /\ devTmp' = [devTmp EXCEPT !.kind = "torn"] /\ UNCHANGED devFile
\* The open file follows a rename by the other saver.
SaveWrite(s) ==
    LET whole == [kind |-> "whole", data |-> saver[s].data]
    IN  /\ SaveStep(s, "write", "rename")
        /\ IF devTmp.kind = "none" THEN devFile' = whole /\ UNCHANGED devTmp
           ELSE devTmp' = whole /\ UNCHANGED devFile
SaveRename(s) ==
    /\ SaveStep(s, "rename", "idle")
    /\ devFile' = IF devTmp.kind = "none" THEN devFile ELSE devTmp
    /\ devTmp' = [devTmp EXCEPT !.kind = "none"]

\* A crash, and Load: an unreadable file is as good as none; a device not
\* seen for 30 days is left out.
LoadedDevices == IF devFile.kind = "whole" THEN devFile.data ELSE NothingSeen
DevRestart ==
    /\ DevStep
    /\ \E old \in SUBSET Macs : seen' = [m \in Macs |-> IF m \in old THEN Unseen ELSE LoadedDevices[m]]
    /\ enriched' = {} /\ enrichQueue' = <<>>
    /\ saver' = [s \in Savers |-> [pc |-> "idle", data |-> NothingSeen]]
    /\ idCache' = idStore /\ linkCache' = linkStore
    /\ updater' = [u \in Updaters |-> [pc |-> "idle", id |-> "none", version |-> 0]]
    /\ refl' = [on |-> FALSE, mu |-> "free", loop |-> "none", stop |-> "idle"]
    /\ UNCHANGED <<devFile, devTmp, idStore, linkStore>>

-----------------------------------------------------------------------------
\* CreateIdentity and UpdateIdentity; an update copies the identity, persists
\* it without the lock, and then replaces the cached one.
CreateIdentity(i) ==
    /\ DevStep /\ idStore[i] = 0 /\ idStore' = [idStore EXCEPT ![i] = 1] /\ idCache' = [idCache EXCEPT ![i] = 1]
    /\ UNCHANGED <<collVars, linkCache, linkStore, updater, refl>>
UpdateBegin(u, i) ==
    /\ DevStep /\ updater[u].pc = "idle" /\ idCache[i] > 0
    /\ updater' = [updater EXCEPT ![u] = [pc |-> "persist", id |-> i, version |-> devSteps + 2]]
    /\ UNCHANGED <<collVars, idCache, idStore, linkCache, linkStore, refl>>
UpdatePersist(u, ok) ==
    /\ updater[u].pc = "persist"
    /\ idStore' = IF ok THEN [idStore EXCEPT ![updater[u].id] = updater[u].version] ELSE idStore
    /\ updater' = [updater EXCEPT ![u].pc = IF ok THEN "cache" ELSE "idle"]
    /\ UNCHANGED <<collVars, idCache, linkCache, linkStore, refl, devSteps>>
UpdateCache(u) ==
    /\ updater[u].pc = "cache"
    /\ idCache' = [idCache EXCEPT ![updater[u].id] = updater[u].version]
    /\ updater' = [updater EXCEPT ![u].pc = "idle"]
    /\ UNCHANGED <<collVars, idStore, linkCache, linkStore, refl, devSteps>>

\* LinkMAC and UnlinkMAC: the store first, under the lock.
Linkable_Any(i) == TRUE
Linkable(i) == idCache[i] > 0
LinkMAC(m, i) ==
    /\ DevStep /\ Linkable(i)
    /\ linkStore' = [linkStore EXCEPT ![m] = i] /\ linkCache' = [linkCache EXCEPT ![m] = i]
    /\ UNCHANGED <<collVars, idCache, idStore, updater, refl>>
UnlinkMAC(m) ==
    /\ DevStep
    /\ linkStore' = [linkStore EXCEPT ![m] = NoLink] /\ linkCache' = [linkCache EXCEPT ![m] = NoLink]
    /\ UNCHANGED <<collVars, idCache, idStore, updater, refl>>

-----------------------------------------------------------------------------
(* The reflector: Start launches a loop that tries to bind until it does;  *)
(* an attempt takes r.mu.  Stop takes r.mu and then waits for the loop.    *)
ReflStart ==
    /\ DevStep /\ ~refl.on /\ refl.mu = "free" /\ refl.stop = "idle"
    /\ refl' = [refl EXCEPT !.on = TRUE, !.loop = "trying"]
    /\ UNCHANGED <<collVars, identVars>>
ReflAttempt(ok) ==
    /\ refl.loop = "trying" /\ refl.mu = "free"
    /\ refl' = [refl EXCEPT !.loop = IF ok THEN "serving" ELSE "waiting"]
    /\ UNCHANGED <<collVars, identVars, devSteps>>
\* The ticker and the end of the context may both be ready: either is taken.
ReflLoop ==
    /\ \/ refl.loop = "waiting" /\ refl' = [refl EXCEPT !.loop = "trying"]
       \/ refl.loop \in {"waiting", "serving"} /\ ~refl.on /\ refl' = [refl EXCEPT !.loop = "none"]
    /\ UNCHANGED <<collVars, identVars, devSteps>>
ReflStop ==
    /\ DevStep /\ refl.stop = "idle" /\ refl.mu = "free" /\ refl.on
    /\ refl' = [refl EXCEPT !.on = FALSE, !.mu = "stop", !.stop = "waits"]
    /\ UNCHANGED <<collVars, identVars>>
ReflStopped ==
    /\ refl.stop = "waits" /\ refl.loop = "none"
    /\ refl' = [refl EXCEPT !.mu = "free", !.stop = "idle"]
    /\ UNCHANGED <<collVars, identVars, devSteps>>

ReflNext == ReflStart \/ (\E ok \in BOOLEAN : ReflAttempt(ok)) \/ ReflLoop \/ ReflStop \/ ReflStopped
SaveNext == \E s \in Savers : SaveCopy(s) \/ SaveOpen(s) \/ SaveWrite(s) \/ SaveRename(s)
DevNext ==
    \/ \E m \in Macs : ProcessMDNS(m) \/ ProcessDHCP(m) \/ UpdateDevice(m) \/ UnlinkMAC(m)
    \/ \E m \in Macs, ip \in DevIPs : SeePacket(m, ip)
    \/ Enrich \/ SaveNext \/ DevRestart
    \/ \E i \in Identities : CreateIdentity(i) \/ \E m \in Macs : LinkMAC(m, i)
    \/ \E u \in Updaters : (\E i \in Identities : UpdateBegin(u, i)) \/ UpdateCache(u)
                           \/ \E ok \in BOOLEAN : UpdatePersist(u, ok)
    \/ ReflNext

-----------------------------------------------------------------------------
\* A gateway never collects the addresses of the traffic it passes on, in
\* whatever order its packets, restarts and reloaded files come.
GatewayHasNoAddresses == \A m \in Macs : seen[m].gateway => seen[m].ips = {}

\* Every link, in the store and in memory, refers to an identity that exists,
\* also right after a restart.
LinksResolve ==
    \A m \in Macs :
        /\ linkStore[m] # NoLink => idStore[linkStore[m]] > 0
        /\ linkCache[m] # NoLink => idCache[linkCache[m]] > 0
=============================================================================
