------------------------------- MODULE Learning -------------------------------
(***************************************************************************)
(* The learning firewall: packets that reach no rule are turned into flows *)
(* the operator approves or denies (internal/learning, its flow database,  *)
(* internal/ctlplane/nflog.go and nfqueue_linux.go).                       *)
(*                                                                         *)
(* The engine looks a flow up in a cache of verdicts, else in the          *)
(* database, and writes the counters of cached flows back from time to     *)
(* time.  Two goroutines call it: the queue of packets that wait for a     *)
(* verdict and the loop that takes logged packets from a channel.  The     *)
(* operator's calls only change the database.  AllowFlow, DenyFlow and     *)
(* ProcessSNI of the engine are not reached, as the daemon never hands the *)
(* engine to the control plane.                                            *)
(***************************************************************************)
EXTENDS Integers, Sequences, FiniteSets, SequencesExt, FiniteSetsExt, Functions

CONSTANTS
    Packets,       \* the packets seen: records with mac, hw, proto and port
    CacheSize,     \* FlowCache.maxSize
    ChanCap,       \* capacity of the ingest channel
    ScanPorts,     \* portScanThreshold
    ScanWindow, NotifyEvery,   \* portScanWindow and notifyRateLimit
    LearnEnd,      \* bound: end of time
    MaxPackets, MaxDecisions, MaxDeletes   \* bounds

ASSUME LearnAssumption == NotifyEvery \in Nat

VARIABLES
    learnMode,   \* Engine.learningMode, from the configuration
    inline,      \* startInlineLearning: packets wait in the queue for a verdict
    flowRows,        \* learned_flows: id -> [key, state]
    lastId,      \* the AUTOINCREMENT counter
    domainHints,       \* flow_domain_hints: [id, key the domain was found for]
    enrich,      \* hints still to be written: [id, key]
    flowCache,   \* FlowCache: entries, most recently used first
    flushing,    \* dirty flows taken from the cache and not yet written
    ingestChan,        \* Service.ingestChan
    learner,        \* the two goroutines in ProcessPacket
    scan,        \* portScanTracker, per source: ports, since, notified, and
    learnNow,
    ruled,     \* history: per id the operator's last decision and its number
    unlearned,     \* history: the ids the operator deleted
    notices,        \* history: per source when it was last notified about
    packetsSeen, rulings   \* counters for the bounds

learnVars == <<learnMode, inline, flowRows, lastId, domainHints, enrich, flowCache, flushing, ingestChan, learner, scan, learnNow,
               ruled, unlearned, notices, packetsSeen, rulings>>

Learners == {"queue", "ingest"}
NoTime == -1
\* A decision of the operator, with its number.
NoRuling == [state |-> "none", no |-> 0]
IdleLearner == [at |-> "idle", key |-> <<>>, found |-> 0, state |-> "", id |-> 0, fresh |-> NoRuling, verdict |-> ""]

LearnInit ==
    /\ learnMode \in BOOLEAN /\ inline \in BOOLEAN
    /\ flowRows = << >> /\ lastId = 0 /\ domainHints = {} /\ enrich = {} /\ flowCache = << >> /\ flushing = {}
    /\ ingestChan = << >> /\ learner = [p \in Learners |-> IdleLearner]
    /\ scan = << >> /\ learnNow = 0
    /\ ruled = << >> /\ unlearned = {} /\ notices = << >> /\ packetsSeen = 0 /\ rulings = 0

-----------------------------------------------------------------------------
(* Packets become keys                                                     *)

\* parseAttributes and startInlineLearning: the source is taken from a full
\* Ethernet header, else it is the hardware address as given.
QueueKey(pkt) == <<pkt.mac, pkt.proto, pkt.port>>
\* startAsyncLearning does the same for logged packets; the bridge of the ctl
\* command takes the source from a full header only and lowers the protocol's
\* case, so that it reports the same packet under another key.
BridgeKey(pkt) == <<IF pkt.hw = "ethernet" THEN pkt.mac ELSE "none",
                    IF pkt.proto = "TCP" THEN "tcp" ELSE pkt.proto, pkt.port>>

FlowRow(key) == {id \in DOMAIN flowRows : flowRows[id].key = key}
CacheIndex(key) == {i \in DOMAIN flowCache : flowCache[i].key = key}
RulingOf(key) == IF FlowRow(key) \cap DOMAIN ruled = {} THEN NoRuling
                 ELSE ruled[CHOOSE id \in FlowRow(key) \cap DOMAIN ruled : TRUE]

\* A call that has its verdict is over.
AtRest(p) == learner[p].at \in {"idle", "verdict"}

-----------------------------------------------------------------------------
(* ProcessPacket                                                           *)

\* The cache first; a hit counts, moves to the front and is marked dirty.
ProcessPacket(p, key) ==
    IF CacheIndex(key) # {}
    THEN LET i == CHOOSE j \in CacheIndex(key) : TRUE
             e == flowCache[i]
         IN /\ flowCache' = <<[e EXCEPT !.dirty = TRUE]>> \o RemoveAt(flowCache, i)
            /\ learner' = [learner EXCEPT ![p] = [IdleLearner EXCEPT !.at = "verdict", !.key = key, !.id = e.id,
                                               !.verdict = IF e.accept THEN "accept" ELSE "drop"]]
    ELSE /\ learner' = [learner EXCEPT ![p] = [IdleLearner EXCEPT !.at = "find", !.key = key,
                                                         !.fresh = RulingOf(key)]]
         /\ UNCHANGED flowCache

\* The kernel queues a packet and waits for the verdict (handlePacket).
QueuePacket(pkt) ==
    /\ packetsSeen < MaxPackets /\ packetsSeen' = packetsSeen + 1
    /\ inline /\ AtRest("queue") /\ ProcessPacket("queue", QueueKey(pkt))
    /\ UNCHANGED <<learnMode, inline, flowRows, lastId, domainHints, enrich, flushing, ingestChan, scan, learnNow, ruled,
                   unlearned, notices, rulings>>

\* The kernel logs a packet.  The bridge of the ctl command, and the server's
\* unless it runs inline, pass it to the channel or drop it when that is full.
LogPacket(pkt) ==
    /\ packetsSeen < MaxPackets /\ packetsSeen' = packetsSeen + 1
    /\ \E s \in {<<BridgeKey(pkt)>>} \cup
                (IF inline THEN {} ELSE {<<QueueKey(pkt)>>, <<QueueKey(pkt), BridgeKey(pkt)>>}) :
         /\ Len(ingestChan) + Len(s) <= ChanCap
         /\ ingestChan' = ingestChan \o s
    /\ UNCHANGED <<learnMode, inline, flowRows, lastId, domainHints, enrich, flowCache, flushing, learner, scan, learnNow,
                   ruled, unlearned, notices, rulings>>

\* ingestionLoop.
IngestPacket ==
    /\ ingestChan # << >> /\ AtRest("ingest") /\ ProcessPacket("ingest", Head(ingestChan))
    /\ ingestChan' = Tail(ingestChan)
    /\ UNCHANGED <<learnMode, inline, flowRows, lastId, domainHints, enrich, flushing, scan, learnNow, ruled, unlearned,
                   notices, packetsSeen, rulings>>

\* FindFlow; a database error ends the call, and the queue lets the packet pass.
FindFlow(p) ==
    LET q == learner[p]
        id == IF FlowRow(q.key) = {} THEN 0 ELSE CHOOSE i \in FlowRow(q.key) : TRUE
    IN
    /\ q.at = "find"
    /\ \/ learner' = [learner EXCEPT ![p].at = "upsert", ![p].found = id,
                         ![p].state = IF id # 0 THEN flowRows[id].state
                                      ELSE IF learnMode THEN "allowed" ELSE "pending"]
       \/ learner' = [learner EXCEPT ![p] = [IdleLearner EXCEPT !.at = "verdict", !.verdict = "error"]]
    /\ UNCHANGED <<learnMode, inline, flowRows, lastId, domainHints, enrich, flowCache, flushing, ingestChan, scan, learnNow,
                   ruled, unlearned, notices, packetsSeen, rulings>>

\* The id a row inserted now would get.
NewId == lastId + 1

\* Mutant: the row takes the state the caller knows.
UpsertFlow_SetsState(key, state) ==
    IF FlowRow(key) # {}
    THEN LET id == CHOOSE i \in FlowRow(key) : TRUE
         IN flowRows' = [flowRows EXCEPT ![id].state = state] /\ lastId' = lastId
    ELSE /\ lastId' = NewId
         /\ flowRows' = [i \in DOMAIN flowRows \cup {NewId} |->
                            IF i = NewId THEN [key |-> key, state |-> state] ELSE flowRows[i]]

\* UpsertFlow: an existing row keeps its state; a new one takes the state the
\* caller knows, also when the row it had read was deleted meanwhile.
UpsertFlow(key, state) ==
    IF FlowRow(key) # {}
    THEN UNCHANGED <<flowRows, lastId>>
    ELSE /\ lastId' = NewId
         /\ flowRows' = [i \in DOMAIN flowRows \cup {NewId} |->
                            IF i = NewId THEN [key |-> key, state |-> state] ELSE flowRows[i]]

FlowRowId(key) == IF FlowRow(key) # {} THEN CHOOSE i \in FlowRow(key) : TRUE ELSE NewId

\* Mutant: only approval is looked at.
VerdictOf_NoDeny(state) == IF state = "allowed" THEN TRUE ELSE learnMode
\* The verdict of the flow's state: pending flows pass in learning mode.
VerdictOf(state) == IF state = "allowed" THEN TRUE ELSE IF state = "denied" THEN FALSE ELSE learnMode

\* Put: the least recently used entry makes room.
CachePut(e) ==
    flowCache' = IF CacheIndex(e.key) # {}
                 THEN <<e>> \o RemoveAt(flowCache, CHOOSE i \in CacheIndex(e.key) : TRUE)
                 ELSE <<e>> \o (IF Len(flowCache) >= CacheSize THEN Front(flowCache) ELSE flowCache)

\* The row is written; for a known flow the verdict is cached at once.
SaveFlow(p) ==
    LET q == learner[p]
    IN /\ q.at = "upsert"
       /\ UpsertFlow(q.key, q.state)
       /\ learner' = [learner EXCEPT ![p].at = "put", ![p].id = FlowRowId(q.key)]
       /\ UNCHANGED <<learnMode, inline, domainHints, enrich, flowCache, flushing, ingestChan, scan, learnNow, ruled,
                      unlearned, notices, packetsSeen, rulings>>

\* Mutant: the number is the one the database gave out last.
HintFor_LastId(q) == [id |-> lastId, key |-> q.key]
\* The goroutine that looks the domain up is given the flow's number.
HintFor(q) == [id |-> q.id, key |-> q.key]

\* The verdict is cached; a new flow's is the learning mode, whatever the row
\* says, and the domain of its address is looked up in the background.
PutVerdict(p) ==
    LET q == learner[p]
        accept == IF q.found = 0 THEN learnMode ELSE VerdictOf(q.state)
    IN /\ q.at = "put"
       /\ CachePut([key |-> q.key, id |-> q.id, state |-> q.state, accept |-> accept, dirty |-> FALSE])
       /\ enrich' = IF q.found = 0 THEN enrich \cup {HintFor(q)} ELSE enrich
       /\ learner' = [learner EXCEPT ![p].at = IF q.found = 0 /\ ~learnMode THEN "notify" ELSE "verdict",
                               ![p].verdict = IF accept THEN "accept" ELSE "drop"]
       /\ UNCHANGED <<learnMode, inline, flowRows, lastId, domainHints, flushing, ingestChan, scan, learnNow, ruled, unlearned,
                      notices, packetsSeen, rulings>>

\* isPortScan: the ports of the source in the window, including this one.
Scanned(mac, port) ==
    IF mac \notin DOMAIN scan \/ learnNow - scan[mac].since > ScanWindow
    THEN [ports |-> {port}, since |-> learnNow,
          last |-> IF mac \in DOMAIN scan THEN scan[mac].last ELSE NoTime]
    ELSE [scan[mac] EXCEPT !.ports = @ \cup {port}]

\* Mutant: the time of the notification is not kept.
Notified_Forgets(s) == s
\* shouldNotify records the time of the notification it grants.
Notified(s) == [s EXCEPT !.last = learnNow]

\* A new flow is reported unless its source scans ports or was reported lately.
NotifyFlow(p) ==
    LET mac == learner[p].key[1]
        s == Scanned(mac, learner[p].key[3])
        tell == /\ Cardinality(s.ports) < ScanPorts
                /\ s.last = NoTime \/ learnNow - s.last >= NotifyEvery
    IN /\ learner[p].at = "notify"
       /\ scan' = [m \in DOMAIN scan \cup {mac} |->
                      IF m = mac THEN (IF tell THEN Notified(s) ELSE s) ELSE scan[m]]
       /\ notices' = IF tell THEN Append(notices, <<mac, learnNow>>) ELSE notices
       /\ learner' = [learner EXCEPT ![p].at = "verdict"]
       /\ UNCHANGED <<learnMode, inline, flowRows, lastId, domainHints, enrich, flowCache, flushing, ingestChan, learnNow,
                      ruled, unlearned, packetsSeen, rulings>>

-----------------------------------------------------------------------------
(* Workers and the operator                                                *)

\* enrichFlowWithDNS and reverseDNSWorker; the queue may be full.
AddHint(h) ==
    /\ h \in enrich /\ enrich' = enrich \ {h}
    /\ domainHints' \in {domainHints, domainHints \cup {h}}
    /\ UNCHANGED <<learnMode, inline, flowRows, lastId, flowCache, flushing, ingestChan, learner, scan, learnNow, ruled,
                   unlearned, notices, packetsSeen, rulings>>

\* FlushDirty takes the dirty flows, flushDirtyEntries writes them one by one.
FlushDirty ==
    /\ flushing = {} /\ \E i \in DOMAIN flowCache : flowCache[i].dirty
    /\ flushing' = {flowCache[i] : i \in {j \in DOMAIN flowCache : flowCache[j].dirty}}
    /\ flowCache' = [i \in DOMAIN flowCache |-> [flowCache[i] EXCEPT !.dirty = FALSE]]
    /\ UNCHANGED <<learnMode, inline, flowRows, lastId, domainHints, enrich, ingestChan, learner, scan, learnNow, ruled, unlearned,
                   notices, packetsSeen, rulings>>
FlushOne(e) ==
    /\ e \in flushing /\ flushing' = flushing \ {e}
    /\ UpsertFlow(e.key, e.state)
    /\ UNCHANGED <<learnMode, inline, domainHints, enrich, flowCache, ingestChan, learner, scan, learnNow, ruled, unlearned,
                   notices, packetsSeen, rulings>>

FlowExpired(id) == flowRows[id].state = "pending"

\* Cleanup: old pending flows go.  Which rows are old is left open.
CleanupFlow(id) ==
    /\ id \in DOMAIN flowRows /\ FlowExpired(id)
    /\ flowRows' = [i \in DOMAIN flowRows \ {id} |-> flowRows[i]]
    /\ UNCHANGED <<learnMode, inline, lastId, domainHints, enrich, flowCache, flushing, ingestChan, learner, scan, learnNow,
                   ruled, unlearned, notices, packetsSeen, rulings>>

\* ApproveRule, DenyRule and IgnoreRule: the row is updated, the cache is not.
DecideRule(id, state) ==
    /\ id \in DOMAIN flowRows /\ rulings < MaxDecisions /\ rulings' = rulings + 1
    /\ flowRows' = [flowRows EXCEPT ![id].state = state]
    /\ ruled' = [i \in DOMAIN ruled \cup {id} |->
                   IF i = id THEN [state |-> state, no |-> rulings + 1] ELSE ruled[i]]
    /\ UNCHANGED <<learnMode, inline, lastId, domainHints, enrich, flowCache, flushing, ingestChan, learner, scan, learnNow,
                   unlearned, notices, packetsSeen>>

\* DeleteRule: hints stay behind, as foreign keys are not enforced.
DeleteRule(id) ==
    /\ id \in DOMAIN flowRows /\ Cardinality(unlearned) < MaxDeletes
    /\ flowRows' = [i \in DOMAIN flowRows \ {id} |-> flowRows[i]]
    /\ unlearned' = unlearned \cup {id}
    /\ UNCHANGED <<learnMode, inline, lastId, domainHints, enrich, flowCache, flushing, ingestChan, learner, scan, learnNow,
                   ruled, notices, packetsSeen, rulings>>

LearnTick ==
    /\ learnNow < LearnEnd /\ learnNow' = learnNow + 1
    /\ UNCHANGED <<learnMode, inline, flowRows, lastId, domainHints, enrich, flowCache, flushing, ingestChan, learner, scan,
                   ruled, unlearned, notices, packetsSeen, rulings>>

LearnNext ==
    \/ \E pkt \in Packets : QueuePacket(pkt) \/ LogPacket(pkt)
    \/ IngestPacket \/ FlushDirty \/ LearnTick
    \/ \E p \in Learners : FindFlow(p) \/ SaveFlow(p) \/ PutVerdict(p) \/ NotifyFlow(p)
    \/ \E h \in enrich : AddHint(h)
    \/ \E e \in flushing : FlushOne(e)
    \/ \E id \in DOMAIN flowRows : \/ CleanupFlow(id) \/ DeleteRule(id)
                               \/ DecideRule(id, "allowed") \/ DecideRule(id, "denied")

LearnSpec == LearnInit /\ [][LearnNext]_learnVars

-----------------------------------------------------------------------------
(* Properties                                                              *)

\* The operator's decision stays until the operator changes it: neither
\* packets, nor counters written back from a cache that knows an older state,
\* nor the cleanup of old flows change or remove it.
DecisionsKept ==
    \A id \in DOMAIN ruled :
        IF id \in DOMAIN flowRows THEN flowRows[id].state = ruled[id].state ELSE id \in unlearned

\* A packet whose flow was not in the cache when it came is treated as the
\* operator had decided by then, if that very decision still stands.
MissFollowsDecision ==
    \A p \in Learners :
        LET q == learner[p]
        IN q.at = "verdict" /\ q.fresh # NoRuling /\ RulingOf(q.key) = q.fresh =>
               q.verdict \in {IF q.fresh.state = "allowed" THEN "accept" ELSE "drop", "error"}

\* A domain found for a flow is never shown with another one, although hints
\* arrive late and outlive their flow.
HintsBelong == \A h \in domainHints : h.id \in DOMAIN flowRows => flowRows[h.id].key = h.key

\* A source is reported at most once per interval, whichever goroutine sees it.
NotifyRate ==
    \A i, j \in DOMAIN notices :
        i < j /\ notices[i][1] = notices[j][1] => notices[j][2] - notices[i][2] >= NotifyEvery

-----------------------------------------------------------------------------
(***************************************************************************)
(* The flow database as a package: the triage of learned flows by number,  *)
(* the hints of a flow, the reminders, the clean-up, and the snapshot with *)
(* which a partner instance is filled.                                     *)
(*                                                                         *)
(* Source: internal/learning/flowdb/flowdb.go, with the triage operations  *)
(* of internal/learning/engine.go that call it.                            *)
(*                                                                         *)
(* Every statement is one transaction of SQLite; an operation of several   *)
(* statements is several steps.  The operator decides on what a list       *)
(* showed (fdShown), which may be stale.  The database is opened without   *)
(* the foreign key pragma, so a deleted flow's hints stay.  No operation   *)
(* calls logChange: the change log is empty, its version stays 0 and a     *)
(* partner gets whole snapshots.  A reminder is kept without its date, and  *)
(* of a partner's row only the fingerprint.  Occurrences, texts and        *)
(* addresses are left out.                                                 *)
(***************************************************************************)

CONSTANTS
  Fingerprints,   \* (source MAC, protocol, port) of a flow
  Retention,      \* retentionDays
  MaxFlowNo,      \* bound: row numbers given out
  MaxDay,         \* bound: days
  MaxExports      \* bound: snapshots taken

VARIABLES
  fdRows,    \* learned_flows: number -> row
  fdSeq,     \* sqlite_sequence of learned_flows
  fdHints,   \* flow_domain_hints, with the flow they were found for
  fdShown,   \* the last list the operator was shown: number -> fingerprint
  fdPeek,    \* an annotation that has found its flow and not yet written
  fdScrut,   \* AllowWithScrutiny between its two statements, 0 when none
  fdTold,    \* fingerprint -> the operator's last word on it
  fdExport,  \* the snapshot being read
  fdPeer,    \* the partner's flows and hints
  fdDay

fdVars == <<fdRows, fdSeq, fdHints, fdShown, fdPeek, fdScrut, fdTold, fdExport, fdPeer, fdDay>>

FdNoPeek == [no |-> 0, fp |-> "none"]
FdNoExport == [at |-> "idle", rows |-> <<>>, count |-> 0]

\* Open and initSchema on an empty file, here and at the partner.
FdInit ==
  /\ fdRows = <<>> /\ fdSeq = 0 /\ fdHints = {}
  /\ fdShown = <<>> /\ fdPeek = FdNoPeek /\ fdScrut = 0
  /\ fdTold = [f \in Fingerprints |-> "pending"]
  /\ fdExport = FdNoExport
  /\ fdPeer = [rows |-> <<>>, hints |-> {}]
  /\ fdDay = 0

\* FindFlow: the rows of a fingerprint (at most one, by the unique constraint).
FdFind(f) == {n \in DOMAIN fdRows : fdRows[n].fp = f}

\* AUTOINCREMENT: a number is never given out twice.
FdNewNumber == fdSeq + 1

FdRow(f, s) == [fp |-> f, state |-> s, last |-> fdDay, scrutiny |-> FALSE]

\* ON CONFLICT DO UPDATE: the row keeps its state and its reminder.
FdUpserted(f, s) ==
  LET n == CHOOSE n \in FdFind(f) : TRUE
  IN [fdRows EXCEPT ![n].last = fdDay]

\* UpsertFlow, with the state its caller gives a flow it takes for new; a flow allowed
\* by learning mode is left out here.
FdUpsert(f, s) ==
  /\ \/ /\ FdFind(f) # {}
        /\ fdRows' = FdUpserted(f, s)
        /\ UNCHANGED fdSeq
     \/ /\ FdFind(f) = {} /\ FdNewNumber <= MaxFlowNo
        /\ fdRows' = [n \in DOMAIN fdRows \cup {FdNewNumber} |->
                        IF n = FdNewNumber THEN FdRow(f, s) ELSE fdRows[n]]
        /\ fdSeq' = Max({fdSeq, FdNewNumber})

\* A packet of the flow is seen.
FdSighting(f) ==
  /\ FdUpsert(f, "pending")
  /\ UNCHANGED <<fdHints, fdShown, fdPeek, fdScrut, fdTold, fdExport, fdPeer, fdDay>>

\* LastInsertId after the statement: right only when it inserted.
FdNumberOf_LastInsert(f) == IF FdFind(f) # {} THEN fdSeq ELSE FdNewNumber
\* RETURNING id: the number of the row found or made.
FdNumberOf(f) == IF FdFind(f) # {} THEN CHOOSE n \in FdFind(f) : TRUE ELSE FdNewNumber

\* ProcessSNI, first half: find the flow, or make it, and remember its number.
FdAnnotate(f) ==
  /\ fdPeek = FdNoPeek
  /\ FdUpsert(f, "pending")
  /\ fdPeek' = [no |-> FdNumberOf(f), fp |-> f]
  /\ UNCHANGED <<fdHints, fdShown, fdScrut, fdTold, fdExport, fdPeer, fdDay>>

\* AddHint: the insert does not ask whether the flow is still there.
FdAddHint ==
  /\ fdPeek # FdNoPeek
  /\ fdHints' = fdHints \cup {fdPeek}
  /\ fdPeek' = FdNoPeek
  /\ UNCHANGED <<fdRows, fdSeq, fdShown, fdScrut, fdTold, fdExport, fdPeer, fdDay>>

\* ListFlowsWithHints: what the operator sees.
FdList ==
  /\ fdShown' = [n \in DOMAIN fdRows |-> fdRows[n].fp]
  /\ UNCHANGED <<fdRows, fdSeq, fdHints, fdPeek, fdScrut, fdTold, fdExport, fdPeer, fdDay>>

\* GetHints, GetBestHint: the hints a flow is shown with.
FdHintsOf(rows, hints, n) == IF n \in DOMAIN rows THEN {h \in hints : h.no = n} ELSE {}

\* UpdateState: an error, and nothing done, when the row is gone.
FdUpdateState(n, s) ==
  /\ n \in DOMAIN fdShown
  /\ n \in DOMAIN fdRows
  /\ fdRows' = [fdRows EXCEPT ![n].state = s]
  /\ fdTold' = [fdTold EXCEPT ![fdShown[n]] = s]

\* AllowFlow, DenyFlow.
FdDecide(n, s) ==
  /\ FdUpdateState(n, s)
  /\ UNCHANGED <<fdSeq, fdHints, fdShown, fdPeek, fdScrut, fdExport, fdPeer, fdDay>>

\* AllowWithScrutiny: the state, then the reminder.
FdAllowWithScrutiny(n) ==
  /\ fdScrut = 0
  /\ FdUpdateState(n, "allowed")
  /\ fdScrut' = n
  /\ UNCHANGED <<fdSeq, fdHints, fdShown, fdPeek, fdExport, fdPeer, fdDay>>

\* SetScrutiny changes no row, without an error, when the flow is gone.
FdSetScrutiny ==
  /\ fdScrut # 0
  /\ fdRows' = IF fdScrut \in DOMAIN fdRows
               THEN [fdRows EXCEPT ![fdScrut].scrutiny = TRUE]
               ELSE fdRows
  /\ fdScrut' = 0
  /\ UNCHANGED <<fdSeq, fdHints, fdShown, fdPeek, fdTold, fdExport, fdPeer, fdDay>>

\* BulkUpdateState: the rows of the list that are still there; for one row it is FdDecide.
FdBulkUpdate(ns, s) ==
  /\ Cardinality(ns) > 1 /\ ns \subseteq DOMAIN fdShown
  /\ fdRows' = [n \in DOMAIN fdRows |-> IF n \in ns THEN [fdRows[n] EXCEPT !.state = s] ELSE fdRows[n]]
  /\ fdTold' = [f \in Fingerprints |->
                  IF \E n \in ns \cap DOMAIN fdRows : fdShown[n] = f THEN s ELSE fdTold[f]]
  /\ UNCHANGED <<fdSeq, fdHints, fdShown, fdPeek, fdScrut, fdExport, fdPeer, fdDay>>

\* AllowAllPending, whatever has arrived since the list was shown.
FdAllowAllPending ==
  /\ fdRows' = [n \in DOMAIN fdRows |->
                  IF fdRows[n].state = "pending" THEN [fdRows[n] EXCEPT !.state = "allowed"] ELSE fdRows[n]]
  /\ fdTold' = [f \in Fingerprints |->
                  IF \E n \in DOMAIN fdRows : fdRows[n].fp = f /\ fdRows[n].state = "pending"
                  THEN "allowed" ELSE fdTold[f]]
  /\ UNCHANGED <<fdSeq, fdHints, fdShown, fdPeek, fdScrut, fdExport, fdPeer, fdDay>>

\* DeleteFlow: the row only; its hints stay.
FdDelete(n) ==
  /\ n \in DOMAIN fdShown \cap DOMAIN fdRows
  /\ fdRows' = Restrict(fdRows, DOMAIN fdRows \ {n})
  /\ fdTold' = [fdTold EXCEPT ![fdShown[n]] = "pending"]
  /\ UNCHANGED <<fdSeq, fdHints, fdShown, fdPeek, fdScrut, fdExport, fdPeer, fdDay>>

\* The retention counts for every row.
FdOld_AnyState(days) == {n \in DOMAIN fdRows : fdRows[n].last < fdDay - days}
\* Pending rows not seen for more than so many days.
FdOld(days) == {n \in DOMAIN fdRows : fdRows[n].state = "pending" /\ fdRows[n].last < fdDay - days}

\* Cleanup: the rows seen last on the day the retention reaches back to are past it
\* or not, by the time of day.
FdCleanup ==
  \E days \in {Retention - 1, Retention} :
    /\ FdOld(days) # {}
    /\ fdRows' = Restrict(fdRows, DOMAIN fdRows \ FdOld(days))
    /\ UNCHANGED <<fdSeq, fdHints, fdShown, fdPeek, fdScrut, fdTold, fdExport, fdPeer, fdDay>>

\* ExportSnapshot: the version, then the flows, ...
FdExportFlows ==
  /\ fdExport.at = "idle" /\ fdExport.count < MaxExports
  /\ fdExport' = [at |-> "hints", rows |-> [n \in DOMAIN fdRows |-> fdRows[n].fp], count |-> fdExport.count + 1]
  /\ UNCHANGED <<fdRows, fdSeq, fdHints, fdShown, fdPeek, fdScrut, fdTold, fdPeer, fdDay>>

\* ... then, in another statement, the hints; ImportSnapshot at the partner is one
\* transaction: everything is replaced (the reminders are not carried over).
FdImportSnapshot ==
  /\ fdExport.at = "hints"
  /\ fdPeer' = [rows |-> fdExport.rows, hints |-> fdHints]
  /\ fdExport' = [FdNoExport EXCEPT !.count = fdExport.count]
  /\ UNCHANGED <<fdRows, fdSeq, fdHints, fdShown, fdPeek, fdScrut, fdTold, fdDay>>

FdNextDay ==
  /\ fdDay < MaxDay
  /\ fdDay' = fdDay + 1
  /\ UNCHANGED <<fdRows, fdSeq, fdHints, fdShown, fdPeek, fdScrut, fdTold, fdExport, fdPeer>>

FdNext ==
  \/ \E f \in Fingerprints : FdSighting(f) \/ FdAnnotate(f)
  \/ \E n \in 1 .. MaxFlowNo, s \in {"allowed", "denied"} : FdDecide(n, s)
  \/ \E n \in 1 .. MaxFlowNo : FdAllowWithScrutiny(n) \/ FdDelete(n)
  \/ \E ns \in SUBSET (1 .. MaxFlowNo), s \in {"allowed", "denied"} : FdBulkUpdate(ns, s)
  \/ FdAddHint \/ FdList \/ FdSetScrutiny \/ FdAllowAllPending \/ FdCleanup
  \/ FdExportFlows \/ FdImportSnapshot \/ FdNextDay

FdSpec == FdInit /\ [][FdNext]_fdVars

----------------------------------------------------------------------------
\* The database holds for every flow exactly the operator's last word: sightings,
\* clean-up, retention and decisions on an outdated list change nothing else.
\* (UpsertFlow, UpdateState, BulkUpdateState, Cleanup.)
OperatorDecisions ==
  \A f \in Fingerprints :
    IF FdFind(f) = {} THEN fdTold[f] = "pending"
    ELSE \A n \in FdFind(f) : fdRows[n].state = fdTold[f]

\* A hint is shown only with the flow it was found for, here and at the partner as
\* filled by the snapshot, although hints outlive their flow. (AddHint, GetHints.)
HintsOfTheirFlow ==
  /\ \A n \in DOMAIN fdRows : \A h \in FdHintsOf(fdRows, fdHints, n) : h.fp = fdRows[n].fp
  /\ \A n \in DOMAIN fdPeer.rows :
       \A h \in FdHintsOf(fdPeer.rows, fdPeer.hints, n) : h.fp = fdPeer.rows[n]
=============================================================================
