---------------------------- MODULE NetServices ----------------------------
(***************************************************************************)
(* The small services the daemon starts beside DNS and DHCP, each a loop   *)
(* of its own: time (NTP), dynamic DNS, threat intelligence, router        *)
(* advertisements and the address sets filled from DNS names.              *)
(*                                                                         *)
(* Sources: internal/services/{ntp,ddns,threatintel,ra,hostmanager} and    *)
(* initializeAdditionalServices of cmd/ctl_helpers.go                      *)
(*                                                                         *)
(* nsWhich is the service an execution is about; they share nothing.       *)
(* Faults (an unreachable server, a failed command, a dropped packet) are  *)
(* bounded by MaxNsFaults, and changes of the world by MaxNsChanges.       *)
(***************************************************************************)
EXTENDS Naturals, Sequences, FiniteSets

CONSTANTS
  NsHosts,        \* hosts that solicit a router advertisement
  RsQueue,        \* capacity of rsChan (10)
  Feeds,          \* threat intelligence sources, a sequence of names
  NsAddrs,        \* addresses: listed by feeds, answered for names, of the uplink
  MaxNsFaults, MaxNsChanges, MaxNtpCalls

VARIABLES
  nsWhich,
  nsFaults, nsChanges,     \* faults left, changes left
  nt,                      \* the NTP service
  dd,                      \* the DDNS service
  ti,                      \* the threat intelligence service
  ra,                      \* the router advertisements of one interface
  hm                       \* the HostManager's task for one set

nsVars == <<nsWhich, nsFaults, nsChanges, nt, dd, ti, ra, hm>>
NsFault == nsFaults > 0 /\ nsFaults' = nsFaults - 1
NsNoFault == UNCHANGED nsFaults
NsChange == nsChanges > 0 /\ nsChanges' = nsChanges - 1 /\ UNCHANGED nsFaults

----------------------------------------------------------------------------
(* NTP.  sock is the socket, registered with the upgrade manager for good  *)
(* once it is bound; serving and loops are goroutines, a loop TRUE while   *)
(* its context is not cancelled.  call is the caller's place in Reload or  *)
(* Stop, both of which wait for the goroutines with the lock held.         *)

NtIdle == [op |-> "none", cfg |-> "off"]
NtInit == [cfg |-> "off", running |-> FALSE, sock |-> "none", serving |-> 0,
           live |-> 0, cancelled |-> 0, call |-> NtIdle, calls |-> 0]

\* The first half of Reload and of Stop: cancel, close, and wait.
NtCall(op, cfg) ==
  /\ nt.call.op = "none" /\ nt.calls < MaxNtpCalls
  /\ nt' = LET called == [nt EXCEPT !.calls = @ + 1, !.call = [op |-> op, cfg |-> cfg]]
           IN IF ~nt.running THEN called
              ELSE [called EXCEPT !.cancelled = @ + nt.live, !.live = 0,
                                  !.sock = IF @ = "open" THEN "closed" ELSE @]
  /\ UNCHANGED <<nsWhich, nsFaults, nsChanges, dd, ti, ra, hm>>

\* A cancelled loop, or a reader of a closed socket, ends.
NtGoroutineEnds ==
  /\ \/ nt.cancelled > 0 /\ nt' = [nt EXCEPT !.cancelled = @ - 1]
     \/ nt.serving > 0 /\ nt.sock = "closed" /\ nt' = [nt EXCEPT !.serving = @ - 1]
  /\ UNCHANGED <<nsWhich, nsFaults, nsChanges, dd, ti, ra, hm>>

\* The failed start leaves the loop it has begun running.
NtFailed_Keep(s) == [s EXCEPT !.running = FALSE]
\* The failed start cancels the loop it has begun.
NtFailed(s) == [s EXCEPT !.running = FALSE, !.live = 0, !.cancelled = @ + s.live]

\* Start, with startListener: the registered socket is taken although it may be closed.
NtStart(s, binds) ==
  LET begun == [s EXCEPT !.running = TRUE, !.live = IF s.cfg = "client" THEN 1 ELSE 0]
  IN IF s.sock = "none" /\ ~binds THEN NtFailed(begun)
     ELSE [begun EXCEPT !.sock = IF @ = "none" THEN "open" ELSE @, !.serving = @ + 1]

\* The rest of the call, once the goroutines have ended (a service that was not
\* running is not waited for).
NtReturn(binds) ==
  /\ nt.call.op # "none"
  /\ nt.running => (nt.cancelled = 0 /\ nt.serving = 0)
  /\ IF binds THEN NsNoFault ELSE NsFault
  /\ nt' = LET done == [nt EXCEPT !.running = FALSE, !.call = NtIdle]
           IN IF nt.call.op = "stop" \/ nt.call.cfg = "off" THEN done
              ELSE NtStart([done EXCEPT !.cfg = nt.call.cfg], binds)
  /\ UNCHANGED <<nsWhich, nsChanges, dd, ti, ra, hm>>

NtNext ==
  \/ \E cfg \in {"off", "server", "client"} : NtCall("reload", cfg)
  \/ NtCall("stop", "off")
  \/ NtGoroutineEnds
  \/ \E binds \in BOOLEAN : NtReturn(binds)

----------------------------------------------------------------------------
(* DDNS.  cfg: the provider, and whether the address is that of an         *)
(* interface or asked of a public service; pc: the loop's place.           *)

DdProviders == {"duckdns", "cloudflare", "noip", "other"}
DdConfigs == [provider : DdProviders, iface : BOOLEAN, enabled : BOOLEAN]
DdStart(cfg, ip) == [cfg |-> cfg, pc |-> "tick", ip |-> ip, got |-> ip, published |-> "none", stopped |-> FALSE]

\* Requests made with a client that has a timeout: the others may wait for ever.
DdTimed == {"cloudflare", "noip"}

\* update: an unknown provider and a disabled service end it.
DdTick ==
  /\ dd.pc = "tick" /\ ~dd.stopped
  /\ dd.cfg.enabled /\ dd.cfg.provider # "other"
  /\ dd' = [dd EXCEPT !.pc = "address"]
  /\ UNCHANGED <<nsWhich, nsFaults, nsChanges, nt, ti, ra, hm>>

\* An error ends the loop.
DdAfterError_Ends == "ended"
\* Where an error takes the loop: to the next tick.
DdAfterError == "tick"

\* GetInterfaceIP, GetPublicIP.
DdAddress ==
  /\ dd.pc = "address"
  /\ \/ NsNoFault /\ dd' = [dd EXCEPT !.got = dd.ip, !.pc = "send"]
     \/ NsFault /\ dd' = [dd EXCEPT !.pc = DdAfterError]
     \/ NsFault /\ ~dd.cfg.iface /\ dd' = [dd EXCEPT !.pc = "hung"]
  /\ UNCHANGED <<nsWhich, nsChanges, nt, ti, ra, hm>>

\* provider.Update: DuckDNS, Cloudflare, NoIP.
DdSend ==
  /\ dd.pc = "send"
  /\ \/ NsNoFault /\ dd' = [dd EXCEPT !.published = dd.got, !.pc = "tick"]
     \/ NsFault /\ dd' = [dd EXCEPT !.pc = DdAfterError]
     \/ NsFault /\ dd.cfg.provider \notin DdTimed /\ dd' = [dd EXCEPT !.pc = "hung"]
  /\ UNCHANGED <<nsWhich, nsChanges, nt, ti, ra, hm>>

\* The daemon's context is cancelled.
DdStop ==
  /\ dd.pc = "tick" /\ ~dd.stopped
  /\ dd' = [dd EXCEPT !.stopped = TRUE]
  /\ UNCHANGED <<nsWhich, nsFaults, nsChanges, nt, ti, ra, hm>>

\* The uplink's address changes.
DdMoves ==
  /\ NsChange
  /\ \E a \in NsAddrs \ {dd.ip} : dd' = [dd EXCEPT !.ip = a]
  /\ UNCHANGED <<nsWhich, nt, ti, ra, hm>>

DdStep == DdTick \/ DdAddress \/ DdSend
DdNext == DdStep \/ DdStop \/ DdMoves

----------------------------------------------------------------------------
(* Threat intelligence.  lists: what each feed lists now; got: what this   *)
(* poll has collected; set: threat_v4 in the kernel.  The ghost polls      *)
(* holds what each poll that found an address had collected.               *)

TiInit == [running |-> TRUE, stopping |-> FALSE, lists |-> [i \in DOMAIN Feeds |-> NsAddrs], at |-> 0,
           got |-> {}, set |-> {}, polls |-> {}]

TiTick ==
  /\ ti.running /\ ~ti.stopping /\ ti.at = 0
  /\ ti' = [ti EXCEPT !.at = 1, !.got = {}]
  /\ UNCHANGED <<nsWhich, nsFaults, nsChanges, nt, dd, ra, hm>>

\* fetchSource, parseList: a source that fails is left out of this poll.
TiFetch ==
  /\ ti.at \in DOMAIN Feeds
  /\ \/ NsNoFault /\ ti' = [ti EXCEPT !.at = @ + 1, !.got = @ \cup ti.lists[ti.at]]
     \/ NsFault /\ ti' = [ti EXCEPT !.at = @ + 1]
  /\ UNCHANGED <<nsWhich, nsChanges, nt, dd, ra, hm>>

\* Elements are added to the set only.
TiReloadSet_Adds(old, elements) == old \cup elements
\* updateSet: flush and add as one transaction.
TiReloadSet(old, elements) == elements

\* Enforce: nothing is done for an empty list, and a failed update keeps the set.
TiEnforce ==
  /\ ti.at = Len(Feeds) + 1
  /\ \/ NsNoFault
        /\ ti' = [ti EXCEPT !.at = 0,
                            !.set = IF ti.got = {} THEN @ ELSE TiReloadSet(@, ti.got),
                            !.polls = IF ti.got = {} THEN @ ELSE @ \cup {ti.got}]
     \/ NsFault /\ ti' = [ti EXCEPT !.at = 0]
  /\ UNCHANGED <<nsWhich, nsChanges, nt, dd, ra, hm>>

\* Stop cancels, and waits for the poll in progress to end.
TiStop ==
  /\ ti.running
  /\ ti' = IF ti.at = 0 THEN [ti EXCEPT !.running = FALSE, !.stopping = FALSE] ELSE [ti EXCEPT !.stopping = TRUE]
  /\ ti' # ti
  /\ UNCHANGED <<nsWhich, nsFaults, nsChanges, nt, dd, ra, hm>>

TiStart ==
  /\ ~ti.running /\ ti' = [ti EXCEPT !.running = TRUE]
  /\ UNCHANGED <<nsWhich, nsFaults, nsChanges, nt, dd, ra, hm>>

TiFeedChanges ==
  /\ NsChange
  /\ \E i \in DOMAIN Feeds, l \in SUBSET NsAddrs : ti' = [ti EXCEPT !.lists[i] = l]
  /\ UNCHANGED <<nsWhich, nt, dd, ra, hm>>

TiNext == TiTick \/ TiFetch \/ TiEnforce \/ TiStop \/ TiStart \/ TiFeedChanges

----------------------------------------------------------------------------
(* Router advertisements.  queue is rsChan; the ghost waiting holds the    *)
(* hosts that have solicited and not been sent an advertisement since.     *)

RaInit == [queue |-> <<>>, waiting |-> {}]

\* listenForRS: a solicitation that finds the queue full is dropped.
RaSolicit(h) ==
  /\ NsChange
  /\ ra' = [queue |-> IF Len(ra.queue) < RsQueue THEN Append(ra.queue, h) ELSE ra.queue,
            waiting |-> ra.waiting \cup {h}]
  /\ UNCHANGED <<nsWhich, nt, dd, ti, hm>>

\* sendRATo: the answer goes to the host that asked.
RaAnswer ==
  /\ ra.queue # <<>>
  /\ \/ NsNoFault /\ ra' = [queue |-> Tail(ra.queue), waiting |-> ra.waiting \ {Head(ra.queue)}]
     \/ NsFault /\ ra' = [ra EXCEPT !.queue = Tail(@)]
  /\ UNCHANGED <<nsWhich, nsChanges, nt, dd, ti, hm>>

\* The ticker is re-armed only when a solicitation waits.
RaDue_Lazy == ra.queue # <<>>
\* The ticker fires whether or not a host asks.
RaDue == TRUE

\* sendRA, every 30 seconds and to all hosts.
RaPeriodic ==
  /\ RaDue /\ ra.waiting # {}
  /\ \/ NsNoFault /\ ra' = [ra EXCEPT !.waiting = {}]
     \/ NsFault /\ UNCHANGED ra
  /\ UNCHANGED <<nsWhich, nsChanges, nt, dd, ti, hm>>

RaNext == RaAnswer \/ RaPeriodic \/ \E h \in NsHosts : RaSolicit(h)

----------------------------------------------------------------------------
(* Sets of addresses of DNS names.  names: what each of two names resolves *)
(* to; got: resolved in this update; set: the set in the kernel.           *)

HmInit == [names |-> [i \in 1 .. 2 |-> NsAddrs], at |-> 1, got |-> {}, set |-> {}, stopped |-> FALSE]

\* The failed update is not tried again.
HmAfter_Once == 5
\* The place of the task after an update: wait for the next tick.
HmAfter == 0

HmTick ==
  /\ hm.at = 0 /\ ~hm.stopped
  /\ hm' = [hm EXCEPT !.at = 1, !.got = {}]
  /\ UNCHANGED <<nsWhich, nsFaults, nsChanges, nt, dd, ti, ra>>

\* LookupIP: a name that does not resolve is left out.
HmResolve ==
  /\ hm.at \in 1 .. 2
  /\ \/ NsNoFault /\ hm' = [hm EXCEPT !.at = @ + 1, !.got = @ \cup hm.names[hm.at]]
     \/ NsFault /\ hm' = [hm EXCEPT !.at = @ + 1]
  /\ UNCHANGED <<nsWhich, nsChanges, nt, dd, ti, ra>>

\* The set is emptied by one command and filled by another.
HmFlush ==
  /\ hm.at = 3
  /\ \/ NsNoFault /\ hm' = IF hm.got = {} THEN [hm EXCEPT !.at = HmAfter] ELSE [hm EXCEPT !.at = 4, !.set = {}]
     \/ NsFault /\ hm' = [hm EXCEPT !.at = HmAfter]
  /\ UNCHANGED <<nsWhich, nsChanges, nt, dd, ti, ra>>

HmAdd ==
  /\ hm.at = 4
  /\ \/ NsNoFault /\ hm' = [hm EXCEPT !.at = 0, !.set = @ \cup hm.got]
     \/ NsFault /\ hm' = [hm EXCEPT !.at = HmAfter]
  /\ UNCHANGED <<nsWhich, nsChanges, nt, dd, ti, ra>>

\* Stop: the task ends at its next wait.
HmStop ==
  /\ ~hm.stopped /\ hm' = [hm EXCEPT !.stopped = TRUE]
  /\ UNCHANGED <<nsWhich, nsFaults, nsChanges, nt, dd, ti, ra>>

HmNamesChange ==
  /\ NsChange
  /\ \E i \in 1 .. 2, l \in SUBSET NsAddrs : hm' = [hm EXCEPT !.names[i] = l]
  /\ UNCHANGED <<nsWhich, nt, dd, ti, ra>>

HmStep == HmTick \/ HmResolve \/ HmFlush \/ HmAdd
HmNext == HmStep \/ HmStop \/ HmNamesChange

----------------------------------------------------------------------------
NsServices == {"ntp", "ddns", "threat", "ra", "hosts"}

\* initializeAdditionalServices starts those the configuration enables.
NsInit ==
  /\ nsWhich \in NsServices
  /\ nsFaults = MaxNsFaults /\ nsChanges = MaxNsChanges
  /\ nt = NtInit /\ ti = TiInit /\ ra = RaInit /\ hm = HmInit
  /\ \E cfg \in DdConfigs, ip \in NsAddrs :
        /\ nsWhich = "ddns" \/ (cfg = [provider |-> "noip", iface |-> TRUE, enabled |-> TRUE] /\ ip = CHOOSE a \in NsAddrs : TRUE)
        /\ dd = DdStart(cfg, ip)

NsNext ==
  \/ nsWhich = "ntp" /\ NtNext
  \/ nsWhich = "ddns" /\ DdNext
  \/ nsWhich = "threat" /\ TiNext
  \/ nsWhich = "ra" /\ RaNext
  \/ nsWhich = "hosts" /\ HmNext

\* Each loop is a goroutine with a ticker; its step is taken once it can be.
NsFairness ==
  /\ WF_nsVars(nsWhich = "ddns" /\ DdStep)
  /\ WF_nsVars(nsWhich = "hosts" /\ HmStep)
  /\ WF_nsVars(nsWhich = "ra" /\ RaPeriodic)

NsSpec == NsInit /\ [][NsNext]_nsVars /\ NsFairness

----------------------------------------------------------------------------
\* Whenever the service is not running and no call is in progress, no loop that could
\* still set the clock for good is left: a start that failed at the socket has cancelled
\* its loop, and at most one loop ever runs uncancelled. (ntp Start, Reload.)
NoStrayLoop ==
  /\ ~nt.running => nt.live = 0
  /\ nt.live <= 1

\* The blocked addresses are always those of one poll, never a mixture of an old and a
\* new one, whichever feeds failed and whenever they changed. (threatintel Enforce.)
SetOfOnePoll == ti.set = {} \/ ti.set \in ti.polls

\* With a provider and an address source whose requests have a timeout, the published
\* address follows the uplink's once faults and moves end. (ddns runLoop, update.)
DdnsConverges ==
  <>[](\/ dd.stopped \/ ~dd.cfg.enabled \/ dd.cfg.provider \notin DdTimed \/ ~dd.cfg.iface
       \/ nsWhich # "ddns" \/ dd.published = dd.ip)

\* Once faults and changes end, the set of a group of names is again and again filled
\* with all their addresses (each refresh empties it first), unless none of them
\* resolves to any. (hostmanager manageSet, updateSet.)
NamedSetConverges ==
  []<>(\/ hm.stopped \/ nsWhich # "hosts" \/ hm.names[1] \cup hm.names[2] \in {{}, hm.set})

\* Every host that solicits is sent an advertisement, also when the queue was full or
\* the answer was lost. (ra listenForRS: "will get periodic RA anyway".)
EverySolicitationServed == <>[](ra.waiting = {})

\* No loop outlives its service, and what is enforced comes from one poll.
ServicesSound == NoStrayLoop /\ SetOfOnePoll

\* Faults only delay the loops: the published address, the sets of named hosts
\* and the advertisements asked for come about.
ServicesConverge == DdnsConverges /\ NamedSetConverges /\ EverySolicitationServed
=============================================================================
