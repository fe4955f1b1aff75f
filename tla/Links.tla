------------------------------- MODULE Links -------------------------------
(***************************************************************************)
(* The links a gateway has beyond its static interfaces: VPN devices and   *)
(* the addresses it gets from an upstream DHCP server.  The two share no   *)
(* state.                                                                  *)
(***************************************************************************)
EXTENDS Integers, FiniteSets

-----------------------------------------------------------------------------
(***************************************************************************)
(* The VPN providers: a WireGuard device set up through netlink and wgctrl *)
(* with peers added and removed while it runs, Tailscale through its       *)
(* command, and the 6to4 tunnel.  One call at a time: the daemon makes     *)
(* them from one goroutine and registers no VPN handler with the API.      *)
(***************************************************************************)

CONSTANTS WgKeys, WgNets,
          WgBadKeys,      \* keys wgtypes.ParseKey refuses
          VpnCalls        \* bound

VARIABLES wgConf,       \* m.config.Peers, in the order of their numbers: number -> [key, nets]
          wgLink,       \* the device exists
          wgDev,        \* its peers in the kernel: key -> nets
          wgRoutes,     \* networks routed to the device
          wgStatus,     \* what m.status says: [running, keys]
          wgMonitor,    \* the status goroutine runs
          wgAsked,      \* peers the operator wants: configured or added, not removed
          tsConf, tsDaemon,   \* [routes, exit]; the daemon's has present and up too
          tsStatus,     \* [running, online]
          tunnel,       \* how far setup6to4Tunnel got
          vpnCalls

wgVars == <<wgConf, wgLink, wgDev, wgRoutes, wgStatus, wgMonitor, wgAsked>>
tsVars == <<tsConf, tsDaemon, tsStatus>>
vpnVars == <<wgVars, tsVars, tunnel, vpnCalls>>

WgPeers == [key: WgKeys, nets: (SUBSET WgNets) \ {{}}]
WgPeerKeys(peers) == {peers[i].key : i \in DOMAIN peers}
NoPeers == [k \in {} |-> {}]

\* NewManager keeps every peer of the configuration.
VpnInit ==
    /\ \E p \in WgPeers, numbers \in SUBSET {0} : wgConf = [i \in numbers |-> p]
    /\ wgLink = FALSE /\ wgDev = NoPeers /\ wgRoutes = {} /\ wgStatus = [running |-> FALSE, keys |-> {}]
    /\ wgMonitor = FALSE /\ wgAsked = WgPeerKeys(wgConf)
    /\ tsConf = [routes |-> {}, exit |-> FALSE]
    /\ \E here \in BOOLEAN : tsDaemon = [present |-> here, up |-> FALSE, routes |-> {}, exit |-> FALSE]
    /\ tsStatus = [running |-> FALSE, online |-> FALSE]
    /\ tunnel = "none" /\ vpnCalls = 0

VpnCall == vpnCalls < VpnCalls /\ vpnCalls' = vpnCalls + 1

-----------------------------------------------------------------------------
\* updateStatus: the device's peers, that it is gone, or an error that leaves
\* the old status.
WgUpdateStatus(link, dev) ==
    \/ ~link /\ wgStatus' = [wgStatus EXCEPT !.running = FALSE]
    \/ link /\ wgStatus' = [running |-> TRUE, keys |-> DOMAIN dev]
    \/ UNCHANGED wgStatus

\* The kernel gives a network to the peer configured last (external).
WgAssign(dev, p) ==
    [k \in DOMAIN dev \cup {p.key} |-> IF k = p.key THEN p.nets ELSE dev[k] \ p.nets]

\* ReplacePeers: the device has exactly the peers of the configuration whose
\* key can be read; of two entries the later has its way.
WgReadable(peers) == {i \in DOMAIN peers : peers[i].key \notin WgBadKeys}
WgOverridden(peers, i, net) ==
    \E j \in WgReadable(peers) : j > i /\ (peers[j].key = peers[i].key \/ net \in peers[j].nets)
WgPeersWanted(peers) ==
    [k \in {peers[i].key : i \in WgReadable(peers)} |->
        {net \in WgNets : \E i \in WgReadable(peers) :
            peers[i].key = k /\ net \in peers[i].nets /\ ~WgOverridden(peers, i, net)}]
WgNetsOf(peers) == UNION {peers[i].nets : i \in DOMAIN peers}

\* Up: a link that is there is taken over, else created; a failing step ends
\* it with what was done before.
WgUp ==
    /\ VpnCall
    /\ \/ UNCHANGED <<wgLink, wgDev, wgRoutes, wgStatus>>
       \/ wgLink' = TRUE /\ UNCHANGED <<wgDev, wgRoutes, wgStatus>>
       \/ wgLink' = TRUE /\ wgDev' = WgPeersWanted(wgConf) /\ UNCHANGED <<wgRoutes, wgStatus>>
       \/ /\ wgLink' = TRUE /\ wgDev' = WgPeersWanted(wgConf)
          /\ \E failed \in SUBSET WgNetsOf(wgConf) :
                wgRoutes' = wgRoutes \cup (WgNetsOf(wgConf) \ failed)
          /\ WgUpdateStatus(TRUE, wgDev')
    /\ UNCHANGED <<wgConf, wgMonitor, wgAsked, tsVars, tunnel>>

\* Start brings the device up and then watches it; Stop ends only the watch.
WgMonitorOn == ~wgMonitor /\ wgStatus.running /\ wgMonitor' = TRUE
WgMonitorOff == wgMonitor /\ wgMonitor' = FALSE
WgMonitor ==
    /\ VpnCall
    /\ WgMonitorOn \/ WgMonitorOff
    /\ UNCHANGED <<wgConf, wgLink, wgDev, wgRoutes, wgStatus, wgAsked, tsVars, tunnel>>

WgTick ==
    /\ wgMonitor /\ WgUpdateStatus(wgLink, wgDev)
    /\ UNCHANGED <<wgConf, wgLink, wgDev, wgRoutes, wgMonitor, wgAsked, tsVars, tunnel, vpnCalls>>

\* Down deletes the link, and the kernel its routes.
WgDown ==
    /\ VpnCall
    /\ \/ UNCHANGED <<wgLink, wgDev, wgRoutes, wgStatus>>
       \/ /\ wgLink /\ wgLink' = FALSE /\ wgDev' = NoPeers /\ wgRoutes' = {}
          /\ WgUpdateStatus(FALSE, NoPeers)
    /\ UNCHANGED <<wgConf, wgMonitor, wgAsked, tsVars, tunnel>>

\* Every call has a number of its own, higher than those before.
WgAppend(p, number) ==
    [i \in DOMAIN wgConf \cup {number} |-> IF i = number THEN p ELSE wgConf[i]]

\* AddPeer: the device first, then the routes, then m.config.Peers.  A second
\* addition of a key is appended too.
WgAddPeer(p) ==
    /\ VpnCall
    /\ \/ UNCHANGED <<wgConf, wgDev, wgRoutes, wgStatus, wgAsked>>
       \/ /\ wgLink /\ p.key \notin WgBadKeys
          /\ wgDev' = WgAssign(wgDev, p)
          /\ \E failed \in SUBSET p.nets : wgRoutes' = wgRoutes \cup (p.nets \ failed)
          /\ wgConf' = WgAppend(p, vpnCalls') /\ wgAsked' = wgAsked \cup {p.key}
          /\ WgUpdateStatus(TRUE, wgDev')
    /\ UNCHANGED <<wgLink, wgMonitor, tsVars, tunnel>>

\* RemovePeer drops every entry with the key, but only the routes of the first.
WgPeerAt(k) ==
    {i \in DOMAIN wgConf : wgConf[i].key = k /\ \A j \in DOMAIN wgConf : wgConf[j].key = k => i <= j}
WgPeersWithout_First(k) == [i \in DOMAIN wgConf \ WgPeerAt(k) |-> wgConf[i]]
WgPeersWithout(k) == [i \in {j \in DOMAIN wgConf : wgConf[j].key # k} |-> wgConf[i]]
WgRoutesOf(k) == UNION {wgConf[i].nets : i \in WgPeerAt(k)}
WgRemovePeer(k) ==
    /\ VpnCall
    /\ \/ UNCHANGED <<wgConf, wgDev, wgRoutes, wgStatus, wgAsked>>
       \/ /\ wgLink /\ k \notin WgBadKeys
          /\ wgDev' = [x \in DOMAIN wgDev \ {k} |-> wgDev[x]]
          /\ \E failed \in SUBSET WgRoutesOf(k) : wgRoutes' = wgRoutes \ (WgRoutesOf(k) \ failed)
          /\ wgConf' = WgPeersWithout(k) /\ wgAsked' = wgAsked \ {k}
          /\ WgUpdateStatus(TRUE, wgDev')
    /\ UNCHANGED <<wgLink, wgMonitor, tsVars, tunnel>>

-----------------------------------------------------------------------------
\* `tailscale status` fails, or tells whether the backend runs.
TsUpdateStatus(daemon) ==
    \/ tsStatus' = [tsStatus EXCEPT !.running = FALSE]
    \/ daemon.present /\ tsStatus' = [running |-> TRUE, online |-> daemon.up]

\* Up passes the configured settings to the daemon.
TsUp ==
    /\ VpnCall /\ tsDaemon.present
    /\ \/ UNCHANGED <<tsDaemon, tsStatus>>
       \/ /\ tsDaemon' = [tsDaemon EXCEPT !.up = TRUE, !.routes = tsConf.routes, !.exit = tsConf.exit]
          /\ TsUpdateStatus(tsDaemon')
    /\ UNCHANGED <<wgVars, tsConf, tunnel>>

TsDown ==
    /\ VpnCall
    /\ \/ UNCHANGED <<tsDaemon, tsStatus>>
       \/ /\ tsDaemon.present /\ tsDaemon' = [tsDaemon EXCEPT !.up = FALSE]
          /\ TsUpdateStatus(tsDaemon')
    /\ UNCHANGED <<wgVars, tsConf, tunnel>>

\* AdvertiseRoutes and SetExitNode: kept only when the command succeeded.
TsKept_Always(new, done) == tsConf' = new
TsKept(new, done) == IF done THEN tsConf' = new ELSE UNCHANGED tsConf
TsSet(new) ==
    /\ VpnCall
    /\ \E done \in {FALSE, tsDaemon.present} :
          /\ tsDaemon' = IF done THEN [tsDaemon EXCEPT !.routes = new.routes, !.exit = new.exit] ELSE tsDaemon
          /\ TsKept(new, done)
    /\ UNCHANGED <<wgVars, tsStatus, tunnel>>

TsAdvertiseRoutes(nets) == TsSet([tsConf EXCEPT !.routes = nets])
TsSetExitNode(on) == TsSet([tsConf EXCEPT !.exit = on])

-----------------------------------------------------------------------------
\* setup6to4Tunnel: a tunnel that is there is deleted first, whatever follows.
TunnelStages == {"none", "created", "addressed", "up", "routed"}
SetupTunnel ==
    /\ VpnCall
    /\ \/ UNCHANGED tunnel        \* no public address on the interface
       \/ tunnel' \in TunnelStages
    /\ UNCHANGED <<wgVars, tsVars>>

VpnNext ==
    \/ WgUp \/ WgDown \/ WgMonitor \/ WgTick
    \/ \E p \in WgPeers : WgAddPeer(p)
    \/ \E k \in WgKeys : WgRemovePeer(k)
    \/ TsUp \/ TsDown \/ SetupTunnel
    \/ \E nets \in SUBSET WgNets : TsAdvertiseRoutes(nets)
    \/ \E on \in BOOLEAN : TsSetExitNode(on)

-----------------------------------------------------------------------------
\* A peer that was removed stays removed: neither the device has it nor the
\* list the next Up installs, however often it had been added and whichever
\* steps failed.
RemovedPeerStaysOut == DOMAIN wgDev \subseteq wgAsked /\ WgPeerKeys(wgConf) = wgAsked

\* The settings the next Up would pass are those the Tailscale daemon runs
\* with: bringing it up again does not undo a change made while it was up.
TailscaleKeepsSettings == tsDaemon.up => (tsDaemon.routes = tsConf.routes /\ tsDaemon.exit = tsConf.exit)

-----------------------------------------------------------------------------
(***************************************************************************)
(* The DHCP client of one interface (internal/network/dhcp_client.go).     *)
(*                                                                         *)
(* A loop takes the lease from its file or asks for one, configures the    *)
(* interface, and renews at T1.  Nothing stops a loop: each time the       *)
(* interface is applied another one is started beside it.  A panic removes *)
(* the file and starts the loop again.  When the first request fails, a    *)
(* retry goroutine takes over, which neither saves nor renews.             *)
(***************************************************************************)

CONSTANTS
    DcAddrs,                \* addresses the server gives
    DcLease, DcT1, DcDelay, \* lease time, renewal time, pause after an error
    DcEnd, MaxDcLoops, MaxDcFailures, MaxDcRestarts   \* bounds

\* T1 comes from the server, before the end of the lease (RFC 2131, 4.4.5), or
\* is half of the lease.
ASSUME DcAssumption == /\ DcLease \in Nat /\ DcT1 \in 1..(DcLease - 1)
                       /\ DcDelay \in Nat \ {0} /\ DcEnd \in Nat

VARIABLES
    dcNow,
    dcFile,       \* dhcp_client_<if>.json: {} or one saved lease
    dcIface,      \* addresses on the interface
    dcLoops,      \* the goroutines: number -> state
    dcFailures, dcRestarts,
    dcPanics      \* history: panics of each loop since the process started

dcVars == <<dcNow, dcFile, dcIface, dcLoops, dcFailures, dcRestarts, dcPanics>>

\* A saved lease has its address, when it was obtained, and whether the
\* packets in the file are sound or make the DHCP library panic.
DcInit ==
    /\ dcNow = 0 /\ dcIface = {} /\ dcFailures = 0 /\ dcRestarts = 0
    /\ dcFile \in {{}} \cup {{f} : f \in [addr : DcAddrs, at : {0}, sound : BOOLEAN]}
    /\ dcLoops = << >> /\ dcPanics = << >>

\* applyDHCPLease: the address is added, earlier ones stay.
DcApply(addr) == dcIface' \in {dcIface \cup {addr}, dcIface}

\* Until when a loop sleeps: T1 after the lease was obtained, at once if that
\* is past.
\* Mutant: the age of a lease from the file is not counted.
DcWake_NoElapsed(restored, at) == dcNow + DcT1
DcWake(restored, at) ==
    LET elapsed == IF restored THEN dcNow - at ELSE 0
    IN IF elapsed < DcT1 THEN dcNow + DcT1 - elapsed ELSE dcNow

DcSleeping(addr, end, wake, sound) ==
    [at |-> "sleep", addr |-> {addr}, end |-> end, wake |-> wake, sound |-> sound]

DcIdle(at, wake) == [at |-> at, addr |-> {}, end |-> 0, wake |-> wake, sound |-> TRUE]

-----------------------------------------------------------------------------
\* applyInterface: the addresses are flushed and another loop starts.
DcStart ==
    LET l == Cardinality(DOMAIN dcLoops) + 1
    IN /\ l <= MaxDcLoops
       /\ dcIface' = {}
       /\ dcLoops' = [i \in 1..l |-> IF i = l THEN DcIdle("load", dcNow) ELSE dcLoops[i]]
       /\ dcPanics' = [i \in 1..l |-> IF i = l THEN 0 ELSE dcPanics[i]]
       /\ UNCHANGED <<dcNow, dcFile, dcFailures, dcRestarts>>

\* A saved lease that has not run out is used again.
DcLoad(l) ==
    /\ dcLoops[l].at = "load" /\ dcLoops[l].wake <= dcNow
    /\ \/ \E f \in dcFile :
            /\ dcNow - f.at < DcLease
            /\ DcApply(f.addr)
            /\ dcLoops' = [dcLoops EXCEPT
                 ![l] = DcSleeping(f.addr, f.at + DcLease, DcWake(TRUE, f.at), f.sound)]
       \/ /\ \A f \in dcFile : dcNow - f.at >= DcLease
          /\ dcLoops' = [dcLoops EXCEPT ![l].at = "request", ![l].addr = {f.addr : f \in dcFile}]
          /\ UNCHANGED dcIface
    /\ UNCHANGED <<dcNow, dcFile, dcFailures, dcRestarts, dcPanics>>

\* The exchange succeeds: the lease is saved and applied.  After a file that
\* had run out, the loop counts that file's age and renews at once.
DcGrant(l, addr) ==
    /\ dcLoops[l].at = "request"
    /\ dcFile' = {[addr |-> addr, at |-> dcNow, sound |-> TRUE]}
    /\ DcApply(addr)
    /\ dcLoops' = [dcLoops EXCEPT
         ![l] = DcSleeping(addr, dcNow + DcLease, IF dcLoops[l].addr = {} THEN DcWake(FALSE, 0) ELSE dcNow, TRUE)]
    /\ UNCHANGED <<dcNow, dcFailures, dcRestarts, dcPanics>>

\* It fails: the loop ends and retryDHCP takes over after a pause.
DcRefuse(l) ==
    /\ dcLoops[l].at \in {"request", "retry"} /\ dcLoops[l].wake <= dcNow
    /\ dcFailures < MaxDcFailures /\ dcFailures' = dcFailures + 1
    /\ dcLoops' = [dcLoops EXCEPT ![l] = DcIdle("retry", dcNow + DcDelay)]
    /\ UNCHANGED <<dcNow, dcFile, dcIface, dcRestarts, dcPanics>>

\* retryDHCP: the lease is applied and nobody renews it; it is tried again
\* when it cannot be applied.
DcRetry(l, addr) ==
    /\ dcLoops[l].at = "retry" /\ dcLoops[l].wake <= dcNow
    /\ \/ /\ dcIface' = dcIface \cup {addr}
          /\ dcLoops' = [dcLoops EXCEPT ![l] = DcIdle("ended", 0)]
       \/ /\ dcLoops' = [dcLoops EXCEPT ![l].wake = dcNow + DcDelay]
          /\ UNCHANGED dcIface
    /\ UNCHANGED <<dcNow, dcFile, dcFailures, dcRestarts, dcPanics>>

DcWoken(l) == dcLoops[l].at = "sleep" /\ dcLoops[l].wake <= dcNow

\* The renewed lease, perhaps with another address, is saved and applied.
DcRenew(l, addr) ==
    /\ DcWoken(l) /\ dcLoops[l].sound
    /\ dcFile' = {[addr |-> addr, at |-> dcNow, sound |-> TRUE]}
    /\ DcApply(addr)
    /\ dcLoops' = [dcLoops EXCEPT
         ![l] = DcSleeping(addr, dcNow + DcLease, DcWake(FALSE, 0), TRUE)]
    /\ UNCHANGED <<dcNow, dcFailures, dcRestarts, dcPanics>>

\* A failed renewal: a pause, and then T1 of the old lease again.
DcRenewFails(l) ==
    /\ DcWoken(l) /\ dcLoops[l].sound
    /\ dcFailures < MaxDcFailures /\ dcFailures' = dcFailures + 1
    /\ dcLoops' = [dcLoops EXCEPT ![l].wake = dcNow + DcDelay + DcT1]
    /\ UNCHANGED <<dcNow, dcFile, dcIface, dcRestarts, dcPanics>>

\* Mutant: the file is kept.
DcFileAfterPanic_Kept == dcFile
\* The file is removed lest the loop meet it again.
DcFileAfterPanic == {}

\* A lease restored from a bad file makes the library panic; the loop is
\* started again after a pause.
DcPanic(l) ==
    /\ DcWoken(l) /\ ~dcLoops[l].sound
    /\ dcFile' = DcFileAfterPanic
    /\ dcLoops' = [dcLoops EXCEPT ![l] = DcIdle("load", dcNow + DcDelay)]
    /\ dcPanics' = [dcPanics EXCEPT ![l] = @ + 1]
    /\ UNCHANGED <<dcNow, dcIface, dcFailures, dcRestarts>>

\* The process ends and is started again later: the goroutines are gone, the
\* interface and the file are not.
DcRestart ==
    /\ dcRestarts < MaxDcRestarts /\ dcRestarts' = dcRestarts + 1
    /\ dcLoops' = << >> /\ dcPanics' = << >>
    /\ UNCHANGED <<dcNow, dcFile, dcIface, dcFailures>>

\* Time passes; a goroutine that is due runs first, as pauses of the scheduler
\* are short against the times of a lease.
DcTick ==
    /\ dcNow < DcEnd /\ dcNow' = dcNow + 1
    /\ \A l \in DOMAIN dcLoops : dcLoops[l].at # "ended" => dcLoops[l].wake > dcNow
    /\ UNCHANGED <<dcFile, dcIface, dcLoops, dcFailures, dcRestarts, dcPanics>>

DcNext ==
    \/ DcStart \/ DcRestart \/ DcTick
    \/ \E l \in DOMAIN dcLoops :
         \/ DcLoad(l) \/ DcRefuse(l) \/ DcRenewFails(l) \/ DcPanic(l)
         \/ \E a \in DcAddrs : DcGrant(l, a) \/ DcRetry(l, a) \/ DcRenew(l, a)

DcSpec == DcInit /\ [][DcNext]_dcVars

-----------------------------------------------------------------------------
\* While the server answers, a loop renews its lease before it runs out, also
\* a lease that was taken from the file late in its life, and whatever other
\* loops of the interface do.
RenewedInTime ==
    dcFailures = 0 =>
        \A l \in DOMAIN dcLoops : dcLoops[l].at = "sleep" => dcNow < dcLoops[l].end

\* A file that makes the client panic does so once per loop: no restarted loop
\* meets it again, also when loops overlap.
NoPanicLoop == \A l \in DOMAIN dcPanics : dcPanics[l] <= 1
=============================================================================
