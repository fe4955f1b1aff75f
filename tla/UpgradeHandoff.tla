--------------------------- MODULE UpgradeHandoff ---------------------------
(***************************************************************************)
(* A seamless upgrade (internal/upgrade/upgrade.go, cmd/upgrade.go, the    *)
(* Upgrade RPC of internal/ctlplane/server.go and the monitors of          *)
(* cmd/ctl.go and cmd/ctl_helpers.go).                                     *)
(*                                                                         *)
(* Process 0 is the running daemon; upgrade k starts process k in standby. *)
(* The two meet at one socket path: a first connection carries the ready   *)
(* message and the deltas, a second one the listeners.  Every upgrade is   *)
(* an RPC of its own, so two may overlap where Overlap allows it.  The     *)
(* delta collector is never fed and the state collectors are nil, so the   *)
(* deltas are empty; what matters of them is the order of the messages.    *)
(***************************************************************************)
EXTENDS Naturals, Sequences, FiniteSets

CONSTANTS
    MaxUpgrades,     \* bound: Upgrade RPCs
    Overlap,         \* may an Upgrade RPC arrive while another one runs
    MaxCrashes,      \* bound: processes in standby, or API children, that die
    NoPid            \* there is no PID file

ASSUME UpgradeAssumption ==
    /\ MaxUpgrades \in Nat /\ MaxCrashes \in Nat
    /\ Overlap \in BOOLEAN
    /\ NoPid \notin Nat

Upgrades == 1..MaxUpgrades
Processes == 0..MaxUpgrades

VARIABLES
    att,        \* InitiateUpgrade of upgrade k: where it stands
    proc,       \* process k: where it stands
    sock,       \* whose listener the socket path leads to, 0: no file
    backlog,    \* connections nobody of upgrade k has taken yet
    peer,       \* the process at the other end of upgrade k's first connection
    told,       \* processes that got delta_complete
    got,        \* processes that were sent the listeners
    alive,      \* process 0 runs
    armed,      \* processes whose monitors (PID watchdog, API restarter) run
    api,        \* processes whose API server runs
    pidFile,    \* the process the PID file names
    collecting,     \* upgradeActive: the collector records
    standbys    \* counter for MaxCrashes

upgradeVars == <<att, proc, sock, backlog, peer, told, got, alive, armed, api, pidFile, collecting,
                 standbys>>

UpgradeInit ==
    /\ att = [k \in Upgrades |-> "none"] /\ proc = [k \in Upgrades |-> "none"]
    /\ sock = 0 /\ backlog = [k \in Upgrades |-> <<>>] /\ peer = [k \in Upgrades |-> 0]
    /\ told = {} /\ got = {}
    /\ alive = TRUE /\ armed = {0} /\ api = {0} /\ pidFile = 0
    /\ collecting = FALSE /\ standbys = 0

Standby(k) == proc[k] \in {"load", "ready", "dial2", "fds"}

\* The handler has returned: its listener is closed, which removes the path,
\* whoever has bound it since.
Return(k, result) ==
    /\ att' = [att EXCEPT ![k] = result]
    /\ sock' = 0

-----------------------------------------------------------------------------
(* The old process                                                         *)

\* Upgrade and the first four steps of InitiateUpgrade.  The monitors are
\* disarmed first: their context also ends the API server.  The state may not
\* be saved, or the binary not be started.
Upgrade(k) ==
    /\ alive /\ att[k] = "none"
    /\ \A j \in Upgrades : j < k => att[j] # "none"
    /\ Overlap \/ \A j \in Upgrades : att[j] \in {"none", "failed"}
    /\ armed' = armed \ {0} /\ api' = api \ {0}
    /\ \/ /\ att' = [att EXCEPT ![k] = "accept1"]
          /\ proc' = [proc EXCEPT ![k] = "load"]
          /\ sock' = k /\ pidFile' = k /\ collecting' = TRUE
       \/ /\ Return(k, "failed")
          /\ collecting' = FALSE
          /\ UNCHANGED <<proc, pidFile>>
    /\ UNCHANGED <<backlog, peer, told, got, alive, standbys>>

\* The accept loop hands the first connection over.
AcceptFirst(k) ==
    /\ alive /\ att[k] = "accept1" /\ backlog[k] # <<>>
    /\ att' = [att EXCEPT ![k] = "ready"]
    /\ peer' = [peer EXCEPT ![k] = Head(backlog[k])]
    /\ backlog' = [backlog EXCEPT ![k] = Tail(@)]
    /\ UNCHANGED <<proc, sock, told, got, alive, armed, api, pidFile, collecting, standbys>>

\* Every way to fail after the process was started kills it, but for the one
\* where it is known to have exited.
Kill(k) == proc' = [proc EXCEPT ![k] = "dead"]

\* The first select: the process exited, or the time is up, also when a
\* connection arrives together with either.
FirstFails(k) ==
    /\ alive /\ att[k] = "accept1"
    /\ Kill(k) /\ Return(k, "failed")
    /\ collecting' = FALSE
    /\ UNCHANGED <<backlog, peer, told, got, alive, armed, api, pidFile, standbys>>

\* The ready message came from the process started: deltas, then
\* delta_complete, and the connection is closed.
SyncDeltas(k) ==
    /\ alive /\ att[k] = "ready" /\ peer[k] = k
    /\ proc[k] = "ready"
    /\ att' = [att EXCEPT ![k] = "accept2"]
    /\ told' = told \cup {k} /\ collecting' = FALSE
    /\ UNCHANGED <<proc, sock, backlog, peer, got, alive, armed, api, pidFile, standbys>>

\* The peer died, sent an error, or is another process that is ready; the
\* collector is not stopped.  A peer that waits for listeners sends nothing,
\* and the read has no time limit.
SyncFails(k) ==
    /\ alive /\ att[k] = "ready"
    /\ \/ proc[peer[k]] = "dead"
       \/ peer[k] # k /\ proc[peer[k]] = "ready"
    /\ Kill(k) /\ Return(k, "failed")
    /\ UNCHANGED <<backlog, peer, told, got, alive, armed, api, pidFile, collecting, standbys>>

\* Mutant: the process is left alone when the second connection is late.
SecondFails_NoKill(k) ==
    /\ alive /\ att[k] = "accept2"
    /\ Return(k, "failed")
    /\ UNCHANGED <<proc, backlog, peer, told, got, alive, armed, api, pidFile, collecting, standbys>>

\* Mutant: the second connection is awaited without a time limit.
SecondFails_NoTimer(k) == FALSE /\ UNCHANGED upgradeVars

\* The second select: the time is up.
SecondFails(k) ==
    /\ alive /\ att[k] = "accept2"
    /\ Kill(k) /\ Return(k, "failed")
    /\ UNCHANGED <<backlog, peer, told, got, alive, armed, api, pidFile, collecting, standbys>>

\* Mutant: the listeners go out before the deltas.
HandoffListeners_First(k) ==
    /\ alive /\ att[k] \in {"ready", "accept2"}
    /\ got' = got \cup {k} /\ Return(k, "done")
    /\ UNCHANGED <<proc, backlog, peer, told, alive, armed, api, pidFile, collecting, standbys>>

\* Whoever connected next gets the listeners, and the process will end; if it
\* has died they cannot be sent.
HandoffListeners(k) ==
    /\ alive /\ att[k] = "accept2" /\ backlog[k] # <<>>
    /\ LET j == Head(backlog[k])
       IN IF proc[j] = "dead"
          THEN Kill(k) /\ Return(k, "failed") /\ UNCHANGED got
          ELSE /\ got' = got \cup {j}
               /\ Return(k, "done")
               /\ UNCHANGED proc
    /\ backlog' = [backlog EXCEPT ![k] = Tail(@)]
    /\ UNCHANGED <<peer, told, alive, armed, api, pidFile, collecting, standbys>>

\* Mutant: the exit is scheduled before the outcome is known.
Exit_Early ==
    /\ alive /\ \E k \in Upgrades : att[k] \in {"accept2", "done"}
    /\ alive' = FALSE /\ api' = api \ {0} /\ armed' = armed \ {0}
    /\ pidFile' = IF pidFile = 0 THEN NoPid ELSE pidFile
    /\ UNCHANGED <<att, proc, sock, backlog, peer, told, got, collecting, standbys>>

\* SIGTERM to itself, some seconds after a completed upgrade; the PID file is
\* removed if it is its own.
Exit ==
    /\ alive /\ \E k \in Upgrades : att[k] = "done"
    /\ alive' = FALSE /\ api' = api \ {0} /\ armed' = armed \ {0}
    /\ pidFile' = IF pidFile = 0 THEN NoPid ELSE pidFile
    /\ UNCHANGED <<att, proc, sock, backlog, peer, told, got, collecting, standbys>>

-----------------------------------------------------------------------------
(* The new process                                                         *)

Dies(k) == proc' = [proc EXCEPT ![k] = "dead"]

\* RunStandby reads the state and the configuration and connects.  An invalid
\* configuration is reported over a connection of its own; without a socket
\* it ends.
ConnectReady(k) ==
    /\ proc[k] = "load"
    /\ \E valid \in BOOLEAN :
         IF sock = 0 THEN Dies(k) /\ UNCHANGED backlog
         ELSE /\ backlog' = [backlog EXCEPT ![sock] = Append(@, k)]
              /\ IF valid THEN proc' = [proc EXCEPT ![k] = "ready"] ELSE Dies(k)
    /\ UNCHANGED <<att, sock, peer, told, got, alive, armed, api, pidFile, collecting, standbys>>

\* receiveDeltas ends with delta_complete, or with an error when the
\* connection is closed before it.
ReceiveDeltas(k) ==
    /\ proc[k] = "ready"
    /\ IF k \in told THEN proc' = [proc EXCEPT ![k] = "dial2"]
       ELSE /\ ~alive \/ att[k] = "failed"
            /\ Dies(k)
    /\ UNCHANGED <<att, sock, backlog, peer, told, got, alive, armed, api, pidFile, collecting, standbys>>

DialSecond(k) ==
    /\ proc[k] = "dial2"
    /\ IF sock = 0 THEN Dies(k) /\ UNCHANGED backlog
       ELSE /\ backlog' = [backlog EXCEPT ![sock] = Append(@, k)]
            /\ proc' = [proc EXCEPT ![k] = "fds"]
    /\ UNCHANGED <<att, sock, peer, told, got, alive, armed, api, pidFile, collecting, standbys>>

\* Mutant: the children are started without their restart loop.
TakeOver_NoMonitors(k) ==
    /\ proc[k] = "fds"
    /\ k \in got \/ ~alive
    /\ proc' = [proc EXCEPT ![k] = "serving"]
    /\ api' = api \cup {k} /\ pidFile' = k
    /\ UNCHANGED <<att, sock, backlog, peer, told, got, alive, armed, collecting, standbys>>

\* receiveListeners ends at the end of the connection, whatever it received;
\* RunCtl then starts everything, the API server with it.
TakeOver(k) ==
    /\ proc[k] = "fds"
    /\ k \in got \/ ~alive
    /\ proc' = [proc EXCEPT ![k] = "serving"]
    /\ armed' = armed \cup {k} /\ api' = api \cup {k} /\ pidFile' = k
    /\ UNCHANGED <<att, sock, backlog, peer, told, got, alive, collecting, standbys>>

\* A process in standby fails before the listeners are its own.
StandbyDies(k) ==
    /\ standbys < MaxCrashes /\ standbys' = standbys + 1
    /\ Standby(k) /\ k \notin got
    /\ Dies(k)
    /\ UNCHANGED <<att, sock, backlog, peer, told, got, alive, armed, api, pidFile, collecting>>

-----------------------------------------------------------------------------
(* Monitors                                                                *)

Lives(p) == IF p = 0 THEN alive ELSE Standby(p) \/ proc[p] = "serving"

\* The watchdog of a daemon whose monitors are armed, and of any process that
\* was started in standby, puts its own PID back every second.
PidWatchdog(p) ==
    /\ Lives(p) /\ (p \in armed \/ p # 0)
    /\ pidFile # p
    /\ pidFile' = p
    /\ UNCHANGED <<att, proc, sock, backlog, peer, told, got, alive, armed, api, collecting, standbys>>

ApiDies(p) ==
    /\ standbys < MaxCrashes /\ standbys' = standbys + 1
    /\ p \in api /\ api' = api \ {p}
    /\ UNCHANGED <<att, proc, sock, backlog, peer, told, got, alive, armed, pidFile, collecting>>

\* spawnAPI starts the child again after a second.
SpawnAPI(p) ==
    /\ Lives(p) /\ p \in armed /\ p \notin api
    /\ api' = api \cup {p}
    /\ UNCHANGED <<att, proc, sock, backlog, peer, told, got, alive, armed, pidFile, collecting, standbys>>

OldStep(k) ==
    AcceptFirst(k) \/ FirstFails(k) \/ SyncDeltas(k) \/ SyncFails(k) \/ SecondFails(k)
        \/ HandoffListeners(k)
NewStep(k) == ConnectReady(k) \/ ReceiveDeltas(k) \/ DialSecond(k) \/ TakeOver(k)

UpgradeNext ==
    \/ \E k \in Upgrades : Upgrade(k) \/ OldStep(k) \/ NewStep(k) \/ StandbyDies(k)
    \/ Exit
    \/ \E p \in Processes : PidWatchdog(p) \/ ApiDies(p) \/ SpawnAPI(p)

\* Goroutines and processes that can go on do; selects have time limits.
UpgradeFairness ==
    /\ \A k \in Upgrades : WF_upgradeVars(OldStep(k)) /\ WF_upgradeVars(NewStep(k))
    /\ WF_upgradeVars(Exit)
    /\ \A p \in Processes : WF_upgradeVars(PidWatchdog(p)) /\ WF_upgradeVars(SpawnAPI(p))

UpgradeSpec == UpgradeInit /\ [][UpgradeNext]_upgradeVars /\ UpgradeFairness

-----------------------------------------------------------------------------
(* Properties                                                              *)

UpgradeTypeOK ==
    /\ att \in [Upgrades -> {"none", "accept1", "ready", "accept2", "done", "failed"}]
    /\ proc \in [Upgrades -> {"none", "load", "ready", "dial2", "fds", "serving", "dead"}]
    /\ sock \in Processes /\ peer \in [Upgrades -> Processes]
    /\ \A k \in Upgrades : backlog[k] \in Seq(Upgrades)
    /\ told \subseteq Upgrades /\ got \subseteq told
    /\ armed \subseteq Processes /\ api \subseteq Processes
    /\ pidFile \in Processes \cup {NoPid} /\ collecting \in BOOLEAN

\* The old process ends only when a process that lives has been given the
\* listeners: at no moment does nobody hold them.
NoGap == alive \/ \E k \in got : proc[k] \in {"fds", "serving"}

\* A process whose upgrade failed is never left running beside the daemon
\* that goes on: it is killed on every path, or had died.
NoStray == \A k \in Upgrades : att[k] = "failed" => proc[k] \in {"none", "dead"}

\* Every upgrade ends, whatever the new process does or fails to do.
UpgradeEnds == \A k \in Upgrades : (att[k] # "none") ~> (att[k] \in {"done", "failed"} \/ ~alive)

\* When the old process has ended, the PID file comes to name the process
\* that serves, and its API server runs although children die.
SuccessorComplete ==
    <>[](~alive => \E k \in Upgrades : proc[k] = "serving" /\ pidFile = k /\ k \in api)

\* At every moment of an upgrade somebody owns the sockets, and no process of
\* a failed upgrade is left.
HandoverSound == UpgradeTypeOK /\ NoGap /\ NoStray
=============================================================================
