----------------------------- MODULE DaemonBoot -----------------------------
(***************************************************************************)
(* The life of the control plane daemon: its start (cmd/ctl.go,            *)
(* cmd/ctl_helpers.go), crash loop detection                               *)
(* (internal/health/crash_tracker.go), the supervisor (cmd/monitor.go) and *)
(* the stop command (cmd/stop.go).                                         *)
(*                                                                         *)
(* A start is a sequence of stages; some failures end the process, some    *)
(* are logged and passed over.  A panic in the main goroutine restarts     *)
(* the daemon inside the same process, where the stability timers of       *)
(* earlier starts go on; other crashes end the process, and the supervisor *)
(* starts a new one.  What the stages do to the kernel (forwarding, rules) *)
(* outlives the process.  Time is counted in units of which CrashWindow    *)
(* are the five minutes of the code.                                       *)
(***************************************************************************)
EXTENDS Naturals, Sequences

CONSTANTS
    CrashThreshold,   \* starts in a row that lead to safe mode
    CrashWindow,      \* CrashWindow and StabilityDuration
    Never,            \* no start is recorded
    MaxTime,          \* bound: time
    MaxStarts,        \* bound: starts
    MaxBootFaults     \* bound: nft commands that fail while starting

ASSUME BootAssumption ==
    /\ CrashThreshold \in Nat \ {0} /\ CrashWindow \in Nat \ {0}
    /\ MaxTime \in Nat /\ MaxStarts \in Nat /\ MaxBootFaults \in Nat
    /\ Never \notin Nat

VARIABLES
    now,          \* the clock
    stage,        \* where the daemon stands
    safe,         \* it runs the safe mode configuration
    crashFile,    \* crash.state: [count, last]
    timers,       \* sleeping stability timers: [due, last]
    forwarding,   \* kernel: net.ipv4.ip_forward
    rules,        \* kernel: "none", "safe" or "full"
    monitor,      \* the supervisor: "running" or "gone"
    forwarder,    \* its goroutine that forwards a signal waits for one
    pendingSig,   \* the signal in the supervisor's channel
    starts,       \* history: times of the last starts since crash.state was removed
    panics,       \* history: starts inside a process that had panicked
    nstarts, bootFaults  \* counters for the bounds

bootVars == <<now, stage, safe, crashFile, timers, forwarding, rules, monitor, forwarder,
              pendingSig, starts, panics, nstarts, bootFaults>>

kernel == <<forwarding, rules>>
supervisor == <<monitor, forwarder, pendingSig>>
history == <<starts, panics, nstarts>>

\* The stages in their order; "down" is no process, "panicked" is the second
\* before the restart in the same process.
BootStages == {"start", "config", "network", "services", "up"}
StageNames == BootStages \cup {"down", "panicked"}
NoCrashState == [count |-> 0, last |-> Never]

BootInit ==
    /\ now = 0 /\ stage = "down" /\ safe = FALSE
    /\ crashFile = NoCrashState /\ timers = {}
    /\ forwarding = FALSE /\ rules = "none"
    /\ monitor = "running" /\ forwarder = FALSE /\ pendingSig = "none"
    /\ starts = <<>> /\ panics = FALSE /\ nstarts = 0 /\ bootFaults = 0

Goes(from, to) == stage = from /\ stage' = to

-----------------------------------------------------------------------------
(* CrashTracker                                                            *)

\* Mutant: a restart never counts from one again.
Checked_NoWindow == [count |-> crashFile.count + 1, last |-> now]

\* CheckCrashLoop: the state it writes.
Checked ==
    [count |-> IF crashFile.last # Never /\ now - crashFile.last < CrashWindow
               THEN crashFile.count + 1 ELSE 1,
     last  |-> now]

\* The last three starts.
Recent(s) == IF Len(s) <= CrashThreshold THEN s ELSE SubSeq(s, Len(s) - CrashThreshold + 1, Len(s))

\* The timer of a start clears the count and writes back the time of that
\* start; nothing cancels it but the end of the process.
StabilityTimer(t) ==
    /\ t \in timers /\ now >= t.due
    /\ timers' = timers \ {t}
    /\ crashFile' = [count |-> 0, last |-> t.last]
    /\ UNCHANGED <<now, stage, safe, kernel, supervisor, history, bootFaults>>

-----------------------------------------------------------------------------
(* Stages of runCtlOnce                                                    *)

\* Mutant: the timers are those of the machine and not of the process.
ExitError_KeepsTimers ==
    /\ stage' = "down" /\ forwarder' = FALSE
    /\ safe' = FALSE /\ UNCHANGED timers

\* The process exits with an error; its timers end with it.
ExitError ==
    /\ stage' = "down" /\ timers' = {} /\ forwarder' = FALSE
    /\ safe' = FALSE

\* Mutant: safe mode keeps the configuration's forwarding.
LoadConfiguration_NoSafeMode ==
    /\ Goes("start", "config")
    /\ crashFile' = Checked
    /\ safe' = FALSE
    /\ timers' = timers \cup {[due |-> now + CrashWindow, last |-> now]}
    /\ starts' = Recent(Append(starts, now))
    /\ UNCHANGED <<now, kernel, supervisor, panics, nstarts, bootFaults>>

\* loadConfiguration: too many starts lead to the safe mode configuration,
\* and only then no stability timer is started.
LoadConfiguration ==
    /\ Goes("start", "config")
    /\ crashFile' = Checked
    /\ safe' = (Checked.count >= CrashThreshold)
    /\ timers' = IF safe' THEN timers
                 ELSE timers \cup {[due |-> now + CrashWindow, last |-> now]}
    /\ starts' = Recent(Append(starts, now))
    /\ UNCHANGED <<now, kernel, supervisor, panics, nstarts, bootFaults>>

\* initializeStateStore, initializeNetworkStack and applyStaticRoutes:
\* forwarding as the configuration says, off in safe mode.
InitializeNetwork ==
    /\ Goes("config", "network")
    /\ \E fwd \in BOOLEAN : forwarding' = (fwd /\ ~safe)
    /\ UNCHANGED <<now, safe, crashFile, timers, rules, supervisor, history, bootFaults>>

\* Mutant: only the full ruleset is applied.
InitializeCoreServices_NoBaseline ==
    /\ Goes("network", "services")
    /\ \E ok \in BOOLEAN :
         /\ ok \/ bootFaults < MaxBootFaults
         /\ rules' = IF ok THEN "full" ELSE rules
         /\ bootFaults' = IF ok THEN bootFaults ELSE bootFaults + 1
    /\ UNCHANGED <<now, safe, crashFile, timers, forwarding, supervisor, history>>

\* initializeCoreServices: the safe ruleset first, then the full one.  Every
\* failure is logged and passed over.
InitializeCoreServices ==
    /\ Goes("network", "services")
    /\ \E okSafe, okFull \in BOOLEAN :
         LET failed == (IF okSafe THEN 0 ELSE 1) + (IF okFull THEN 0 ELSE 1)
         IN /\ bootFaults + failed <= MaxBootFaults
            /\ bootFaults' = bootFaults + failed
            /\ rules' = IF okFull THEN "full" ELSE IF okSafe THEN "safe" ELSE rules
    /\ UNCHANGED <<now, safe, crashFile, timers, forwarding, supervisor, history>>

\* The RPC server, additional, device and learning services, then the
\* children: only the first may end the process.
StartServers ==
    /\ Goes("services", "up")
    /\ UNCHANGED <<now, safe, crashFile, timers, kernel, supervisor, history, bootFaults>>

\* A stage fails and ends the process, or a goroutine other than the main one
\* panics.
Crash ==
    /\ stage \in BootStages
    /\ ExitError
    /\ UNCHANGED <<now, crashFile, kernel, monitor, pendingSig, history, bootFaults>>

\* The main goroutine panics, in a stage or in a reload of its event loop.
Panic ==
    /\ stage \in BootStages \ {"start"}
    /\ stage' = "panicked" /\ safe' = FALSE
    /\ UNCHANGED <<now, crashFile, timers, kernel, supervisor, history, bootFaults>>

\* RunCtl starts again after a second.
RestartInProcess ==
    /\ Goes("panicked", "start")
    /\ nstarts < MaxStarts /\ nstarts' = nstarts + 1
    /\ panics' = TRUE
    /\ UNCHANGED <<now, safe, crashFile, timers, kernel, supervisor, starts, bootFaults>>

\* SIGTERM: the event loop ends and the process exits cleanly; the stop
\* command also removes crash.state when the PID file has gone.
Stop(command) ==
    /\ stage = "up"
    /\ stage' = "down" /\ timers' = {} /\ safe' = FALSE
    /\ crashFile' = IF command THEN NoCrashState ELSE crashFile
    /\ starts' = IF command THEN <<>> ELSE starts
    /\ panics' = (panics /\ ~command)
    /\ monitor' = "gone" /\ forwarder' = FALSE
    /\ UNCHANGED <<now, kernel, pendingSig, nstarts, bootFaults>>

-----------------------------------------------------------------------------
(* RunMonitor                                                              *)

\* The supervisor starts a child and a goroutine that forwards one signal.
StartChild ==
    /\ monitor = "running" /\ Goes("down", "start")
    /\ nstarts < MaxStarts /\ nstarts' = nstarts + 1
    /\ forwarder' = TRUE
    /\ UNCHANGED <<now, safe, crashFile, timers, kernel, monitor, pendingSig, starts, panics, bootFaults>>

\* An operator starts the daemon anew after it was stopped.
StartByHand ==
    /\ monitor = "gone" /\ stage = "down"
    /\ monitor' = "running"
    /\ UNCHANGED <<now, stage, safe, crashFile, timers, kernel, forwarder, pendingSig, history, bootFaults>>

\* A signal arrives; the channel holds one.
Signal(sig) ==
    /\ monitor = "running" /\ stage # "down" /\ pendingSig = "none"
    /\ pendingSig' = sig
    /\ UNCHANGED <<now, stage, safe, crashFile, timers, kernel, monitor, forwarder, history, bootFaults>>

\* Mutant: the signal is read and not sent on.
ForwardSignal_Drops ==
    /\ forwarder /\ pendingSig # "none"
    /\ forwarder' = FALSE /\ pendingSig' = "none"
    /\ UNCHANGED <<now, stage, safe, crashFile, timers, kernel, monitor, history, bootFaults>>

\* It is forwarded once.  A child that is up stops on SIGTERM and reloads on
\* SIGHUP; one that is starting has no handler yet and is ended by either,
\* or, started again after a panic, still has the old one and ignores it.
ForwardSignal ==
    /\ forwarder /\ pendingSig # "none"
    /\ forwarder' = FALSE /\ pendingSig' = "none"
    /\ \/ /\ pendingSig = "term" \/ stage # "up"
          /\ stage' = "down" /\ timers' = {} /\ safe' = FALSE
          /\ monitor' = IF stage = "up" THEN "gone" ELSE monitor
       \/ /\ pendingSig = "hup" \/ (stage # "up" /\ panics)
          /\ UNCHANGED <<stage, timers, safe, monitor>>
    /\ UNCHANGED <<now, crashFile, kernel, history, bootFaults>>

Tick ==
    /\ now < MaxTime /\ now' = now + 1
    /\ \A t \in timers : t.due > now
    /\ UNCHANGED <<stage, safe, crashFile, timers, kernel, supervisor, history, bootFaults>>

BootStep ==
    LoadConfiguration \/ InitializeNetwork \/ InitializeCoreServices \/ StartServers
        \/ RestartInProcess

BootNext ==
    \/ BootStep \/ Crash \/ Panic \/ StartChild \/ StartByHand \/ ForwardSignal \/ Tick
    \/ \E t \in timers : StabilityTimer(t)
    \/ \E command \in BOOLEAN : Stop(command)
    \/ \E sig \in {"hup", "term"} : Signal(sig)

\* The daemon and the supervisor go on; crashes, signals and time need not.
BootFairness ==
    WF_bootVars(BootStep) /\ WF_bootVars(StartChild) /\ WF_bootVars(ForwardSignal)

BootSpec == BootInit /\ [][BootNext]_bootVars /\ BootFairness

-----------------------------------------------------------------------------
(* Properties                                                              *)

BootTypeOK ==
    /\ now \in 0..MaxTime /\ stage \in StageNames /\ safe \in BOOLEAN
    /\ crashFile.count \in 0..MaxStarts /\ crashFile.last \in 0..MaxTime \cup {Never}
    /\ \A t \in timers : t.due = t.last + CrashWindow
    /\ (stage = "down" => timers = {})
    /\ forwarding \in BOOLEAN /\ rules \in {"none", "safe", "full"}

Booted == stage \in {"network", "services", "up"}

InWindow(s) == \A i \in 1..(Len(s) - 1) : s[i + 1] - s[i] < CrashWindow

\* Safe mode is entered only after CrashThreshold starts each within the
\* window of the one before: restarts that are further apart never cut the
\* network off, whatever timers of earlier starts write meanwhile.
NoFalseSafeMode == safe => Len(starts) = CrashThreshold /\ InWindow(starts)

\* CrashThreshold starts each within the window of the one before lead to
\* safe mode, when no process restarted itself after a panic.
CrashLoopCaught ==
    (stage = "config" \/ Booted) /\ Len(starts) = CrashThreshold /\ InWindow(starts) /\ ~panics => safe

\* In safe mode nothing is forwarded; and once the services are there the
\* kernel has rules, although one attempt to set them may have failed.
SafeModeCloses ==
    /\ Booted /\ safe => ~forwarding
    /\ stage \in {"services", "up"} => rules # "none"

\* A SIGTERM that the supervisor forwards ends the child, unless it had
\* panicked before: then the handler of its first start still swallows it.
TermEndsChild ==
    (forwarder /\ pendingSig = "term" /\ ~panics) ~> (stage = "down" \/ panics)

\* Safe mode is entered for crash loops, only for them, and closes the router.
SafeModeSound == BootTypeOK /\ NoFalseSafeMode /\ CrashLoopCaught /\ SafeModeCloses
=============================================================================
