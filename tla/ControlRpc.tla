----------------------------- MODULE ControlRpc -----------------------------
(***************************************************************************)
(* Calls from the API process to the control plane                         *)
(* (internal/ctlplane/client.go, server.go and the files of its handlers,  *)
(* internal/api/*_handlers.go).                                            *)
(*                                                                         *)
(* All requests of the API share one connection.  A call that fails with   *)
(* a network error reconnects and is sent again once, also when the server *)
(* had executed it before it went away.  A handler reports its failure as  *)
(* the error of the call ("returns") or in a field of the reply, which     *)
(* somebody has to read; "never" has no failure to report.                 *)
(***************************************************************************)
EXTENDS Naturals

CONSTANTS
    Threads,       \* requests, each of which makes one call
    Called,        \* the callers in the model, per thread
    MaxRpcCrashes     \* bound: deaths of the control plane

-----------------------------------------------------------------------------
(* How the handlers report failures                                        *)

StatusHandlers ==
    [GetNotifications |-> "never", GetConfigDiff |-> "returns", GetStatus |-> "never",
     GetConfig |-> "returns", GetInterfaces |-> "returns"]
UpgradeHandlers == [Upgrade |-> "reply", StageBinary |-> "reply"]
ServiceHandlers == [GetServices |-> "never", GetDHCPLeases |-> "never"]
TopologyHandlers == [GetTopology |-> "never"]
DeviceHandlers ==
    [GetNetworkDevices |-> "never", UpdateDeviceIdentity |-> "reply", LinkMAC |-> "returns",
     UnlinkMAC |-> "returns", ApplyConfig |-> "returns"]
InterfaceHandlers ==
    [RestartService |-> "returns", Reboot |-> "returns", GetAvailableInterfaces |-> "returns",
     UpdateInterface |-> "reply", CreateVLAN |-> "reply", DeleteVLAN |-> "reply",
     CreateBond |-> "reply", DeleteBond |-> "reply", SafeApplyInterface |-> "returns",
     ConfirmApplyInterface |-> "returns", CancelApplyInterface |-> "returns"]
HCLHandlers ==
    [GetRawHCL |-> "returns", GetSectionHCL |-> "reply", SetRawHCL |-> "reply",
     SetSectionHCL |-> "reply", DeleteSection |-> "reply", DeleteSectionByLabel |-> "reply"]
SaveHandlers == [ValidateHCL |-> "reply", TriggerTask |-> "reply", SaveConfig |-> "reply"]
BackupHandlers ==
    [ListBackups |-> "reply", CreateBackup |-> "reply", RestoreBackup |-> "reply",
     GetBackupContent |-> "reply"]
RetentionHandlers == [PinBackup |-> "reply", SetMaxBackups |-> "reply"]
LearningHandlers ==
    [m \in {"GetLearningRules", "GetLearningRule", "ApproveRule", "DenyRule", "IgnoreRule",
            "DeleteRule", "GetLearningStats"} |-> "reply"]
IPSetHandlers ==
    [ListIPSets |-> "reply", GetIPSet |-> "reply", RefreshIPSet |-> "returns",
     GetIPSetElements |-> "reply", AddIPSetEntry |-> "reply", RemoveIPSetEntry |-> "reply",
     CheckIPSetEntry |-> "reply", GetIPSetCacheInfo |-> "never", ClearIPSetCache |-> "returns"]
SystemHandlers == [SystemReboot |-> "never", GetSystemStats |-> "never"]
ScanHandlers ==
    [StartScanNetwork |-> "reply", GetScanStatus |-> "never", GetScanResult |-> "never",
     GetCommonPorts |-> "never", ScanHost |-> "reply"]
ProbeHandlers == [WakeOnLAN |-> "reply", Ping |-> "reply"]
SafeModeHandlers ==
    [IsInSafeMode |-> "never", EnterSafeMode |-> "returns", ExitSafeMode |-> "returns"]
FlowHandlers == [m \in {"GetFlows", "ApproveFlow", "DenyFlow", "DeleteFlow"} |-> "reply"]
UplinkHandlers == [GetUplinkGroups |-> "never", SwitchUplink |-> "reply", ToggleUplink |-> "returns"]
LogHandlers == [GetLogs |-> "reply", GetLogSources |-> "never", GetLogStats |-> "never"]
RouteHandlers == [GetRoutes |-> "returns"]

HandlerGroups ==
    {StatusHandlers, UpgradeHandlers, ServiceHandlers, TopologyHandlers, DeviceHandlers,
     InterfaceHandlers, HCLHandlers, SaveHandlers, BackupHandlers, RetentionHandlers,
     LearningHandlers, IPSetHandlers, SystemHandlers, ScanHandlers, ProbeHandlers,
     SafeModeHandlers, FlowHandlers, UplinkHandlers, LogHandlers, RouteHandlers}

Handlers ==
    [m \in UNION {DOMAIN group : group \in HandlerGroups} |->
        (CHOOSE group \in HandlerGroups : m \in DOMAIN group)[m]]

-----------------------------------------------------------------------------
(* What the client's methods do with the reply: those that look at its     *)
(* error field, and those that give the whole reply to the caller.         *)

UpgradeReads == {"Upgrade", "StageBinary", "TriggerTask"}
IPSetReads == {"GetIPSetElements", "AddIPSetEntry", "RemoveIPSetEntry", "CheckIPSetEntry"}

\* Mutant: the error field of the uplink and flow calls is not looked at.
FlowReads_None == {}
FlowReads == {"GetUplinkGroups", "SwitchUplink", "ToggleUplink", "GetFlows", "ApproveFlow",
              "DenyFlow", "DeleteFlow"}
ScanReads == {"StartScanNetwork", "ScanHost", "WakeOnLAN", "UpdateDeviceIdentity"}
ClientReads == UpgradeReads \cup IPSetReads \cup FlowReads \cup ScanReads

InterfacePasses == {"UpdateInterface", "CreateVLAN", "DeleteVLAN", "CreateBond", "DeleteBond"}
HCLPasses == {"GetSectionHCL", "SetRawHCL", "SetSectionHCL", "DeleteSection",
              "DeleteSectionByLabel", "ValidateHCL", "SaveConfig"}
BackupPasses == {"ListBackups", "CreateBackup", "RestoreBackup", "GetBackupContent", "PinBackup",
                 "SetMaxBackups", "GetLogs"}
ClientPasses == InterfacePasses \cup HCLPasses \cup BackupPasses \cup {"Ping"}

\* Who of the callers of those looks at the error field: the handlers of the
\* interfaces, of the HCL editor and of the backups.  The handlers that apply
\* a configuration save it, back it up and roll it back without looking.
EditorReads == InterfacePasses \cup HCLPasses
BackupHandlerReads == BackupPasses \cup {"Ping"}
ApplyCalls == [ApplyThenSave |-> "SaveConfig", ApplyThenBackup |-> "CreateBackup",
               ApplyRollback |-> "RestoreBackup"]

Callers == DOMAIN Handlers \cup DOMAIN ApplyCalls
MethodOf(caller) == IF caller \in DOMAIN ApplyCalls THEN ApplyCalls[caller] ELSE caller

ASSUME RpcAssumption ==
    /\ \A t \in Threads : Called[t] \subseteq Callers
    /\ MaxRpcCrashes \in Nat

\* Does a failure the server reports reach the one who asked?
Relayed(caller) ==
    LET m == MethodOf(caller)
    IN \/ Handlers[m] = "returns"
       \/ m \in ClientReads
       \/ m \in ClientPasses /\ caller \in EditorReads \cup BackupHandlerReads

-----------------------------------------------------------------------------
(* The connection                                                          *)

VARIABLES
    server,      \* is the control plane running
    broken,      \* connections whose peer is gone
    conn,        \* Client.client: the number of the connection, 0 for nil
    dialled,     \* connections made so far
    thread,      \* per thread: the call in progress and where it is
    rpcCrashes   \* counts the deaths of the server

rpcVars == <<server, broken, conn, dialled, thread, rpcCrashes>>

\* at: "idle", "call" (sent on the connection on), "executed" (the reply is under
\* way), "reconnect", "told"; runs counts executions, failed is the last one's
\* outcome, crash says that the server died since then.
IdleThread == [at |-> "idle", caller |-> "", on |-> 0, try |-> 0, runs |-> 0, failed |-> FALSE,
               crash |-> FALSE, told |-> ""]

RpcInit ==
    /\ server = TRUE /\ broken = {} /\ conn = 1 /\ dialled = 1
    /\ thread = [t \in Threads |-> IdleThread]
    /\ rpcCrashes = 0

Begin(t, caller) ==
    /\ thread[t].at = "idle"
    /\ thread' = [thread EXCEPT ![t] = [IdleThread EXCEPT !.at = "call", !.caller = caller,
                                                          !.on = conn, !.try = 1]]
    /\ UNCHANGED <<server, broken, conn, dialled, rpcCrashes>>

\* The server executes the method of a call that reached it.
Execute(t) ==
    LET c == thread[t]
    IN /\ c.at = "call" /\ c.on \notin broken
       /\ \E f \in (IF Handlers[MethodOf(c.caller)] = "never" THEN {FALSE} ELSE BOOLEAN) :
            thread' = [thread EXCEPT ![t].at = "executed", ![t].runs = @ + 1, ![t].failed = f,
                                        ![t].crash = FALSE]
       /\ UNCHANGED <<server, broken, conn, dialled, rpcCrashes>>

\* The reply arrives and the caller is told what became of the call.
Reply(t) ==
    LET c == thread[t]
    IN /\ c.at = "executed" /\ c.on \notin broken
       /\ thread' = [thread EXCEPT ![t].at = "told",
                        ![t].told = IF c.failed /\ Relayed(c.caller) THEN "error" ELSE "ok"]
       /\ UNCHANGED <<server, broken, conn, dialled, rpcCrashes>>

\* A network error: the first one leads to reconnect, the second to the caller.
NetworkError(t) ==
    LET c == thread[t]
    IN /\ c.at \in {"call", "executed"} /\ c.on \in broken
       /\ thread' = IF c.try = 1 THEN [thread EXCEPT ![t].at = "reconnect"]
                    ELSE [thread EXCEPT ![t].at = "told", ![t].told = "error"]
       /\ UNCHANGED <<server, broken, conn, dialled, rpcCrashes>>

\* Mutant: whoever reconnected meanwhile is not noticed.
Reconnect_Always(t) ==
    LET c == thread[t]
    IN /\ c.at = "reconnect"
       /\ IF server
          THEN /\ conn' = dialled + 1 /\ dialled' = dialled + 1 /\ broken' = broken \cup {conn}
               /\ thread' = [thread EXCEPT ![t].at = "call", ![t].on = dialled + 1, ![t].try = 2]
          ELSE /\ thread' = [thread EXCEPT ![t].at = "told", ![t].told = "error"]
               /\ UNCHANGED <<conn, dialled, broken>>
       /\ UNCHANGED <<server, rpcCrashes>>

\* Mutant: waits for the server to come back.
Reconnect_Waits(t) ==
    LET c == thread[t]
    IN /\ c.at = "reconnect" /\ server
       /\ IF conn # c.on
          THEN /\ thread' = [thread EXCEPT ![t].at = "call", ![t].on = conn, ![t].try = 2]
               /\ UNCHANGED <<conn, dialled, broken>>
          ELSE /\ conn' = dialled + 1 /\ dialled' = dialled + 1 /\ broken' = broken \cup {conn}
               /\ thread' = [thread EXCEPT ![t].at = "call", ![t].on = dialled + 1, ![t].try = 2]
       /\ UNCHANGED <<server, rpcCrashes>>

\* reconnect under the lock and the second attempt: a connection that another
\* thread has made is used, else the old one is closed and a new one dialled.
Reconnect(t) ==
    LET c == thread[t]
    IN /\ c.at = "reconnect"
       /\ IF conn # c.on
          THEN /\ thread' = [thread EXCEPT ![t].at = "call", ![t].on = conn, ![t].try = 2]
               /\ UNCHANGED <<conn, dialled, broken>>
          ELSE IF server
          THEN /\ conn' = dialled + 1 /\ dialled' = dialled + 1 /\ broken' = broken \cup {conn}
               /\ thread' = [thread EXCEPT ![t].at = "call", ![t].on = dialled + 1, ![t].try = 2]
          ELSE /\ thread' = [thread EXCEPT ![t].at = "told", ![t].told = "error"]
               /\ UNCHANGED <<conn, dialled, broken>>
       /\ UNCHANGED <<server, rpcCrashes>>

\* The control plane dies: its connections break, calls under way are lost or
\* were executed without a reply.
ServerDies ==
    /\ server /\ rpcCrashes < MaxRpcCrashes
    /\ server' = FALSE /\ broken' = 1..dialled /\ rpcCrashes' = rpcCrashes + 1
    /\ thread' = [t \in Threads |-> [thread[t] EXCEPT !.crash = TRUE]]
    /\ UNCHANGED <<conn, dialled>>

\* Start: a new process listens on the socket.
ServerStarts ==
    /\ ~server /\ server' = TRUE
    /\ UNCHANGED <<broken, conn, dialled, thread, rpcCrashes>>

Progress(t) == Execute(t) \/ Reply(t) \/ NetworkError(t) \/ Reconnect(t)

RpcNext ==
    \/ \E t \in Threads : (\E c \in Called[t] : Begin(t, c)) \/ Progress(t)
    \/ ServerDies \/ ServerStarts

\* Goroutines run and the server answers; it need not come back when it died.
RpcFairness == \A t \in Threads : WF_rpcVars(Progress(t))

RpcSpec == RpcInit /\ [][RpcNext]_rpcVars /\ RpcFairness

-----------------------------------------------------------------------------
(* Properties                                                              *)

\* The answer of an executed call is lost, and the call executed again or
\* reported as failed, only when the control plane died after the execution:
\* requests that reconnect at the same time never close each other's connection.
AnswerLostOnlyByDeath ==
    \A t \in Threads :
        LET c == thread[t]
        IN c.at \in {"executed", "reconnect"} /\ c.runs > 0 /\ c.on \in broken => c.crash

\* The calls whose failure nobody hears of, by the code as it is: the learning
\* and IP set calls whose reply the client reduces to its payload, and the
\* steps after an apply.
Unheard ==
    {"ListIPSets", "GetIPSet", "GetLearningRules", "GetLearningRule", "ApproveRule", "DenyRule",
     "IgnoreRule", "DeleteRule", "GetLearningStats"} \cup DOMAIN ApplyCalls

\* Apart from those, a failure the server reports is relayed, and "ok" means
\* that the last execution of the call succeeded.
FailuresAreHeard ==
    /\ \A c \in Callers \ Unheard : Handlers[MethodOf(c)] # "never" => Relayed(c)
    /\ \A t \in Threads :
           thread[t].told = "ok" /\ thread[t].caller \notin Unheard =>
               thread[t].runs > 0 /\ ~thread[t].failed

\* Every call ends, whether or not the control plane comes back.
CallsEnd == \A t \in Threads : thread[t].at # "idle" ~> thread[t].at = "told"

\* A caller that is told of success has had it, and is left without an answer
\* only when the server died.
CallsHonest == AnswerLostOnlyByDeath /\ FailuresAreHeard
=============================================================================
