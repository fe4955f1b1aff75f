------------------------------ MODULE MCDaemon ------------------------------
(***************************************************************************)
(* The daemon: how it boots and is supervised, how it is replaced, and how *)
(* the API reaches it.  The parts share no state; `part` names the one     *)
(* that moves, so one run explores each of them from its own initial       *)
(* states.                                                                 *)
(***************************************************************************)
EXTENDS DaemonBoot, UpgradeHandoff, ControlRpc, TLC

VARIABLE part

vars == <<part, bootVars, upgradeVars, rpcVars>>

Boot(A) == part = "boot" /\ A /\ UNCHANGED <<part, upgradeVars, rpcVars>>
Handoff(A) == part = "upgrade" /\ A /\ UNCHANGED <<part, bootVars, rpcVars>>
Rpc(A) == part = "rpc" /\ A /\ UNCHANGED <<part, bootVars, upgradeVars>>

\* One thread makes a call of each kind, the other shares its connection.
MCCalled ==
    1 :> {"GetStatus", "ApplyConfig", "ApproveFlow", "CreateBackup", "ApproveRule", "ApplyThenSave"}
    @@ 2 :> {"SetRawHCL"}

Init ==
    /\ part \in {"boot", "upgrade", "rpc"}
    /\ BootInit /\ UpgradeInit /\ RpcInit

Next == Boot(BootNext) \/ Handoff(UpgradeNext) \/ Rpc(RpcNext)

Fairness ==
    /\ WF_vars(Boot(BootStep)) /\ WF_vars(Boot(StartChild)) /\ WF_vars(Boot(ForwardSignal))
    /\ \A k \in Upgrades : WF_vars(Handoff(OldStep(k))) /\ WF_vars(Handoff(NewStep(k)))
    /\ WF_vars(Handoff(Exit))
    /\ \A p \in Processes :
         WF_vars(Handoff(PidWatchdog(p))) /\ WF_vars(Handoff(SpawnAPI(p)))
    /\ \A t \in Threads : WF_vars(Rpc(Progress(t)))

Spec == Init /\ [][Next]_vars /\ Fairness

\* What is asked of the daemon ends: a child told to stop stops, an upgrade
\* ends and leaves one complete process, and every call is answered.
DaemonProgress == TermEndsChild /\ UpgradeEnds /\ SuccessorComplete /\ CallsEnd
=============================================================================
