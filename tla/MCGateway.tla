------------------------------ MODULE MCGateway ------------------------------
(***************************************************************************)
(* Loops that must go on for ever: the DHCP server with its reaper, the    *)
(* small services (NTP, dynamic DNS, threat lists, router advertisements,  *)
(* named hosts), and the orchestrator of the VMs that test the gateway.    *)
(* The parts share no state; `part` names the one that moves, so one run   *)
(* explores each of them from its own initial states.                      *)
(***************************************************************************)
EXTENDS DHCPLeases, NetServices, Orca, TLC

CONSTANTS c1, c2

VARIABLE part

gatewayVars == <<part, leaseVars, nsVars, orcaVars>>

-----------------------------------------------------------------------------
\* No reservation, or one inside the range.
MCReservations ==
    {[m \in Clients |-> NoAddress], (c2 :> RangeEnd) @@ [m \in Clients |-> NoAddress]}

MCFeeds == <<"f1", "f2">>
MCTarget == [j \in OcJobs |-> IF j = "shell" THEN 1 ELSE 0]

-----------------------------------------------------------------------------
GatewayInit ==
    /\ part \in {"leases", "services", "orca"}
    /\ LeaseInit /\ NsInit /\ OrcaInit
    /\ part # "leases" => \A m \in Clients : reserved[m] = NoAddress
    /\ part # "services" => nsWhich = "ntp"

Leases(A) == part = "leases" /\ A /\ UNCHANGED <<part, nsVars, orcaVars>>
Services(A) == part = "services" /\ A /\ UNCHANGED <<part, leaseVars, orcaVars>>
Orchestrator(A) == part = "orca" /\ A /\ UNCHANGED <<part, leaseVars, nsVars>>

GatewayNext == Leases(LeaseNext) \/ Services(NsNext) \/ Orchestrator(OrcaNext)

GatewayFairness ==
    /\ WF_gatewayVars(Leases(ExpireLeases))
    /\ WF_gatewayVars(Services(nsWhich = "ddns" /\ DdStep))
    /\ WF_gatewayVars(Services(nsWhich = "hosts" /\ HmStep))
    /\ WF_gatewayVars(Services(nsWhich = "ra" /\ RaPeriodic))
    /\ WF_gatewayVars(Orchestrator(stopping = 0 /\ StartPool))
    /\ WF_gatewayVars(Orchestrator(stopping = 0 /\ SchedStep))
    /\ \A i \in 1..OcInsts : WF_gatewayVars(Orchestrator(stopping = 0 /\ i \in Insts /\ VmStep(i)))
    /\ \A j \in OcJobs : WF_gatewayVars(Orchestrator(stopping = 0 /\ JobStep(j)))

GatewaySpec == GatewayInit /\ [][GatewayNext]_gatewayVars /\ GatewayFairness

\* The loops catch up with what happened: expired addresses are free again,
\* and the services converge.
GatewayProgress == ExpiredReclaimed /\ ServicesConverge
=============================================================================
