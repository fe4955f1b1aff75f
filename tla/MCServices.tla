------------------------------ MODULE MCServices ------------------------------
(***************************************************************************)
(* The services of the daemon and of its API: users, keys and rate limits, *)
(* notifications and events, DNS, devices, learned flows and their         *)
(* database, and what is shown of interfaces, health, logs and rules.  The *)
(* parts share no state; `part` names the one that moves, so one run       *)
(* explores each of them from its own initial states.                      *)
(***************************************************************************)
EXTENDS Access, Events, DnsService, Devices, Learning, Observation

VARIABLE part

Parts == {"users", "keys", "rate", "feed", "hub", "dns", "devices", "learning", "flows",
          "interfaces", "health", "logs", "stats"}

vars == <<part, userVars, keyVars, rlVars, feedVars, hubVars, dnsVars, devVars, learnVars, fdVars,
          ssVars, hlVars, lgVars, rsVars>>

\* Two packets of one source; the first has the same key on both ways.
MCPackets == {[mac |-> "m1", hw |-> "ethernet", proto |-> "UDP", port |-> 1],
              [mac |-> "m1", hw |-> "address", proto |-> "TCP", port |-> 2]}

Init ==
    /\ part \in Parts
    /\ UserInit /\ KeyInit /\ RlInit /\ FeedInit /\ HubInit /\ DnsInit /\ DevInit
    /\ part # "learning" => learnMode = FALSE /\ inline = FALSE
    /\ LearnInit /\ FdInit /\ RsInit /\ LgInit /\ HlInit
    /\ part # "interfaces" => ssEntry = [type |-> "vlan", disabled |-> TRUE, mode |-> "balance"]
    /\ SsInit /\ (part # "interfaces" => ~ssLink.present)

\* Every part but p stays.
Rest(p) ==
    /\ UNCHANGED part
    /\ p # "users" => UNCHANGED userVars
    /\ p # "keys" => UNCHANGED keyVars
    /\ p # "rate" => UNCHANGED rlVars
    /\ p # "feed" => UNCHANGED feedVars
    /\ p # "hub" => UNCHANGED hubVars
    /\ p # "dns" => UNCHANGED dnsVars
    /\ p # "devices" => UNCHANGED devVars
    /\ p # "learning" => UNCHANGED learnVars
    /\ p # "flows" => UNCHANGED fdVars
    /\ p # "interfaces" => UNCHANGED ssVars
    /\ p # "health" => UNCHANGED hlVars
    /\ p # "logs" => UNCHANGED lgVars
    /\ p # "stats" => UNCHANGED rsVars

Next ==
    \/ part = "users" /\ UserNext /\ Rest("users")
    \/ part = "keys" /\ KeyNext /\ Rest("keys")
    \/ part = "rate" /\ RlNext /\ Rest("rate")
    \/ part = "feed" /\ FeedNext /\ Rest("feed")
    \/ part = "hub" /\ HubNext /\ Rest("hub")
    \/ part = "dns" /\ DnsNext /\ Rest("dns")
    \/ part = "devices" /\ DevNext /\ Rest("devices")
    \/ part = "learning" /\ LearnNext /\ Rest("learning")
    \/ part = "flows" /\ FdNext /\ Rest("flows")
    \/ part = "interfaces" /\ SsNext /\ Rest("interfaces")
    \/ part = "health" /\ HlNext /\ Rest("health")
    \/ part = "logs" /\ LgNext /\ Rest("logs")
    \/ part = "stats" /\ RsNext /\ Rest("stats")

Spec == Init /\ [][Next]_vars

-----------------------------------------------------------------------------
(* Properties, each looked at where its own part moves.                    *)

\* A flow is treated as the operator decided, in the engine and in the
\* database alike, hints stay with the flow they were found for, and the
\* operator is not told of one source over and over.
FlowsAsDecided ==
    /\ part = "learning" => DecisionsKept /\ MissFollowsDecision /\ HintsBelong /\ NotifyRate
    /\ part = "flows" => OperatorDecisions /\ HintsOfTheirFlow

\* The names of the blocklist stay blocked through reloads; a gateway is not
\* taken for the devices behind it, and links lead to identities that exist.
NetworkKnown ==
    /\ part = "dns" => BlocklistInForce
    /\ part = "devices" => GatewayHasNoAddresses /\ LinksResolve

\* Notifications are shown in order and without ending the server, and what
\* was counted is in the statistics.
EventsKept ==
    /\ part = "feed" => ShownInOrder /\ NoSendOnClosed
    /\ part = "hub" => NothingLost

\* What is shown was the case: interfaces, the health report, the windows of
\* the rings, the ends of files, and rates that are never too high.
ShownIsTrue ==
    /\ part = "interfaces" => ShownWasTheCase
    /\ part = "health" => ReportIsWorst
    /\ part = "logs" => RingIsWindow /\ PacketsAreNewest /\ TailIsEnd /\ EverySourceShown
    /\ part = "stats" => RateNotOverstated /\ SparklineIsWindow
=============================================================================
