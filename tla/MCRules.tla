------------------------------ MODULE MCRules ------------------------------
(***************************************************************************)
(* What the daemon makes of a configuration: the ruleset, the schedules,   *)
(* policy routes, uplinks, IP sets, queues, VPNs, and addresses from       *)
(* an upstream DHCP server.  The parts share no state; `part` names the    *)
(* one that moves, so one run explores each of them from its own initial   *)
(* states.                                                                 *)
(***************************************************************************)
EXTENDS Ruleset, Scheduler, PolicyRouting, UplinkFailover, SetsAndQueues, Links

VARIABLE part

Parts == {"ruleset", "scheduler", "cron", "routing", "marks", "uplink", "ipsets", "qos", "vpn",
          "client"}

vars == <<part, rsVars, schedVars, cronVars, prVars, upVars, uplinkVars, ipsVars, qosVars, vpnVars,
          dcVars>>

-----------------------------------------------------------------------------
(* Ruleset: pairs of changes to a router with a LAN, a WAN and a VPN       *)
(* interface.                                                              *)

Rule(proto, port, src, act) == [proto |-> proto, port |-> port, src |-> src, act |-> act]
Policy(from, to, rules, act) ==
    [from |-> from, to |-> to, disabled |-> FALSE, rules |-> rules, act |-> act, masq |-> "unset"]
SSHOnly == Policy("lan", "wan", <<Rule("any", {"ssh"}, Srcs, "accept")>>, "drop")
NoListed == Policy("lan", "wan", <<Rule("any", {}, {"listed4"}, "drop")>>, "accept")

mcBaseCfg ==
    [zone |-> [i \in Ifs |-> IF i = "lan0" THEN "lan" ELSE ""],
     match |-> [z \in Zones |-> IF z = "wan" THEN {"wan0"} ELSE {}],
     nets |-> [z \in Zones |-> "none"], external |-> [z \in Zones |-> FALSE], dhcp |-> {},
     services |-> [z \in Zones |-> NoBlock], zoneMgmt |-> [z \in Zones |-> NoBlock],
     ifMgmt |-> [i \in Ifs |-> NoBlock], webUI |-> {}, webDeny |-> <<>>, webAllow |-> <<>>,
     ipsets |-> <<>>, policies |-> <<NoListed>>, wall |-> FALSE, learning |-> FALSE,
     lockout |-> {}, mdns |-> {}, ntp |-> FALSE, upnp |-> {}, wireguard |-> FALSE, inspect |-> {},
     protect |-> [ifs |-> Ifs, on |-> {}, bogons |-> {}], natOut |-> {}]

PolicyLists ==
    {<<SSHOnly, NoListed>>, <<NoListed, SSHOnly>>,
     <<[NoListed EXCEPT !.disabled = TRUE], SSHOnly>>,
     <<Policy("*", "wan", <<Rule("udp", {"dns"}, Srcs, "accept")>>, "drop"), NoListed>>,
     <<Policy("lan0", "wan", <<Rule("icmp", {"ssh"}, Srcs, "reject")>>, "accept"), SSHOnly>>,
     <<SSHOnly, Policy("*", "*", <<>>, "accept")>>,
     <<Policy("lan", "self", <<Rule("tcp", {"ssh"}, V4, "accept")>>, "drop"),
       [NoListed EXCEPT !.masq = "no"]>>,
     <<Policy("wan", "firewall", <<>>, "accept"), [SSHOnly EXCEPT !.masq = "yes"]>>, <<>>}

mcEdits ==
    {[policies |-> l] : l \in PolicyLists}
    \cup {[zone |-> [i \in Ifs |-> z]] : z \in {"", "wan"}}
    \cup {[zone |-> [mcBaseCfg.zone EXCEPT !["vpn0"] = "lan", !["wan0"] = "wan"],
           match |-> [z \in Zones |-> {}]]}
    \cup {[match |-> [z \in Zones |-> {"vpn0"}]], [match |-> [z \in Zones |-> {"wan0", "vpn0"}]]}
    \cup {[nets |-> [z \in Zones |-> n]] : n \in {"private", "public"}}
    \cup {[external |-> [z \in Zones |-> TRUE]], [dhcp |-> {"vpn0"}], [natOut |-> {"wan0"}]}
    \cup {[services |-> [z \in Zones |-> {"dns", "dnstcp"}]], [zoneMgmt |-> [z \in Zones |-> {"ssh", "web"}]],
          [ifMgmt |-> [i \in Ifs |-> {}]], [webUI |-> {"lan0"}],
          [webAllow |-> <<[ifs |-> {}, srcs |-> {"host4"}]>>, webDeny |-> <<[ifs |-> {"wan0"}, srcs |-> {}]>>]}
    \cup {[ipsets |-> <<[act |-> "drop", applyTo |-> a, members |-> {"listed4"}]>>] : a \in {"input", "both"}}
    \cup {[wall |-> TRUE], [learning |-> TRUE], [lockout |-> {"vpn0"}], [mdns |-> {"lan0"}],
          [ntp |-> TRUE], [upnp |-> {"lan0"}], [wireguard |-> TRUE], [inspect |-> {"lan"}]}
    \cup {[protect |-> [ifs |-> Ifs, on |-> {"bogon", "invalid"}, bogons |-> {"listed4"}]],
          [protect |-> [ifs |-> {"wan0"}, on |-> {"syn", "icmp"}, bogons |-> {}]]}

Packet(i, o, d, s) == [iif |-> i, oif |-> o, src |-> "host4", dst |-> d, svc |-> s, ct |-> "new"]
mcFlows == {Packet("lan0", "wan0", "unknown", "ssh"), Packet("lan0", "router", "router", "ssh"),
            Packet("wan0", "router", "router", "https")}

-----------------------------------------------------------------------------
(* Scheduler and CronSchedule: a calendar of two months, hours of two      *)
(* minutes, a week of three days; one rule that starts and ends every hour.*)

MCMonthLen == <<3, 2>>
MCStart == [r \in Rules |-> [min |-> <<1>>, hour |-> <<0, 1>>, dom |-> <<1, 2, 3>>,
                             month |-> <<1, 2>>, dow |-> <<0, 1, 2>>]]
MCEnd == [MCStart EXCEPT ![CHOOSE r \in Rules : TRUE].min = <<0>>]
Part(a, b, s) == [from |-> a, to |-> b, step |-> s]
Singles(a, b) == {<<Part(x, x, 1)>> : x \in a..b}
MCMin == Singles(0, 2) \cup {<<Part(0, 1, 1)>>}
MCHour == Singles(0, 1) \cup {<<Part(0, 1, 1)>>, <<Part(0, 1, 2)>>, <<Part(1, 0, 1)>>}
MCDom == Singles(0, 3) \cup {<<Part(1, 3, 1)>>, <<Part(1, 3, 2)>>, <<Part(3, 3, 1), Part(1, 1, 1)>>}
MCMonth == Singles(1, 2) \cup {<<Part(1, 2, 1)>>}
MCDow == Singles(0, 2) \cup {<<Part(0, 2, 1)>>, <<Part(0, 1, 1)>>, <<Part(0, 0, 0)>>}

-----------------------------------------------------------------------------
(* PolicyRouting: a route, rules with and without a mask.  IPSets.  Qos.   *)

MCRoute == [table |-> 200, dest |-> "net", gw |-> 1]
MCPlain == [prio |-> 0, mark |-> 1, mask |-> FALSE, table |-> 200, enabled |-> TRUE]
MCMasked == [prio |-> 10, mark |-> 2, mask |-> TRUE, table |-> 200, enabled |-> TRUE]
MCAny == [prio |-> 100, mark |-> 0, mask |-> FALSE, table |-> 10, enabled |-> TRUE]
MCPrConfigs == {[routes |-> <<MCRoute>>, rules |-> <<MCPlain, MCAny>>, wans |-> 0],
                [routes |-> <<>>, rules |-> <<MCMasked, MCPlain>>, wans |-> 0],
                [routes |-> <<>>, rules |-> <<[MCPlain EXCEPT !.enabled = FALSE]>>, wans |-> 2],
                [routes |-> <<MCRoute>>, rules |-> <<MCAny, MCMasked>>, wans |-> 1]}

MCStatic == {<<"static">>}
MCManual == {<<"manual">>}

Rt(k, v) == [kind |-> k, value |-> v]
Cl(n, r, c) == [name |-> n, rate |-> r, ceil |-> c]
Ru(c, p) == [class |-> c, proto |-> p]
Voip == Cl("voip", Rt("percent", 20), Rt("none", 0))
Bulk == Cl("bulk", Rt("mbit", 2), Rt("percent", 80))
QosWan == [iface |-> "wan", enabled |-> TRUE, up |-> 10, down |-> 50, classes |-> <<Voip, Bulk>>,
       rules |-> <<Ru("bulk", "tcp"), Ru("voip", "udp"), Ru("games", "udp"), Ru("voip", "")>>]
QosLan == [iface |-> "lan", enabled |-> TRUE, up |-> 0, down |-> 50, classes |-> <<Bulk, Voip, Bulk>>,
       rules |-> <<Ru("bulk", "tcp")>>]
MCQosPolicies == {<<QosWan, QosLan>>, <<QosLan, [QosWan EXCEPT !.iface = "lan"]>>,
                  <<[QosWan EXCEPT !.enabled = FALSE], QosLan>>, <<>>}

-----------------------------------------------------------------------------
(* UplinkFailover: two uplinks in one tier or in two.                      *)

MCTiers == {<<0, 0>>, <<1, 0>>}

-----------------------------------------------------------------------------
Init ==
    /\ part \in Parts
    /\ RulesetInit
    /\ SchedInit
    /\ part = "cron" => CronInit
    /\ part # "cron" => cronExpr = MCStart[CHOOSE r \in Rules : TRUE] /\ cronAt = 0
    /\ PrInit /\ (part # "routing" => prConfig.wans = 2)
    /\ UpInit /\ IpsInit
    /\ UplinkInit /\ (part # "uplink" => tier = <<1, 0>> /\ mode = CHOOSE m \in Modes : TRUE)
    /\ QosInit /\ (part # "qos" => qosPolicies = <<>>)
    /\ VpnInit /\ (part # "vpn" => wgConf = <<>> /\ ~tsDaemon.present)
    /\ DcInit /\ (part # "client" => dcFile = {})

\* Every part but p stays.
Rest(p) ==
    /\ UNCHANGED part
    /\ p # "ruleset" => UNCHANGED rsVars
    /\ p # "scheduler" => UNCHANGED schedVars
    /\ p # "cron" => UNCHANGED cronVars
    /\ p # "routing" => UNCHANGED prVars
    /\ p # "marks" => UNCHANGED upVars
    /\ p # "uplink" => UNCHANGED uplinkVars
    /\ p # "ipsets" => UNCHANGED ipsVars
    /\ p # "qos" => UNCHANGED qosVars
    /\ p # "vpn" => UNCHANGED vpnVars
    /\ p # "client" => UNCHANGED dcVars

Next ==
    \/ part = "ruleset" /\ RulesetNext /\ Rest("ruleset")
    \/ part = "scheduler" /\ SchedNext /\ Rest("scheduler")
    \/ part = "cron" /\ CronRun /\ Rest("cron")
    \/ part = "routing" /\ PrNext /\ Rest("routing")
    \/ part = "marks" /\ UpNext /\ Rest("marks")
    \/ part = "uplink" /\ UplinkNext /\ Rest("uplink")
    \/ part = "ipsets" /\ IpsNext /\ Rest("ipsets")
    \/ part = "qos" /\ QosNext /\ Rest("qos")
    \/ part = "vpn" /\ VpnNext /\ Rest("vpn")
    \/ part = "client" /\ DcNext /\ Rest("client")

\* The checker of the uplinks goes on: a ticker, stopped only by a reload.
Spec == Init /\ [][Next]_vars /\ WF_vars(part = "uplink" /\ CheckStep /\ Rest("uplink"))

-----------------------------------------------------------------------------
(* Properties, each looked at where its own part moves.                    *)

\* The ruleset decides new packets as the policies read from the top do,
\* cuts no connection that was accepted, and masquerades what it lets out of
\* a private network.
RulesetSound == part = "ruleset" => ForwardedByPolicies /\ EstablishedSurvive /\ PrivateIsMasqueraded

\* A set made from a downloaded list holds a whole and recent list, whatever
\* fails meanwhile; a tree of queues that is reported as applied is whole and
\* its filters lead into it.
SetsAndQueuesWhole ==
    /\ part = "ipsets" => ListWhole /\ ListRecent
    /\ part = "qos" => FilterLeadsToClass /\ AppliedIsWhole

\* Links to other networks stay as configured: a removed peer stays out,
\* Tailscale keeps its settings, the address of an uplink is renewed in time
\* and no lease file makes its client panic for ever.
LinksKept ==
    /\ part = "vpn" => RemovedPeerStaysOut /\ TailscaleKeepsSettings
    /\ part = "client" => RenewedInTime /\ NoPanicLoop
=============================================================================
