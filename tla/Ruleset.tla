------------------------------ MODULE Ruleset ------------------------------
(***************************************************************************)
(* From the configuration to the verdict on a packet                       *)
(* (internal/firewall/script_builder.go, internal/config/expand.go and     *)
(* zone_resolver.go).                                                      *)
(*                                                                         *)
(* A chain is a sequence of rules, a rule a set of values for each field   *)
(* of a packet and an action; the first rule that matches decides.  A rule *)
(* with "limit rate" matches only while its rate is not used up: the set   *)
(* over says which limits are ("log": the 10/minute of the logged drops,   *)
(* "flood": the limits of the protection rules).  A service stands for a   *)
(* protocol with a port.  Rules that only log or clamp are left out, and   *)
(* so are wildcards in interface names.                                    *)
(***************************************************************************)
EXTENDS Naturals, Sequences, FiniteSets, TLC, SequencesExt, FiniteSetsExt

CONSTANTS
    BaseCfg,      \* the configuration at the start
    Edits,        \* changes to it: each gives some of its fields a new value
    Flows,        \* packets that open a connection in the model
    MaxRuleEdits      \* bound: changes of the configuration

VARIABLES
    rsCfg,        \* the configuration whose ruleset is loaded
    rsConns,      \* connections the kernel tracks: the packets that opened them
    rsEdits       \* counter for the bound

rsVars == <<rsCfg, rsConns, rsEdits>>

Ifs == {"lo", "lan0", "wan0", "vpn0"}
IfSeq == <<"lan0", "wan0", "vpn0">>
ZoneSeq == <<"lan", "wan">>
Zones == {"lan", "wan"}
Tcp == {"ssh", "http", "https", "tcp8443", "tcp8080", "dnstcp", "othertcp"}
Udp == {"dhcp", "dns", "ntp", "snmp", "wgport", "mdns", "ssdp", "otherudp"}
Svcs == Tcp \cup Udp \cup {"icmp"}
V4 == {"host4", "listed4"}
V6 == {"host6"}
Srcs == V4 \cup V6
Dsts == {"router", "known", "unknown"}
CtStates == {"new", "established", "invalid"}

NoBlock == {"no block"}      \* an optional block that the configuration lacks
Block(b) == IF b = NoBlock THEN {} ELSE b

R(m) == m @@ [iif |-> Ifs, oif |-> Ifs, src |-> Srcs, dst |-> Dsts, svc |-> Svcs,
              ct |-> CtStates, limit |-> "no"]
Accept(m) == R(m @@ [act |-> "accept"])
Logged(m) == R(m @@ [limit |-> "log"])    \* limit rate ... log ... <action>

-----------------------------------------------------------------------------
(* Zones                                                                   *)

\* buildZoneMapForScript: the zone's matches and the interfaces that name it;
\* an interface is a zone of its own.
ZoneIfs(c, z) ==
    IF z \in Zones THEN c.match[z] \cup {i \in Ifs \ {"lo"} : c.zone[i] = z} ELSE {z} \cap Ifs

\* The zone of an interface in the loop over the interfaces: the one it names,
\* else the last zone that matches it; "" if there is none.
ZoneOf(c, i) ==
    IF c.zone[i] \in Zones THEN c.zone[i]
    ELSE LET hit == {k \in DOMAIN ZoneSeq : i \in c.match[ZoneSeq[k]]}
         IN IF hit = {} THEN "" ELSE ZoneSeq[Max(hit)]

\* isZoneInternal: private networks, or interfaces and no networks at all.
Internal(c, z) == c.nets[z] = "private" \/ (c.nets[z] = "none" /\ ZoneIfs(c, z) # {})

\* isZoneExternal: said so, named so, or an interface is a DHCP client.
External(c, z) == c.external[z] \/ z = "wan" \/ ZoneIfs(c, z) \cap c.dhcp # {}

\* ExpandPolicies: a policy per pair of zones for "*", without a zone to itself.
Expand(pol) ==
    LET from == IF pol.from = "*" THEN ZoneSeq \o <<"self">> ELSE <<pol.from>>
        to == IF pol.to = "*" THEN ZoneSeq \o <<"self">> ELSE <<pol.to>>
        wild == pol.from = "*" \/ pol.to = "*"
        of(f) == [k \in DOMAIN to |-> [pol EXCEPT !.from = f, !.to = to[k]]]
    IN SelectSeq(FlattenSeq([k \in DOMAIN from |-> of(from[k])]),
                 LAMBDA p : ~(wild /\ p.from = p.to))

\* The enabled policies, expanded, in order.
Policies(c) ==
    FlattenSeq([k \in DOMAIN c.policies |->
                   IF c.policies[k].disabled THEN <<>> ELSE Expand(c.policies[k])])

-----------------------------------------------------------------------------
(* The filter table                                                        *)

\* BuildRuleExpression: a port without protocol means TCP, and only TCP and
\* UDP have ports; dropping and rejecting rules are limited with their log.
RuleExpr(r) ==
    LET proto == IF r.proto = "any" /\ r.port # {} THEN "tcp" ELSE r.proto
        services == [any |-> Svcs, tcp |-> Tcp, udp |-> Udp, icmp |-> {"icmp"}][proto]
        m == [src |-> r.src, act |-> r.act,
              svc |-> IF r.port # {} /\ proto # "icmp" THEN services \cap r.port ELSE services]
    IN IF r.act = "accept" THEN R(m) ELSE Logged(m)

\* A chain has the rules and the default action of every policy with its zones.
PolicyChain(c, key) ==
    FlattenSeq([k \in DOMAIN Policies(c) |->
        LET pol == Policies(c)[k]
        IN IF <<pol.from, pol.to>> # key THEN <<>>
           ELSE [j \in DOMAIN pol.rules |-> RuleExpr(pol.rules[j])]
                \o <<IF pol.act = "accept" THEN Accept([src |-> Srcs])
                                           ELSE Logged([act |-> "drop"])>>])

\* Mutant: a later policy for the same interfaces replaces an earlier one.
Dispatch_LastWins(c, i, o) ==
    LET fits == {k \in DOMAIN Policies(c) :
                   LET pol == Policies(c)[k]
                   IN /\ i \in ZoneIfs(c, pol.from)
                      /\ IF pol.to \in {"self", "firewall"} THEN o = "router"
                         ELSE o \in ZoneIfs(c, pol.to)}
    IN IF fits = {} THEN <<>>
       ELSE LET pol == Policies(c)[Max(fits)] IN <<pol.from, pol.to>>

\* input_vmap and forward_vmap: the first policy for the interfaces has the
\* chain; <<>> when there is none.  o = "router" asks for the input map.
Dispatch(c, i, o) ==
    LET fits == {k \in DOMAIN Policies(c) :
                   LET pol == Policies(c)[k]
                   IN /\ i \in ZoneIfs(c, pol.from)
                      /\ IF pol.to \in {"self", "firewall"} THEN o = "router"
                         ELSE o \in ZoneIfs(c, pol.to)}
    IN IF fits = {} THEN <<>>
       ELSE LET pol == Policies(c)[Min(fits)] IN <<pol.from, pol.to>>

\* buildConstraints: IPv4 and IPv6 sources in one rule are two conditions that
\* no packet satisfies together.
WebSources(s) ==
    IF s = {} THEN Srcs ELSE IF s \cap V4 # {} /\ s \cap V6 # {} THEN {} ELSE s

\* generateWebAccessRules: denials before permissions, for the two web ports.
WebRules(c) ==
    LET rule(a, act) == R([iif |-> IF a.ifs = {} THEN Ifs ELSE a.ifs,
                           src |-> WebSources(a.srcs), svc |-> {"http", "https"}, act |-> act])
    IN [k \in DOMAIN c.webDeny |-> rule(c.webDeny[k], "drop")]
       \o [k \in DOMAIN c.webAllow |-> rule(c.webAllow[k], "accept")]

UseNewWebRules(c) == c.webDeny \o c.webAllow # <<>>

\* The ports a zone's or an interface's management block opens.
Ports(mgmt, web) ==
    (mgmt \cap {"ssh", "snmp", "icmp"})
    \cup (IF web /\ mgmt \cap {"web", "api"} # {} THEN {"http", "https", "tcp8443"} ELSE {})

\* The loop over the interfaces: the zone's services and management, the
\* interface's own block or, without one, access_web_ui.
InterfacePorts(c, i) ==
    LET z == ZoneOf(c, i)
        services == IF z = "" THEN {}
                    ELSE IF c.services[z] # NoBlock THEN c.services[z]
                    ELSE IF z = "wan" THEN {} ELSE {"dns", "dnstcp"}
        mgmt == IF c.ifMgmt[i] # NoBlock THEN c.ifMgmt[i]
                ELSE (IF z = "" THEN {} ELSE Block(c.zoneMgmt[z]))
                     \cup (IF i \in c.webUI THEN {"web", "api"} ELSE {})
    IN services \cup Ports(mgmt, ~UseNewWebRules(c))

\* The loop over the zones, which asks neither the interface's block nor
\* whether the web has access rules.
ZonePorts(c, i) ==
    UNION {Block(c.services[z]) \cup Ports(Block(c.zoneMgmt[z]), TRUE) :
             z \in {y \in Zones : i \in ZoneIfs(c, y)}}

ServiceRules(c) ==
    [k \in DOMAIN IfSeq |->
        Accept([iif |-> {IfSeq[k]},
                svc |-> InterfacePorts(c, IfSeq[k]) \cup ZonePorts(c, IfSeq[k])])]

\* The rules of the IP sets for a chain; accepting ones are limited, too.
IPSetRules(c, chain) ==
    LET at(s) == IF s.applyTo = chain \/ s.applyTo = "both" THEN <<Logged([src |-> s.members, act |-> s.act])>>
                 ELSE <<>>
    IN FlattenSeq([k \in DOMAIN c.ipsets |-> at(c.ipsets[k])])

\* Established traffic, then the drop of invalid packets.
Stateful == <<Accept([ct |-> {"established"}]), Logged([ct |-> {"invalid"}, act |-> "drop"])>>

\* The last rule of input and forward: held for the learning engine or dropped.
FinalRule(c) == IF c.learning THEN <<R([act |-> "queue"])>> ELSE <<Logged([act |-> "drop"])>>

Lockout(c, f) == [k \in DOMAIN f |-> Accept(f[k] :> c.lockout)]

InputChain(c) ==
    <<Accept([iif |-> {"lo"}])>> \o Stateful \o <<Accept([svc |-> {"dhcp"}])>>
    \o Lockout(c, <<"iif">>)
    \o <<Accept([svc |-> {"icmp"}]),
         Accept([iif |-> c.mdns, svc |-> {"mdns"}]),
         Accept([iif |-> IF c.ntp THEN UNION {ZoneIfs(c, z) : z \in {y \in Zones : Internal(c, y)}}
                         ELSE {}, svc |-> {"ntp"}]),
         Accept([iif |-> c.upnp, svc |-> {"ssdp"}]),
         Logged([iif |-> {"vpn0"}, svc |-> {"mdns"}, act |-> "drop"]),
         Accept([svc |-> IF c.wireguard THEN {"wgport"} ELSE {}])>>
    \o WebRules(c) \o ServiceRules(c) \o IPSetRules(c, "input")
    \o <<R([act |-> "vmap"])>> \o FinalRule(c)

\* Mutant: the wall looks at every packet, not at new connections only.
Wall_Stateless(c) == IF c.wall THEN <<R([dst |-> {"unknown"}, act |-> "reject"])>> ELSE <<>>

\* The DNS wall: no new connections to addresses no answer named.
Wall(c) ==
    IF c.wall THEN <<R([dst |-> {"unknown"}, ct |-> {"new"}, act |-> "reject"])>> ELSE <<>>

\* Mutant: the wall and the sets come before the rule for connections.
ForwardChain_WallFirst(c) ==
    Wall_Stateless(c) \o Stateful \o Lockout(c, <<"iif", "oif">>) \o IPSetRules(c, "forward")
    \o <<R([act |-> "vmap"])>> \o FinalRule(c)

ForwardChain(c) ==
    Stateful \o Lockout(c, <<"iif", "oif">>) \o Wall(c) \o IPSetRules(c, "forward")
    \o <<R([act |-> "vmap"])>> \o FinalRule(c)

\* addProtectionRules, at raw priority before everything else.
Protection(c) ==
    LET p == c.protect
        for(m) == [iif |-> p.ifs] @@ m
    IN (IF "invalid" \in p.on THEN <<Logged(for([ct |-> {"invalid"}, act |-> "drop"]))>> ELSE <<>>)
       \o (IF "bogon" \in p.on THEN <<R(for([src |-> p.bogons, act |-> "drop"]))>> ELSE <<>>)
       \o (IF "icmp" \in p.on
           THEN <<R(for([svc |-> {"icmp"}, limit |-> "flood", act |-> "return"])),
                  Logged(for([svc |-> {"icmp"}, act |-> "drop"]))>> ELSE <<>>)
       \o (IF "syn" \in p.on
           THEN <<R(for([svc |-> Tcp, ct |-> {"new"}, limit |-> "flood", act |-> "return"])),
                  Logged(for([svc |-> Tcp, ct |-> {"new"}, act |-> "drop"]))>> ELSE <<>>)

Fits(r, p, over) ==
    /\ p.iif \in r.iif /\ p.src \in r.src /\ p.dst \in r.dst /\ p.svc \in r.svc /\ p.ct \in r.ct
    /\ p.oif \in r.oif \/ p.oif = "router"
    /\ r.limit \notin over

\* The action of the first rule that matches, "none" if none does.
FirstMatch(chain, p, over) ==
    LET hits == {k \in DOMAIN chain : Fits(chain[k], p, over)}
    IN IF hits = {} THEN "none" ELSE chain[Min(hits)].act

\* A base chain; the policy chain may return without a verdict, and in the end
\* the policy of the base chain, drop, applies.
BaseVerdict(c, chain, p, over) ==
    LET target == Dispatch(c, p.iif, p.oif)
        jump == IF target = <<>> THEN "none" ELSE FirstMatch(PolicyChain(c, target), p, over)
        hits == {k \in DOMAIN chain :
                   Fits(chain[k], p, over) /\ (chain[k].act = "vmap" => jump # "none")}
    IN IF hits = {} THEN "drop"
       ELSE IF chain[Min(hits)].act = "vmap" THEN jump ELSE chain[Min(hits)].act

-----------------------------------------------------------------------------
(* Address translation and the path of a packet                            *)

\* Mutant: only the zones' own matches are asked for their interfaces.
Masqueraded_MatchesOnly(c) ==
    c.natOut \cup UNION {IF pol.masq = "yes"
                            \/ (/\ pol.masq = "unset" /\ {pol.from, pol.to} \subseteq Zones
                                /\ Internal(c, pol.from) /\ External(c, pol.to))
                         THEN (IF pol.to \in Zones THEN c.match[pol.to] ELSE {}) ELSE {} :
                         pol \in Range(Policies(c))}

\* BuildNATTableScript: the interfaces whose outgoing connections are masqueraded,
\* by a NAT rule or by a policy that says so or leads from inside to outside.
Masqueraded(c) ==
    c.natOut \cup UNION {IF pol.masq = "yes"
                            \/ (/\ pol.masq = "unset" /\ {pol.from, pol.to} \subseteq Zones
                                /\ Internal(c, pol.from) /\ External(c, pol.to))
                         THEN ZoneIfs(c, pol.to) ELSE {} : pol \in Range(Policies(c))}

\* The prerouting chain of BuildNATTableScript, in its order: the interfaces'
\* web interface, the zones', and DNS inspection.  A rule looks at the interface
\* and the port only, so that it also takes what was to be forwarded.
Redirect(c, p) ==
    LET zonesOf == {z \in Zones : p.iif \in ZoneIfs(c, z)}
        web == \E z \in zonesOf : Block(c.zoneMgmt[z]) \cap {"web", "api"} # {}
        to(s) == [p EXCEPT !.svc = s, !.oif = "router", !.dst = "router"]
    IN IF p.src \in V6 \/ p.ct # "new" THEN p
       ELSE IF p.iif \in c.webUI /\ p.svc = "https" THEN to("tcp8080")
       ELSE IF web /\ p.svc = "https" THEN to("tcp8443")
       ELSE IF web /\ p.svc = "http" THEN to("tcp8080")
       ELSE IF c.inspect \cap zonesOf # {} /\ p.svc \in {"dns", "dnstcp"} THEN to(p.svc)
       ELSE p

\* A packet to the router (oif = "router") or through it, after prerouting.
FilterVerdict(c, p, over) ==
    BaseVerdict(c, IF p.oif = "router" THEN InputChain(c) ELSE ForwardChain(c), p, over)

Verdict(c, p, over) ==
    IF FirstMatch(Protection(c), p, over) = "drop" THEN "drop"
    ELSE FilterVerdict(c, Redirect(c, p), over)

-----------------------------------------------------------------------------
(* Behaviours                                                              *)

RulesetInit == rsCfg = BaseCfg /\ rsConns = {} /\ rsEdits = 0

\* Applying a configuration loads the whole ruleset; connections stay tracked.
Reconfigure ==
    /\ rsEdits < MaxRuleEdits
    /\ \E e \in Edits : rsCfg' = e @@ rsCfg
    /\ rsEdits' = rsEdits + 1
    /\ UNCHANGED rsConns

\* A packet the ruleset accepts opens a connection.
Open(f) ==
    /\ f \notin rsConns
    /\ Verdict(rsCfg, f, {}) = "accept"
    /\ rsConns' = rsConns \cup {f}
    /\ UNCHANGED <<rsCfg, rsEdits>>

Close(f) ==
    /\ f \in rsConns
    /\ rsConns' = rsConns \ {f}
    /\ UNCHANGED <<rsCfg, rsEdits>>

RulesetNext == Reconfigure \/ \E f \in Flows : Open(f) \/ Close(f)

RulesetSpec == RulesetInit /\ [][RulesetNext]_rsVars

-----------------------------------------------------------------------------
(* Properties                                                              *)

NewPackets(oifs) ==
    [iif : Ifs \ {"lo"}, oif : oifs, src : Srcs, dst : {"known", "unknown"}, svc : {"ssh", "dns", "icmp"},
     ct : {"new"}]

\* What the list of policies says of a forwarded packet, read from the top:
\* the first enabled policy for its interfaces, its first rule, its default.
ByPolicies(c, p) ==
    LET covers(pol) ==
            /\ ~pol.disabled
            /\ \E f \in (IF pol.from = "*" THEN Zones ELSE {pol.from}),
                  t \in (IF pol.to = "*" THEN Zones ELSE {pol.to}) :
                 /\ p.iif \in ZoneIfs(c, f) /\ p.oif \in ZoneIfs(c, t)
                 /\ "*" \in {pol.from, pol.to} => f # t
        first == {k \in DOMAIN c.policies :
                    covers(c.policies[k]) /\ \A j \in 1..(k - 1) : ~covers(c.policies[j])}
        rules(pol) == {k \in DOMAIN pol.rules : Fits(RuleExpr(pol.rules[k]), p, {})}
        decide(pol) == IF rules(pol) = {} THEN (IF pol.act = "accept" THEN "accept" ELSE "drop")
                       ELSE pol.rules[Min(rules(pol))].act
    IN IF first = {} THEN "drop" ELSE decide(c.policies[CHOOSE k \in first : TRUE])

\* Chains that policies share, wildcards expanded in the middle of the list
\* and the dispatch maps decide a forwarded connection as the list of policies
\* read from the top would, where no set, wall, lockout or limit is involved.
ForwardedByPolicies ==
    (~rsCfg.wall /\ ~rsCfg.learning /\ rsCfg.inspect = {} /\ rsCfg.ipsets = <<>> /\ rsCfg.protect.on = {}) =>
        \A p \in NewPackets({"lan0", "wan0"}) :
            {p.iif, p.oif} \cap rsCfg.lockout = {} =>
                Verdict(rsCfg, p, {}) = ByPolicies(rsCfg, p)

\* A connection that was accepted once is not cut by any later configuration,
\* however little of it the new rules allow, unless a protection rule drops its
\* packets before connection tracking is asked.
EstablishedSurvive ==
    \A f \in rsConns :
        LET p == [f EXCEPT !.ct = "established"]
        IN FirstMatch(Protection(rsCfg), p, {}) # "drop" => Verdict(rsCfg, p, {"log"}) = "accept"

\* What the filter table lets out of an internal zone into an external one the
\* NAT table masquerades, unless a policy of the configuration says no: the two
\* tables resolve zones, wildcards and interfaces on their own.
PrivateIsMasqueraded ==
    \A k \in DOMAIN Policies(rsCfg) :
        LET pol == Policies(rsCfg)[k]
        IN ({pol.from, pol.to} \subseteq Zones /\ Internal(rsCfg, pol.from) /\ External(rsCfg, pol.to)
              /\ pol.masq # "no") =>
             \A i \in ZoneIfs(rsCfg, pol.from), o \in ZoneIfs(rsCfg, pol.to) :
                 Dispatch(rsCfg, i, o) # <<>> => o \in Masqueraded(rsCfg)
=============================================================================
