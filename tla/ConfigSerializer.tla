-------------------------- MODULE ConfigSerializer --------------------------
(***************************************************************************)
(* What saving does to a configuration (internal/config/hcl_serializer.go) *)
(* against what reading expects of it (the hcl tags of the structures in   *)
(* config.go, network.go, policy.go, security.go, services.go, system.go). *)
(*                                                                         *)
(* A configuration is, for every block it has, the set of its fields that  *)
(* are not empty; a nested block is a field of its parent and a block of   *)
(* its own.  A text is, for every block it has, the fields its label is    *)
(* taken from and the attributes it is written with.  The model saves,     *)
(* restarts and edits.                                                     *)
(***************************************************************************)
EXTENDS Naturals, FiniteSets

CONSTANTS
    MaxFields,  \* bound: optional fields of a configuration that are set
    MaxEdits    \* bound: changes made through the API

ASSUME SerializerAssumption == MaxFields \in Nat /\ MaxEdits \in Nat

Struct(labels, required, optional) ==
    [labels |-> labels, required |-> required, optional |-> optional]

-----------------------------------------------------------------------------
(* What the structures declare                                             *)

InterfaceBlock == Struct({"name"}, {},
    {"description", "disabled", "zone", "new_zone", "ipv4", "ipv6", "dhcp",
     "dhcp_v6", "ra", "dhcp_client", "table", "gateway", "gateway_v6",
     "mtu", "bond", "vlan", "disable_anti_lockout", "access_web_ui",
     "web_ui_port", "management", "tls"})
RouteBlock == Struct({"name"}, {"destination"},
    {"gateway", "interface", "monitor_ip", "table", "metric"})
RoutingTableBlock == Struct({"name"}, {"id"},
    {"route"})
PolicyRouteBlock == Struct({"name"}, {},
    {"priority", "mark", "mark_mask", "from", "to", "iif", "oif", "fwmark",
     "table", "blackhole", "prohibit", "enabled", "comment"})
MarkRuleBlock == Struct({"name"}, {"mark"},
    {"mask", "proto", "src_ip", "dst_ip", "src_port", "dst_port",
     "dst_ports", "in_interface", "out_interface", "src_zone", "dst_zone",
     "ipset", "conn_state", "save_mark", "restore_mark", "enabled",
     "comment"})
MultiWANBlock == Struct({}, {},
    {"enabled", "mode", "wan", "health_check"})
WANLinkBlock == Struct({"name"}, {"interface", "gateway"},
    {"weight", "priority", "enabled"})
UplinkGroupBlock == Struct({"name"}, {"source_networks"},
    {"uplink", "source_interfaces", "source_zones", "failover_mode",
     "failback_mode", "failover_delay", "failback_delay",
     "load_balance_mode", "sticky_connections", "health_check", "enabled"})
UplinkDefBlock == Struct({"name"}, {"interface"},
    {"type", "gateway", "local_ip", "tier", "weight", "enabled", "comment",
     "health_check_cmd"})
UIDRoutingBlock == Struct({"name"}, {},
    {"uid", "username", "uplink", "vpn_link", "interface", "snat_ip",
     "enabled", "comment"})
PolicyBlock == Struct({"from", "to"}, {},
    {"name", "description", "priority", "disabled", "action", "masquerade",
     "log", "log_prefix", "rule", "inherits"})
PolicyRuleBlock == Struct({"name"}, {"action"},
    {"id", "description", "disabled", "order", "insert_after", "proto",
     "dest_port", "dest_ports", "src_port", "src_ports", "services",
     "src_ip", "src_ipset", "dest_ip", "dest_ipset", "src_zone",
     "dest_zone", "in_interface", "out_interface", "conn_state",
     "source_country", "dest_country", "invert_src", "invert_dest",
     "tcp_flags", "max_connections", "time_start", "time_end", "days",
     "jump_target", "log", "log_prefix", "log_level", "limit", "counter",
     "comment", "tags", "group"})
NATRuleBlock == Struct({"name"}, {"type"},
    {"description", "proto", "out_interface", "in_interface", "src_ip",
     "dest_ip", "mark", "dest_port", "to_ip", "to_port", "snat_ip",
     "hairpin"})
DHCPServerBlock == Struct({}, {},
    {"enabled", "scope", "mode", "external_lease_file"})
DHCPScopeBlock == Struct({"name"}, {"interface", "range_start", "range_end", "router"},
    {"dns", "lease_time", "domain", "options", "reservation",
     "range_start_v6", "range_end_v6", "dns_v6"})
DHCPReservationBlock == Struct({"mac"}, {"ip"},
    {"hostname", "description", "options", "register_dns"})
DNSServerBlock == Struct({}, {},
    {"enabled", "listen_on", "listen_port", "local_domain", "expand_hosts",
     "dhcp_integration", "authoritative_for", "mode", "forwarders",
     "conditional_forward", "upstream_timeout", "upstream_doh",
     "upstream_dot", "upstream_dnscrypt", "doh_server", "dot_server",
     "dnscrypt_server", "recursive", "dnssec", "rebind_protection",
     "query_logging", "rate_limit_per_sec", "blocklist", "allowlist",
     "blocked_ttl", "blocked_address", "cache_enabled", "cache_size",
     "cache_min_ttl", "cache_max_ttl", "negative_cache_ttl", "host",
     "zone"})
DNSHostEntryBlock == Struct({"ip"}, {"hostnames"},
    {})
DNSBlock == Struct({}, {},
    {"mode", "forwarders", "conditional_forward", "upstream_timeout",
     "upstream_doh", "upstream_dot", "upstream_dnscrypt", "recursive",
     "dnssec", "egress_filter", "egress_filter_ttl", "serve", "inspect"})
IPSetBlock == Struct({"name"}, {},
    {"description", "type", "entries", "domains", "refresh_interval",
     "size", "firehol_list", "url", "refresh_hours", "auto_update",
     "action", "apply_to", "match_on_source", "match_on_dest"})
ZoneBlock == Struct({"name"}, {},
    {"color", "description", "interface", "src", "dst", "vlan", "match",
     "interfaces", "ipsets", "networks", "action", "external", "services",
     "management", "ipv4", "ipv6", "dhcp"})
SchedulerConfigBlock == Struct({}, {},
    {"enabled", "ipset_refresh_hours", "dns_refresh_hours",
     "backup_enabled", "backup_schedule", "backup_retention_days",
     "backup_dir"})
ScheduledRuleBlock == Struct({"name"}, {"policy", "rule", "schedule"},
    {"description", "end_schedule", "enabled"})
RuleLearningConfigBlock == Struct({}, {},
    {"enabled", "log_group", "rate_limit", "auto_approve",
     "ignore_networks", "retention_days", "cache_size", "learning_mode",
     "inline_mode"})
AnomalyConfigBlock == Struct({}, {},
    {"enabled", "baseline_window", "min_samples", "spike_stddev",
     "drop_stddev", "alert_cooldown", "port_scan_threshold"})
NotificationsConfigBlock == Struct({}, {},
    {"enabled", "channel"})
NotificationChannelBlock == Struct({"name"}, {"type"},
    {"level", "enabled", "smtp_host", "smtp_port", "smtp_user",
     "smtp_password", "from", "to", "webhook_url", "channel", "username",
     "api_token", "user_key", "priority", "sound", "server", "topic",
     "password", "headers"})
ReplicationConfigBlock == Struct({}, {"mode"},
    {"listen_addr", "primary_addr", "secret_key"})
VPNConfigBlock == Struct({}, {},
    {"tailscale", "wireguard", "six_to_four", "interface_prefix_zones"})
TailscaleConfigBlock == Struct({"name"}, {},
    {"enabled", "interface", "auth_key", "auth_key_env", "control_url",
     "management_access", "zone", "advertise_routes", "accept_routes",
     "advertise_exit_node", "exit_node"})
WireGuardConfigBlock == Struct({"name"}, {},
    {"enabled", "interface", "management_access", "zone", "private_key",
     "private_key_file", "listen_port", "address", "dns", "mtu", "peer",
     "fwmark"})
WireGuardPeerConfigBlock == Struct({"name"}, {"public_key", "allowed_ips"},
    {"preshared_key", "endpoint", "persistent_keepalive"})
APIConfigBlock == Struct({}, {},
    {"enabled", "disable_sandbox", "listen", "tls_listen", "tls_cert",
     "tls_key", "disable_http_redirect", "require_auth", "bootstrap_key",
     "key_store_path", "key", "cors_origins", "letsencrypt"})
APIKeyConfigBlock == Struct({"name"}, {"key", "permissions"},
    {"allowed_ips", "allowed_paths", "rate_limit", "enabled",
     "description"})
LetsEncryptConfigBlock == Struct({}, {"email", "domain"},
    {"enabled", "cache_dir", "staging"})
MDNSConfigBlock == Struct({}, {},
    {"enabled", "interfaces"})
UPnPConfigBlock == Struct({}, {},
    {"enabled", "external_interface", "internal_interfaces", "secure_mode"})
NTPConfigBlock == Struct({}, {},
    {"enabled", "servers", "interval"})
FeaturesBlock == Struct({}, {},
    {"threat_intel", "network_learning", "qos", "integrity_monitoring"})
SyslogConfigBlock == Struct({}, {"host"},
    {"enabled", "port", "protocol", "tag", "facility"})
DDNSConfigBlock == Struct({}, {"provider", "hostname"},
    {"enabled", "token", "username", "zone_id", "record_id", "interface",
     "interval"})
SystemConfigBlock == Struct({}, {},
    {"sysctl_profile", "sysctl"})
QoSPolicyBlock == Struct({"name"}, {"interface"},
    {"enabled", "direction", "download_mbps", "upload_mbps", "class",
     "rule"})
InterfaceProtectionBlock == Struct({"name"}, {"interface"},
    {"enabled", "anti_spoofing", "bogon_filtering", "private_filtering",
     "invalid_packets", "syn_flood_protection", "syn_flood_rate",
     "syn_flood_burst", "icmp_rate_limit", "icmp_rate", "icmp_burst",
     "new_conn_rate_limit", "new_conn_rate", "new_conn_burst",
     "port_scan_protection", "port_scan_threshold", "geo_blocking",
     "blocked_countries", "allowed_countries"})
WebConfigBlock == Struct({}, {},
    {"listen", "tls_listen", "tls_cert", "tls_key", "disable_redirect",
     "serve_ui", "serve_api", "allow", "deny"})
AuditConfigBlock == Struct({}, {},
    {"enabled", "retention_days", "kernel_audit", "database_path"})
GeoIPConfigBlock == Struct({}, {},
    {"enabled", "database_path", "auto_update", "license_key"})
ThreatIntelBlock == Struct({}, {},
    {"enabled", "interval", "source"})
FRRConfigBlock == Struct({}, {},
    {"enabled", "ospf", "bgp"})
ConfigBlock == Struct({}, {},
    {"schema_version", "ip_forwarding", "mss_clamping", "enable_flow_offload", "state_dir"})

Schema ==
    [interface |-> InterfaceBlock, route |-> RouteBlock, routing_table |-> RoutingTableBlock,
     table_route |-> RouteBlock, policy_route |-> PolicyRouteBlock, mark_rule |-> MarkRuleBlock,
     multi_wan |-> MultiWANBlock, wan |-> WANLinkBlock, uplink_group |-> UplinkGroupBlock,
     uplink |-> UplinkDefBlock, uid_routing |-> UIDRoutingBlock, policy |-> PolicyBlock,
     policy_rule |-> PolicyRuleBlock, nat |-> NATRuleBlock, dhcp |-> DHCPServerBlock,
     scope |-> DHCPScopeBlock, reservation |-> DHCPReservationBlock,
     dns_server |-> DNSServerBlock, host |-> DNSHostEntryBlock, dns |-> DNSBlock,
     ipset |-> IPSetBlock, zone |-> ZoneBlock, scheduler |-> SchedulerConfigBlock,
     scheduled_rule |-> ScheduledRuleBlock, rule_learning |-> RuleLearningConfigBlock,
     anomaly_detection |-> AnomalyConfigBlock, notifications |-> NotificationsConfigBlock,
     channel |-> NotificationChannelBlock, replication |-> ReplicationConfigBlock,
     vpn |-> VPNConfigBlock, tailscale |-> TailscaleConfigBlock,
     wireguard |-> WireGuardConfigBlock, peer |-> WireGuardPeerConfigBlock,
     api |-> APIConfigBlock, key |-> APIKeyConfigBlock, letsencrypt |-> LetsEncryptConfigBlock,
     mdns |-> MDNSConfigBlock, upnp |-> UPnPConfigBlock, ntp |-> NTPConfigBlock,
     features |-> FeaturesBlock, syslog |-> SyslogConfigBlock, ddns |-> DDNSConfigBlock,
     system |-> SystemConfigBlock, qos_policy |-> QoSPolicyBlock,
     protection |-> InterfaceProtectionBlock, web |-> WebConfigBlock, audit |-> AuditConfigBlock,
     geoip |-> GeoIPConfigBlock, threat_intel |-> ThreatIntelBlock, frr |-> FRRConfigBlock,
     top |-> ConfigBlock]

Blocks == DOMAIN Schema

\* Nested blocks that are written as such: the parent and its field.
Parent ==
    [table_route |-> <<"routing_table", "route">>, wan |-> <<"multi_wan", "wan">>,
     uplink |-> <<"uplink_group", "uplink">>, policy_rule |-> <<"policy", "rule">>,
     scope |-> <<"dhcp", "scope">>, reservation |-> <<"scope", "reservation">>,
     host |-> <<"dns_server", "host">>, channel |-> <<"notifications", "channel">>,
     tailscale |-> <<"vpn", "tailscale">>, wireguard |-> <<"vpn", "wireguard">>,
     peer |-> <<"wireguard", "peer">>, key |-> <<"api", "key">>,
     letsencrypt |-> <<"api", "letsencrypt">>]
Enclosing(b) == IF b \in DOMAIN Parent THEN {Parent[b]} ELSE {}
Chain(b) == Enclosing(b) \cup UNION {Enclosing(p[1]) : p \in Enclosing(b)}

-----------------------------------------------------------------------------
(* What the synchronisation writes: the fields the labels are taken from,  *)
(* the attributes that are always written, those written when not empty    *)

Text(labels, always, ifset) == [labels |-> labels, always |-> always, ifset |-> ifset]

syncFeatures ==
    [features |-> Text({}, {}, {"threat_intel", "network_learning", "qos", "integrity_monitoring"})]

syncAPI ==
    [api |-> Text({}, {}, {"enabled", "listen", "tls_listen", "tls_cert", "tls_key",
         "disable_http_redirect", "disable_sandbox", "require_auth", "bootstrap_key",
         "key_store_path", "cors_origins", "key", "letsencrypt"}),
     key |-> Text({"name"}, {"key", "permissions"},
         {"allowed_ips", "allowed_paths", "rate_limit", "enabled", "description"}),
     letsencrypt |-> Text({}, {}, {"enabled", "email", "domain", "cache_dir", "staging"})]

syncSystem == [system |-> Text({}, {}, {"sysctl_profile", "sysctl"})]

syncIPSets ==
    [ipset |-> Text({"name"}, {}, {"type", "description", "entries", "url", "firehol_list"})]

syncRoutes ==
    [route |-> Text({"destination"}, {},
         {"name", "gateway", "interface", "monitor_ip", "table", "metric"}),
     routing_table |-> Text({"name"}, {"id"}, {"route"}),
     table_route |-> Text({"destination"}, {}, {"gateway"}),
     policy_route |-> Text({"name"}, {}, {"priority", "mark", "mark_mask", "from", "to", "iif",
         "oif", "table", "blackhole", "prohibit", "enabled", "comment"}),
     mark_rule |-> Text({"name"}, {"mark"},
         {"mask", "proto", "src_ip", "dst_ip", "in_interface", "ipset"}),
     uid_routing |-> Text({"name"}, {"uplink", "vpn_link"},
         {"uid", "username", "interface", "snat_ip", "enabled"})]

\* Mutant: a name of another version of the structure.
syncServices_Name ==
    [dhcp |-> Text({}, {}, {"enabled", "mode", "scope"}),
     scope |-> Text({"name"}, {"interface", "range_start", "range_end", "gateway"},
         {"dns", "lease_time", "reservation"}),
     reservation |-> Text({"mac"}, {"ip"}, {"hostname"}),
     dns |-> Text({}, {}, {"mode", "forwarders", "dnssec"}),
     dns_server |-> Text({}, {}, {"enabled", "listen_on", "mode", "forwarders", "host"}),
     host |-> Text({"ip"}, {"hostnames"}, {}),
     mdns |-> Text({}, {}, {"enabled", "interfaces"}),
     upnp |-> Text({}, {}, {"enabled", "external_interface", "internal_interfaces", "secure_mode"}),
     ntp |-> Text({}, {}, {"enabled", "servers", "interval"}),
     syslog |-> Text({}, {"host"}, {"enabled", "port"}),
     ddns |-> Text({}, {"provider", "hostname"}, {"enabled", "token"})]

syncServices ==
    [dhcp |-> Text({}, {}, {"enabled", "mode", "scope"}),
     scope |-> Text({"name"}, {"interface", "range_start", "range_end", "router"},
         {"dns", "lease_time", "reservation"}),
     reservation |-> Text({"mac"}, {"ip"}, {"hostname"}),
     dns |-> Text({}, {}, {"mode", "forwarders", "dnssec"}),
     dns_server |-> Text({}, {}, {"enabled", "listen_on", "mode", "forwarders", "host"}),
     host |-> Text({"ip"}, {"hostnames"}, {}),
     mdns |-> Text({}, {}, {"enabled", "interfaces"}),
     upnp |-> Text({}, {}, {"enabled", "external_interface", "internal_interfaces", "secure_mode"}),
     ntp |-> Text({}, {}, {"enabled", "servers", "interval"}),
     syslog |-> Text({}, {"host"}, {"enabled", "port"}),
     ddns |-> Text({}, {"provider", "hostname"}, {"enabled", "token"})]

syncVPN ==
    [vpn |-> Text({}, {}, {"wireguard", "tailscale"}),
     wireguard |-> Text({"name"}, {"private_key"}, {"listen_port", "address", "peer"}),
     peer |-> Text({"public_key"}, {}, {"endpoint", "allowed_ips", "preshared_key"}),
     tailscale |-> Text({"name"}, {}, {"enabled", "auth_key"})]

syncIntegrations ==
    [replication |-> Text({}, {"mode"}, {"listen_addr", "primary_addr", "secret_key"}),
     multi_wan |-> Text({}, {}, {"enabled", "mode", "wan"}),
     wan |-> Text({"name"}, {"interface", "gateway"}, {"weight"}),
     uplink_group |-> Text({"name"}, {}, {"source_networks", "uplink"}),
     uplink |-> Text({"name"}, {"interface"}, {"gateway"}),
     rule_learning |-> Text({}, {}, {"enabled", "learning_mode"}),
     anomaly_detection |-> Text({}, {}, {"enabled"}),
     notifications |-> Text({}, {}, {"enabled", "channel"}),
     channel |-> Text({"name"}, {"type"}, {"webhook_url"}),
     scheduler |-> Text({}, {}, {"enabled", "backup_enabled"}),
     scheduled_rule |-> Text({"name"}, {"policy", "schedule", "rule"}, {"end_schedule"})]

syncPolicies ==
    [policy |-> Text({"from", "to"}, {}, {"name", "description", "priority", "disabled", "action",
         "masquerade", "log", "log_prefix", "inherits", "rule"})]

\* The attributes of a rule.
appendRuleBlock ==
    [policy_rule |-> Text({"name"}, {"action"}, {"description", "disabled", "proto", "dest_port",
         "dest_ports", "src_port", "src_ports", "services", "src_ip", "src_ipset", "dest_ip",
         "dest_ipset", "invert_src", "invert_dest", "tcp_flags", "max_connections", "log",
         "comment"})]

syncZones == [zone |-> Text({"name"}, {}, {"interface", "interfaces", "description"})]

syncNAT ==
    [nat |-> Text({"name"}, {"type"}, {"description", "proto", "out_interface", "in_interface",
         "src_ip", "dest_ip", "dest_port", "to_ip", "to_port", "snat_ip", "hairpin"})]

syncInterfaces ==
    [interface |-> Text({"name"}, {}, {"description", "dhcp", "ipv4", "ipv6", "mtu", "zone"})]

WrittenParts ==
    {syncFeatures, syncAPI, syncSystem, syncInterfaces, syncPolicies, appendRuleBlock, syncZones, syncNAT,
     syncIPSets, syncRoutes, syncServices, syncVPN, syncIntegrations}
Written == [b \in UNION {DOMAIN p : p \in WrittenParts} |-> (CHOOSE p \in WrittenParts : b \in DOMAIN p)[b]]

\* syncIntegrations removes these too, after syncServices has written them.
ClearedAgain == {"syslog", "ddns"}

-----------------------------------------------------------------------------

VARIABLES
    sconf,    \* the configuration in memory
    stext,    \* the file
    sloaded,  \* the control plane has read the file into its tree
    ssaved,   \* history: the file was last written from this configuration
    sedits    \* counter for the bound

serVars == <<sconf, stext, sloaded, ssaved, sedits>>

\* A block as somebody writes it who follows the structures.
ByHand(b, fields) ==
    [labels |-> Schema[b].labels, attrs |-> (Schema[b].required \cup fields) \ Schema[b].labels,
     full |-> fields \ Schema[b].labels]

\* One block with some fields, in the blocks around it.
Configuration(b, fields) ==
    LET around == {p[1] : p \in Chain(b)}
    IN  [x \in {b, "top"} \cup around |->
           IF x = b THEN Schema[b].labels \cup fields
           ELSE IF x \in around
           THEN Schema[x].labels \cup Schema[x].required \cup {p[2] : p \in {q \in Chain(b) : q[1] = x}}
           ELSE {"ip_forwarding"}]

\* MaxFields of the fields, or fewer.
SomeOf(fields) == {{}} \cup {{f[k] : k \in 1 .. MaxFields} : f \in [1 .. MaxFields -> fields]}

\* At most one required field is there and empty.
SerInit ==
    \E b \in Blocks :
        \E empty \in {{}} \cup {{f} : f \in Schema[b].required}, some \in SomeOf(Schema[b].optional) :
            /\ sconf = Configuration(b, (Schema[b].required \ empty) \cup some)
            /\ stext = [x \in DOMAIN sconf |-> ByHand(x, sconf[x])]
            /\ sloaded = FALSE /\ ssaved = FALSE /\ sedits = 0

BlockReads(b, t) ==
    /\ t.attrs \subseteq Schema[b].required \cup Schema[b].optional
    /\ Schema[b].required \subseteq t.attrs
Reads(text) == \A b \in DOMAIN text : BlockReads(b, text[b])

Decoded(text) == [b \in DOMAIN text |-> Schema[b].labels \cup text[b].full]

WriteBlock(b, fields) ==
    [labels |-> Written[b].labels, attrs |-> Written[b].always \cup (Written[b].ifset \cap fields),
     full |-> (Written[b].always \cup Written[b].ifset) \cap fields]

\* Attributes of the file: one is always set, others only when they are on.
syncTop(t, fields) ==
    LET kept == t.attrs \ {"ip_forwarding"}
        set == fields \cap {"ip_forwarding", "mss_clamping", "enable_flow_offload", "state_dir"}
    IN [labels |-> {}, attrs |-> kept \cup set, full |-> kept \cup set]

\* The blocks that are written, and those of the file that stay in it.
Rewritten(conf) == (DOMAIN conf \cap DOMAIN Written) \ ClearedAgain
Untouched(text) == DOMAIN text \ DOMAIN Written

\* Mutant: a block that is no longer configured stays in the file.
syncBlocks_Keeps(text, conf) ==
    [b \in Rewritten(conf) \cup (DOMAIN text \ ClearedAgain) |->
        IF b = "top" THEN syncTop(text.top, conf.top)
        ELSE IF b \in Rewritten(conf) THEN WriteBlock(b, conf[b])
        ELSE text[b]]

\* Mutant: what is written depends on what the file said before.
syncBlocks_Merges(text, conf) ==
    [b \in Rewritten(conf) \cup Untouched(text) |->
        IF b = "top" THEN syncTop(text.top, conf.top)
        ELSE IF b \in Untouched(text) THEN text[b]
        ELSE IF b \in DOMAIN text /\ text[b].full \subseteq conf[b] THEN WriteBlock(b, conf[b] \ text[b].full)
        ELSE WriteBlock(b, conf[b])]

\* Blocks that are written are removed first; others stay what they are.
syncBlocks(text, conf) ==
    [b \in Rewritten(conf) \cup Untouched(text) |->
        IF b = "top" THEN syncTop(text.top, conf.top)
        ELSE IF b \in Rewritten(conf) THEN WriteBlock(b, conf[b])
        ELSE text[b]]

-----------------------------------------------------------------------------

\* SaveConfig: the file has to decode once, before the tree can be written.
SerSave ==
    /\ ~sloaded => Reads(stext)
    /\ stext' = syncBlocks(stext, sconf)
    /\ sloaded' = TRUE /\ ssaved' = TRUE
    /\ UNCHANGED <<sconf, sedits>>

\* The daemon starts: LoadFile, or LoadForgiving, which comments the blocks
\* out that do not decode; an enclosing block may go with them.
SerRestart ==
    /\ LET lost == {b \in DOMAIN stext : ~BlockReads(b, stext[b])}
           around == UNION {{p[1] : p \in Chain(b)} : b \in lost}
       IN \E gone \in {lost, lost \cup around} :
            sconf' = [b \in DOMAIN stext \ gone |->
                        Decoded(stext)[b] \ {p[2] : p \in {q \in UNION {Enclosing(x) : x \in gone} : q[1] = b}}]
    /\ sloaded' = FALSE
    /\ UNCHANGED <<stext, ssaved, sedits>>

\* The handlers of the API: a field is emptied, or a section removed.
SerClear(b, f) ==
    /\ sedits < MaxEdits /\ sedits' = sedits + 1
    /\ b \in DOMAIN sconf /\ f \in sconf[b] \cap Schema[b].optional
    /\ ~\E p \in DOMAIN Parent : Parent[p] = <<b, f>>
    /\ sconf' = [sconf EXCEPT ![b] = @ \ {f}]
    /\ ssaved' = FALSE
    /\ UNCHANGED <<stext, sloaded>>

SerRemove(b) ==
    /\ sedits < MaxEdits /\ sedits' = sedits + 1
    /\ b \in DOMAIN sconf /\ b # "top" /\ b \notin DOMAIN Parent
    /\ sconf' = [x \in {y \in DOMAIN sconf : y # b /\ \A p \in Chain(y) : p[1] # b} |-> sconf[x]]
    /\ ssaved' = FALSE
    /\ UNCHANGED <<stext, sloaded>>

SerNext ==
    \/ SerSave \/ SerRestart
    \/ \E b \in Blocks : SerRemove(b) \/ \E f \in Schema[b].optional : SerClear(b, f)

SerSpec == SerInit /\ [][SerNext]_serVars

-----------------------------------------------------------------------------
(* Properties                                                              *)

\* A saved file that cannot be read again has a static route, a route of a
\* routing table, a WireGuard peer, an uplink group without networks or an
\* empty Let's Encrypt field: every other block is written with attributes
\* its structure declares and with all those it requires.
UnreadableOnlyFor ==
    \/ Reads(stext) \/ {"route", "table_route", "peer"} \cap DOMAIN stext # {}
    \/ \E b \in {"uplink_group", "letsencrypt"} \cap DOMAIN stext : ~(Schema[b].required \subseteq stext[b].full)

\* What was removed through the API and saved does not come back with a
\* restart, for the sections that are synchronised.
RemovedStays ==
    ssaved /\ Reads(stext) =>
        \A b \in DOMAIN Written : b \notin DOMAIN sconf => b \notin DOMAIN stext

\* Saving again what was saved and read back changes nothing in the file.
SavesAreStable == [][ssaved /\ ssaved' /\ Reads(stext) => stext' = stext]_serVars

\* A saved file can be read, but for what the code is known to write wrongly;
\* removed blocks stay away; and saving again changes nothing.
SavesReadable == [](UnreadableOnlyFor /\ RemovedStays) /\ SavesAreStable
=============================================================================
