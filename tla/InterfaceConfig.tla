--------------------------- MODULE InterfaceConfig ---------------------------
(***************************************************************************)
(* The interface configuration and what the kernel has of it               *)
(* (internal/ctlplane/network_manager.go, the L2 half of link_linux.go and *)
(* ApplyInterface of internal/network/manager_logic.go).                   *)
(*                                                                         *)
(* The RPC handlers take no lock, so they interleave with each other, with *)
(* a reload and with a safe apply in progress; each is one step here.      *)
(* Netlink calls fail where the link is missing, and where an error leaves *)
(* something half done.                                                    *)
(***************************************************************************)
EXTENDS Naturals, Sequences, SequencesExt

CONSTANTS
    Ifaces,     \* physical interfaces: their links always exist
    Bond,       \* the name of a bond
    Addrs,      \* static addresses
    Vids,       \* VLAN ids
    Reloads     \* interface lists a reload may bring

Names == Ifaces \cup {Bond}
Settings == Addrs \cup {"dhcp"}

\* config.Interface: DHCP or a static address, and the VLANs on top.
Entry(n, s, vs) == [name |-> n, addr |-> s, vlans |-> vs]
Entries == [name : Names, addr : Settings, vlans : Seq(Vids)]

\* A list names a physical interface once at most; of a bond there may be two
\* entries.
ListOK(cfg) ==
    /\ cfg \in Seq(Entries)
    /\ \A i, j \in DOMAIN cfg : cfg[i].name \in Ifaces /\ cfg[j].name = cfg[i].name => i = j

\* Validate refuses a file that names an interface twice, and a bond has a
\* name of its own.
ASSUME InterfaceAssumption ==
    /\ Bond \notin Ifaces
    /\ \A cfg \in Reloads : ListOK(cfg)

VARIABLES
    config,     \* nm.config.Interfaces, the list s.config shares
    kernel,     \* per name: does the link exist, is it up, its address
    vlanLinks,  \* VLAN links, <<parent, id>>
    clients     \* names a DHCP client was started for

ifaceVars == <<config, kernel, vlanLinks, clients>>

VlansOf(cfg) == UNION {{<<cfg[i].name, v>> : v \in Range(cfg[i].vlans)} : i \in DOMAIN cfg}
DhcpOf(cfg) == {cfg[i].name : i \in {j \in DOMAIN cfg : cfg[j].addr = "dhcp"}}

\* The loops over nm.config.Interfaces stop at the first match; 0: none.
IndexOf(cfg, n) == SelectInSeq(cfg, LAMBDA e : e.name = n)

IfaceInit ==
    /\ config \in Reloads
    /\ kernel = [n \in Names |->
                   LET i == IndexOf(config, n)
                   IN [link |-> n \in Ifaces \/ i # 0,
                       up   |-> i # 0,
                       addr |-> IF i = 0 \/ config[i].addr = "dhcp" THEN "none"
                                ELSE config[i].addr]]
    /\ vlanLinks = VlansOf(config)
    /\ clients = DhcpOf(config)

IfaceTypeOK ==
    /\ config \in Seq(Entries)
    /\ kernel \in [Names -> [link : BOOLEAN, up : BOOLEAN, addr : Addrs \cup {"none", "lease"}]]
    /\ vlanLinks \subseteq Names \X Vids
    /\ clients \subseteq Names

-----------------------------------------------------------------------------
(* Lookups and the effect of applying an entry                             *)

\* Mutant: addresses are left behind when the setting is applied.
Applied_NoFlush(k, s) ==
    [link |-> TRUE, up |-> TRUE, addr |-> IF k.addr = "none" /\ s # "dhcp" THEN s ELSE k.addr]

\* Mutant: the DHCP flag is taken for an address.
Applied_FlagAsAddress(k, s) == [link |-> TRUE, up |-> TRUE, addr |-> s]

\* Flush, add the static address if there is one, set the link up.  A DHCP
\* interface is left without an address: nothing starts a client.
Applied(k, s) == [link |-> TRUE, up |-> TRUE, addr |-> IF s = "dhcp" THEN "none" ELSE s]

\* applyInterfaceConfig for every entry of the list: missing links are errors
\* and are skipped.
ApplyAll(cfg) ==
    [n \in Names |->
       IF IndexOf(cfg, n) # 0 /\ kernel[n].link
       THEN Applied(kernel[n], cfg[IndexOf(cfg, n)].addr)
       ELSE kernel[n]]

MissingLink(cfg) == \E i \in DOMAIN cfg : ~kernel[cfg[i].name].link

-----------------------------------------------------------------------------
(* UpdateInterface: enable, disable, update, delete                        *)

\* The change an argument stands for, as configuration and kernel after it
\* and whether an error is returned.  An update of an interface whose link is
\* missing is an error after the configuration was changed.
UpdateEffect(args) ==
    LET i == IndexOf(config, args.name)
        k == kernel[args.name]
        unchanged == [cfg |-> config, ker |-> kernel, err |-> TRUE]
    IN CASE args.action \in {"enable", "disable"} ->
              IF ~k.link THEN unchanged
              ELSE [cfg |-> config,
                    ker |-> [kernel EXCEPT ![args.name].up = (args.action = "enable")],
                    err |-> FALSE]
         [] args.action = "update" ->
              LET cfg == IF i = 0
                         THEN Append(config, Entry(args.name, args.addr, <<>>))
                         ELSE [config EXCEPT ![i].addr = args.addr]
              IN [cfg |-> cfg,
                  ker |-> IF k.link THEN [kernel EXCEPT ![args.name] = Applied(k, args.addr)]
                          ELSE kernel,
                  err |-> ~k.link]
         [] args.action = "delete" ->
              IF i = 0 THEN unchanged
              ELSE [cfg |-> RemoveAt(config, i), ker |-> kernel, err |-> FALSE]

UpdateArgs ==
    [name : Names, action : {"enable", "disable", "delete"}, addr : {"dhcp"}]
      \cup [name : Names, action : {"update"}, addr : Settings]

UpdateInterface(args) ==
    LET e == UpdateEffect(args)
    IN config' = e.cfg /\ kernel' = e.ker /\ UNCHANGED <<vlanLinks, clients>>

-----------------------------------------------------------------------------
(* VLANs and bonds                                                         *)

\* The link is added first; if it then cannot be set up the handler returns
\* without recording it.
CreateVLAN(p, v, up) ==
    /\ kernel[p].link
    /\ <<p, v>> \notin vlanLinks
    /\ vlanLinks' = vlanLinks \cup {<<p, v>>}
    /\ config' = IF up /\ IndexOf(config, p) # 0
                 THEN [config EXCEPT ![IndexOf(config, p)].vlans = Append(@, v)]
                 ELSE config
    /\ UNCHANGED <<kernel, clients>>

\* The place of a VLAN in its parent's list; 0 for an orphan.
VlanIndex(p, v) ==
    IF IndexOf(config, p) = 0 THEN 0
    ELSE SelectInSeq(config[IndexOf(config, p)].vlans, LAMBDA x : x = v)

DeleteVLAN(p, v) ==
    /\ <<p, v>> \in vlanLinks
    /\ vlanLinks' = vlanLinks \ {<<p, v>>}
    /\ config' = IF VlanIndex(p, v) = 0 THEN config
                 ELSE [config EXCEPT ![IndexOf(config, p)].vlans = RemoveAt(@, VlanIndex(p, v))]
    /\ UNCHANGED <<kernel, clients>>

\* Members are set down to be enslaved.  outcome "down": the bond could not
\* be set up; "nodhcp": the client did not start; either way the link stays
\* and the configuration does not know it.
CreateBond(member, s, outcome) ==
    /\ ~kernel[Bond].link
    /\ outcome = "nodhcp" => s = "dhcp"
    /\ kernel' = [kernel EXCEPT
                    ![Bond] = [link |-> TRUE, up |-> outcome # "down",
                               addr |-> IF s = "dhcp" \/ outcome # "ok" THEN "none" ELSE s],
                    ![member].up = FALSE]
    /\ config' = IF outcome = "ok" THEN Append(config, Entry(Bond, s, <<>>)) ELSE config
    /\ clients' = IF s = "dhcp" /\ outcome = "ok" THEN clients \cup {Bond} ELSE clients
    /\ UNCHANGED vlanLinks

DeleteBond ==
    /\ kernel[Bond].link
    /\ kernel' = [kernel EXCEPT ![Bond] = [link |-> FALSE, up |-> FALSE, addr |-> "none"]]
    /\ vlanLinks' = {x \in vlanLinks : x[1] # Bond}
    /\ clients' = clients \ {Bond}
    /\ config' = IF IndexOf(config, Bond) = 0 THEN config
                 ELSE RemoveAt(config, IndexOf(config, Bond))

-----------------------------------------------------------------------------
(* A reload: the list is replaced, every entry of it applied; a bond that  *)
(* is missing is created, VLANs are added and never taken away.            *)

ReloadInterfaces(cfg) ==
    /\ config' = cfg
    /\ kernel' = [n \in Names |->
                    IF IndexOf(cfg, n) # 0
                    THEN Applied(kernel[n], cfg[IndexOf(cfg, n)].addr)
                    ELSE kernel[n]]
    /\ vlanLinks' = vlanLinks \cup VlansOf(cfg)
    /\ clients' = clients \cup DhcpOf(cfg)

\* The DHCP client of an interface brings a lease.
LeaseArrives(n) ==
    /\ n \in clients
    /\ IndexOf(config, n) # 0
    /\ config[IndexOf(config, n)].addr = "dhcp"
    /\ kernel[n].link /\ kernel[n].up /\ kernel[n].addr = "none"
    /\ kernel' = [kernel EXCEPT ![n].addr = "lease"]
    /\ UNCHANGED <<config, vlanLinks, clients>>
=============================================================================
