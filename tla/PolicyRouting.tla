--------------------------- MODULE PolicyRouting ----------------------------
(***************************************************************************)
(* Policy routing, and the marks it is made of for uplinks.                *)
(***************************************************************************)
EXTENDS Naturals, Sequences, SequencesExt, FiniteSets, FiniteSetsExt

-----------------------------------------------------------------------------
(***************************************************************************)
(* Policy routing (internal/network/policy_routing.go): the rules and      *)
(* tables of the configuration in the kernel.                              *)
(*                                                                         *)
(* At start a manager of its own applies the configuration and is not used *)
(* again; reloads go through the server's manager, which knows only what   *)
(* it applied itself.  Commands to the kernel are given one by one, and    *)
(* the daemon may die between any two.  Reloads hold the server's lock.    *)
(***************************************************************************)
CONSTANTS
    PrDests,        \* destinations of routes
    PrConfigs,      \* configurations: records with routes, rules and wans
    MaxPrReloads, MaxPrRestarts, MaxPrFaults  \* bounds

PrRoutes == [table: Nat, dest: PrDests, gw: Nat]
PrRules == [prio: Nat, mark: Nat, mask: BOOLEAN, table: Nat, enabled: BOOLEAN]

ASSUME PrAssumption ==
    /\ "default" \in PrDests
    /\ \A c \in PrConfigs : c.routes \in Seq(PrRoutes) /\ c.rules \in Seq(PrRules) /\ c.wans \in Nat

VARIABLES
    prRules,     \* the kernel's rules, in order of insertion
    prRoutes,    \* the kernel's routes in the tables: [table, dest, gw]
    prKnown,     \* the server's manager: the rules it has added
    prConfig,    \* the configuration being applied, or applied last
    prJob,       \* applying it: by whom, its phase, the next command, no error so far
    prReloads, prRestarts, prFaults

prVars == <<prRules, prRoutes, prKnown, prConfig, prJob, prReloads, prRestarts, prFaults>>

-----------------------------------------------------------------------------
(* Commands                                                                *)

\* What "ip rule" knows of a rule.
KernelRule(r) == [prio |-> r.prio, mark |-> r.mark, mask |-> r.mask, table |-> r.table]

\* DeleteRule names priority, mark and table where they are set, and never the
\* mask, so that the kernel does not find a rule with a mask.
Matches(k, r) ==
    /\ r.prio # 0 => k.prio = r.prio
    /\ r.mark # 0 => k.mark = r.mark /\ ~k.mask
    /\ r.table # 0 => k.table = r.table
DeleteRule(rules, r) ==
    LET found == {i \in DOMAIN rules : Matches(rules[i], r)}
    IN IF found = {} THEN rules ELSE RemoveAt(rules, Min(found))

\* The kernel refuses a rule it has, and a route to a destination the table
\* has.  A disabled rule does not reach the kernel.
RuleFits(r) == r.enabled => KernelRule(r) \notin ToSet(prRules)
RouteFits(r) == \A k \in prRoutes : <<k.table, k.dest>> # <<r.table, r.dest>>

RouteCommands(cfg) == [i \in DOMAIN cfg.routes |-> [kind |-> "route", it |-> cfg.routes[i]]]
\* The priority of a rule that has none, and the rule without one.
RuleCommands(cfg) ==
    [i \in DOMAIN cfg.rules |->
        [kind |-> "rule", it |-> IF cfg.rules[i].prio = 0 THEN [cfg.rules[i] EXCEPT !.prio = 20000]
                                 ELSE cfg.rules[i]]]
WanMark(i) == 256 + i - 1
WanTable(i) == 10 + i - 1
\* SetupMultiWAN: a default route and then a rule for each connection.
WanCommands(cfg) ==
    [n \in 1..2 * cfg.wans |->
        LET i == (n + 1) \div 2
        IN IF n % 2 = 1
           THEN [kind |-> "route", it |-> [table |-> WanTable(i), dest |-> "default", gw |-> i]]
           ELSE [kind |-> "rule", it |-> [prio |-> 100 + i - 1, mark |-> WanMark(i), mask |-> FALSE,
                                          table |-> WanTable(i), enabled |-> TRUE]]]

-----------------------------------------------------------------------------
\* Mutant: the new rules are added before the old ones are deleted.
PrPhases_AddsFirst == <<"policy", "delete", "wans", "done">>
\* Reload: the known rules are deleted, then routes and rules are added.  A
\* reload sets up the connections afterwards, the start of the daemon does not.
PrPhases == <<"delete", "policy", "wans", "done">>

PrAt == PrPhases[prJob.phase]
PrCommands ==
    CASE PrAt = "policy" -> RouteCommands(prConfig) \o RuleCommands(prConfig)
      [] PrAt = "wans" -> WanCommands(prConfig)
      [] OTHER -> << >>

\* Errors of all phases are reported together; only the first command of a
\* phase that fails ends it.
PrGoOn == prJob' = [prJob EXCEPT !.n = @ + 1]
PrNextPhase(good) ==
    LET phase == IF prJob.by = "start" /\ PrPhases[prJob.phase + 1] = "wans"
                 THEN prJob.phase + 2 ELSE prJob.phase + 1
    IN prJob' = [prJob EXCEPT !.phase = phase, !.n = 1, !.ok = @ /\ good]

PrBegun(who) == [by |-> who, phase |-> 1, n |-> 1, ok |-> TRUE]

PrFault == prFaults < MaxPrFaults /\ prFaults' = prFaults + 1

\* The first start.
PrInit ==
    /\ prRules = << >> /\ prRoutes = {} /\ prKnown = << >> /\ prConfig \in PrConfigs
    /\ prJob = PrBegun("start")
    /\ prReloads = 0 /\ prRestarts = 0 /\ prFaults = 0

\* A rule that was deleted is gone, or the command failed and the next follows.
PrDelete ==
    /\ PrAt = "delete" /\ prJob.n \in DOMAIN prKnown
    /\ \/ prRules' = DeleteRule(prRules, prKnown[prJob.n]) /\ UNCHANGED prFaults
       \/ PrFault /\ UNCHANGED prRules
    /\ PrGoOn
    /\ UNCHANGED <<prRoutes, prKnown, prConfig, prReloads, prRestarts>>

PrDeleted ==
    /\ PrAt = "delete" /\ prJob.n \notin DOMAIN prKnown
    /\ prKnown' = << >> /\ PrNextPhase(TRUE)
    /\ UNCHANGED <<prRules, prRoutes, prConfig, prReloads, prRestarts, prFaults>>

\* The manager of the start is not the server's.
PrNote(r) == prKnown' = IF prJob.by = "start" THEN prKnown ELSE Append(prKnown, r)

PrAddRoute ==
    /\ prJob.n \in DOMAIN PrCommands
    /\ LET c == PrCommands[prJob.n]
       IN /\ c.kind = "route"
          /\ \/ RouteFits(c.it) /\ prRoutes' = prRoutes \cup {c.it} /\ PrGoOn /\ UNCHANGED prFaults
             \/ ~RouteFits(c.it) /\ PrNextPhase(FALSE) /\ UNCHANGED <<prRoutes, prFaults>>
             \/ PrFault /\ PrNextPhase(FALSE) /\ UNCHANGED prRoutes
    /\ UNCHANGED <<prRules, prKnown, prConfig, prReloads, prRestarts>>

\* AddRule: a rule is noted before the kernel is asked.
PrAddRule ==
    /\ prJob.n \in DOMAIN PrCommands
    /\ LET c == PrCommands[prJob.n]
       IN /\ c.kind = "rule" /\ PrNote(c.it)
          /\ \/ /\ RuleFits(c.it) /\ PrGoOn /\ UNCHANGED prFaults
                /\ prRules' = IF c.it.enabled THEN Append(prRules, KernelRule(c.it)) ELSE prRules
             \/ ~RuleFits(c.it) /\ PrNextPhase(FALSE) /\ UNCHANGED <<prRules, prFaults>>
             \/ c.it.enabled /\ PrFault /\ PrNextPhase(FALSE) /\ UNCHANGED prRules
    /\ UNCHANGED <<prRoutes, prConfig, prReloads, prRestarts>>

PrAdded ==
    /\ PrAt \in {"policy", "wans"} /\ prJob.n \notin DOMAIN PrCommands
    /\ PrNextPhase(TRUE)
    /\ UNCHANGED <<prRules, prRoutes, prKnown, prConfig, prReloads, prRestarts, prFaults>>

-----------------------------------------------------------------------------
\* Another start of the daemon, after it ended or died at any moment: the kernel
\* still has what it had, and the server's manager knows nothing.
PrStart ==
    /\ prRestarts < MaxPrRestarts /\ prRestarts' = prRestarts + 1
    /\ prJob' = PrBegun("start") /\ prKnown' = << >>
    /\ UNCHANGED <<prRules, prRoutes, prConfig, prReloads, prFaults>>

\* reloadConfigInternal: applying the interfaces flushes their addresses, and
\* the kernel drops the routes that used them; then Reload and SetupMultiWAN.
PrReload(cfg) ==
    /\ PrAt = "done" /\ prReloads < MaxPrReloads /\ prReloads' = prReloads + 1
    /\ prConfig' = cfg /\ prJob' = PrBegun("reload")
    /\ \E gone \in SUBSET prRoutes : prRoutes' = prRoutes \ gone
    /\ UNCHANGED <<prRules, prKnown, prRestarts, prFaults>>

PrNext ==
    \/ PrDelete \/ PrDeleted \/ PrAddRoute \/ PrAddRule \/ PrAdded \/ PrStart
    \/ \E cfg \in PrConfigs : PrReload(cfg)

PrSpec == PrInit /\ [][PrNext]_prVars

-----------------------------------------------------------------------------
\* The command had its effect.
InKernel(c) ==
    /\ c.kind = "route" => c.it \in prRoutes
    /\ c.kind = "rule" => (c.it.enabled => KernelRule(c.it) \in ToSet(prRules))

\* A reload or a start that reports no error has every enabled rule and every
\* route of the configuration in the kernel, a reload those of the uplinks as
\* well, whatever earlier configurations, reloads that stopped half way, deaths
\* and starts of the daemon left there.
ReloadComplete ==
    (PrAt = "done" /\ prJob.ok) =>
        /\ \A i \in DOMAIN prConfig.routes : InKernel(RouteCommands(prConfig)[i])
        /\ \A i \in DOMAIN prConfig.rules : InKernel(RuleCommands(prConfig)[i])
        /\ prJob.by = "reload" =>
              \A i \in DOMAIN WanCommands(prConfig) : InKernel(WanCommands(prConfig)[i])

-----------------------------------------------------------------------------
(***************************************************************************)
(* The marks and routing tables of an uplink group: the layout in          *)
(* internal/network/policy_routing.go and allocateMark and allocateTable   *)
(* in internal/network/uplink.go.                                          *)
(***************************************************************************)
CONSTANTS
    UplinkRuns,       \* how many uplinks of a type a group lists in a row
    MaxUplinkRuns     \* bound: the number of such rows

ASSUME UpAssumption == UplinkRuns \subseteq Nat

VARIABLES
    upRuns,      \* how many rows were added
    upList       \* UplinkGroup.Uplinks: [type, mark, table]

upVars == <<upRuns, upList>>

UplinkTypes == {"wan", "wireguard", "tailscale", "openvpn", "ipsec", "custom"}

\* The categories of marks and the ranges of tables.
MarkBase == [wan |-> 256, wireguard |-> 512, tailscale |-> 544, openvpn |-> 576, ipsec |-> 608, custom |-> 4096]
TableBase == [wan |-> 10, wireguard |-> 30, tailscale |-> 50, openvpn |-> 60, ipsec |-> 200, custom |-> 200]
MarkNone == 0
TableMain == 254

\* Mutant: one index too many.
LastMark_OneMore(t) == IF t = "wan" THEN 255 ELSE 32
\* The largest index that MarkForWAN, MarkForWireGuard and the others accept.
LastMark(t) == IF t = "wan" THEN 255 ELSE 31
\* The largest index that TableForWAN and the others accept.
LastTable(t) == IF t \in {"wan", "wireguard"} THEN 19 ELSE 9

\* Uplinks of a type are numbered from 0, others by their place in the group.
AllocateMark(t, index, place) ==
    IF t = "custom" THEN MarkBase[t] + place
    ELSE IF index > LastMark(t) THEN MarkNone ELSE MarkBase[t] + index
AllocateTable(t, index, place) ==
    IF t \in {"custom", "ipsec"} THEN TableBase[t] + place
    ELSE IF index > LastTable(t) THEN TableMain ELSE TableBase[t] + index

\* AddUplink, as the k-th of some that are added to a list.
AddedUplink(list, t, k) ==
    LET index == Cardinality({i \in DOMAIN list : list[i].type = t}) + k - 1
        place == Len(list) + k - 1
    IN [type |-> t, mark |-> AllocateMark(t, index, place), table |-> AllocateTable(t, index, place)]

UpInit == upRuns = 0 /\ upList = << >>
AddUplinks(t, n) ==
    /\ upRuns < MaxUplinkRuns /\ upRuns' = upRuns + 1
    /\ upList' = upList \o [k \in 1..n |-> AddedUplink(upList, t, k)]
UpNext == \E t \in UplinkTypes, n \in UplinkRuns : AddUplinks(t, n)
UpSpec == UpInit /\ [][UpNext]_upVars

-----------------------------------------------------------------------------
\* Uplinks of a group never share a mark or a table, except those for which
\* the ranges do not suffice: they get no mark and the main table.
UplinksApart ==
    \A i, j \in DOMAIN upList :
        i # j => /\ upList[i].mark # MarkNone => upList[i].mark # upList[j].mark
                 /\ upList[i].table # TableMain => upList[i].table # upList[j].table

\* A reload without error is complete, and uplinks have marks and tables of
\* their own.
RoutesWhole == ReloadComplete /\ UplinksApart
=============================================================================
