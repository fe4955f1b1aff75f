--------------------------- MODULE UplinkFailover ---------------------------
(***************************************************************************)
(* Failover between uplinks (internal/network/uplink.go, the RPCs of       *)
(* internal/ctlplane/uplink_rpc.go, and their place in a reload,           *)
(* internal/ctlplane/server.go).                                           *)
(*                                                                         *)
(* One group of uplinks in tiers; new connections of each source network   *)
(* are marked for the active uplink by a rule in the chain mark_prerouting.*)
(* The health checker probes uplink after uplink without the group's lock, *)
(* so RPCs and link changes come in between.  The mark of an uplink stands *)
(* for the uplink; of several mark rules for a network the last one        *)
(* decides, so a network is represented by that one.                       *)
(***************************************************************************)
EXTENDS Naturals, FiniteSets

CONSTANTS
    NumUplinks,      \* uplinks of the group, in the order of the configuration
    NumNets,         \* source networks
    Threshold,       \* probes in a row that change the health of an uplink
    TierChoices,     \* tiers of the uplinks, as configurations give them
    NoMark,          \* no rule marks the network's new connections
    MaxLinkChanges,  \* bound: links going down or up
    MaxFaults,       \* bound: failing nft commands
    MaxUplinkCalls   \* bound: RPCs and reloads

ASSUME UplinkAssumption ==
    /\ NumUplinks \in Nat \ {0}
    /\ NumNets \in Nat
    /\ Threshold \in Nat \ {0}
    /\ TierChoices \subseteq [1..NumUplinks -> Nat]
    /\ NoMark \notin 1..NumUplinks

Uplinks == 1..NumUplinks
Nets == 1..NumNets

VARIABLES
    tier,        \* Uplink.Tier
    mode,        \* FailoverMode and FailbackMode of the group
    enabled,     \* Uplink.Enabled
    healthy,     \* Uplink.Healthy
    fails,       \* Uplink.FailureCount, up to Threshold
    succs,       \* Uplink.SuccessCount, up to Threshold
    reach,       \* environment: does a probe through the uplink succeed
    active,      \* ActiveUplinks and CurrentMark
    activeTier,  \* ActiveTier
    marks,       \* per network: the uplink its new connections are marked for
    checker,     \* m.healthChecker: "running", or "closed" and still referenced
    pos,         \* checkGroup: 0 idle, u probes uplink u next, then the decision
    seenTier,    \* checkGroup's copy of ActiveTier
    needs,       \* needsSwitch, and from the decision on whether to switch
    firewall,    \* a reload is about to apply the firewall's ruleset
    crashed,     \* the process panicked
    intact,      \* history: nft failed no command and no ruleset was applied
                 \* since the last setup or switch
    linkChanges, faults, uplinkCalls   \* counters for the bounds

uplinkVars == <<tier, mode, enabled, healthy, fails, succs, reach, active, activeTier, marks,
                checker, pos, seenTier, needs, firewall, crashed, intact, linkChanges,
                faults, uplinkCalls>>

groupState == <<tier, mode, enabled, healthy, fails, succs>>
budgets == <<linkChanges, faults, uplinkCalls>>

Modes == [failover : {"graceful", "manual"}, failback : {"graceful", "never"}]

\* A group as Reload makes it: every uplink healthy, the first one active.
FreshGroup(t, m) ==
    /\ tier' = t /\ mode' = m
    /\ enabled' = [u \in Uplinks |-> TRUE]
    /\ healthy' = [u \in Uplinks |-> TRUE]
    /\ fails' = [u \in Uplinks |-> 0]
    /\ succs' = [u \in Uplinks |-> 0]
    /\ active' = 1
    /\ activeTier' = t[1]

UplinkInit ==
    /\ tier \in TierChoices /\ mode \in Modes
    /\ enabled = [u \in Uplinks |-> TRUE] /\ healthy = enabled /\ reach = enabled
    /\ fails = [u \in Uplinks |-> 0] /\ succs = fails
    /\ active = 1 /\ activeTier = tier[1]
    /\ marks = [n \in Nets |-> 1]
    /\ checker = "running" /\ pos = 0 /\ seenTier = 0 /\ needs = FALSE
    /\ firewall = FALSE /\ crashed = FALSE /\ intact = TRUE
    /\ linkChanges = 0 /\ faults = 0 /\ uplinkCalls = 0

-----------------------------------------------------------------------------
(* Choosing and switching                                                  *)

Usable == {u \in Uplinks : enabled[u] /\ healthy[u]}

\* GetBestTier; the callers test for -1, here for Usable = {}.
BestTier == CHOOSE t \in {tier[u] : u \in Usable} : \A u \in Usable : t <= tier[u]

\* GetBestUplink without load balancing: the first of the best tier.
BestUplink ==
    CHOOSE u \in Usable :
        /\ tier[u] = BestTier
        /\ \A v \in Usable : tier[v] = BestTier => u <= v

\* Marking the networks from the first to the last.  The command for network
\* failAt fails (0: none does): its old rule may be gone by then, and the
\* networks after it keep what they had.
Marked(u, failAt) ==
    {m \in [Nets -> Uplinks \cup {NoMark}] :
        \A n \in Nets :
            IF failAt = 0 \/ n < failAt THEN m[n] = u
            ELSE IF n = failAt THEN m[n] \in {marks[n], NoMark}
            ELSE m[n] = marks[n]}

FailPoints == IF faults < MaxFaults THEN 0..NumNets ELSE {0}

\* Setup goes on with rules, SNAT and routes of the uplinks after the marks.
SetupFailPoints == IF faults < MaxFaults THEN 0..(NumNets + 1) ELSE {0}

\* Mutant: the group's state is set before the rules are.
SwitchTo_StateFirst(u) ==
    IF u = active
    THEN UNCHANGED <<active, activeTier, marks, intact, faults>>
    ELSE \E failAt \in FailPoints :
           /\ marks' \in Marked(u, failAt)
           /\ faults' = IF failAt = 0 THEN faults ELSE faults + 1
           /\ intact' = (failAt = 0)
           /\ active' = u
           /\ activeTier' = IF failAt = 0 THEN tier[u] ELSE activeTier

\* The uplink that has the current mark already is left as it is.
SwitchTo(u) ==
    IF u = active
    THEN UNCHANGED <<active, activeTier, marks, intact, faults>>
    ELSE \E failAt \in FailPoints :
           /\ marks' \in Marked(u, failAt)
           /\ faults' = IF failAt = 0 THEN faults ELSE faults + 1
           /\ intact' = (failAt = 0)
           /\ active' = IF failAt = 0 THEN u ELSE active
           /\ activeTier' = IF failAt = 0 THEN tier[u] ELSE activeTier

-----------------------------------------------------------------------------
(* UplinkHealthChecker                                                     *)

\* checkGroup copies what it needs under the lock and starts probing.
CheckStart ==
    /\ checker = "running" /\ pos = 0 /\ ~crashed
    /\ pos' = 1 /\ seenTier' = activeTier /\ needs' = FALSE
    /\ UNCHANGED <<groupState, reach, active, activeTier, marks, checker, firewall, crashed,
                   intact, budgets>>

\* Counters beyond the threshold change nothing more.
Up(n) == IF n < Threshold THEN n + 1 ELSE Threshold

\* Mutant: one failed probe is enough.
AfterProbe_NoThreshold(u, ok) ==
    IF ok THEN [f |-> 0, s |-> Up(succs[u]), h |-> Up(succs[u]) >= Threshold \/ healthy[u]]
          ELSE [f |-> Up(fails[u]), s |-> 0, h |-> FALSE]

\* Mutant: a probe that succeeds keeps the failures counted.
AfterProbe_NoReset(u, ok) ==
    IF ok THEN [f |-> fails[u], s |-> Up(succs[u]), h |-> Up(succs[u]) >= Threshold \/ healthy[u]]
          ELSE [f |-> Up(fails[u]), s |-> 0, h |-> Up(fails[u]) < Threshold /\ healthy[u]]

AfterProbe(u, ok) ==
    IF ok THEN [f |-> 0, s |-> Up(succs[u]), h |-> Up(succs[u]) >= Threshold \/ healthy[u]]
          ELSE [f |-> Up(fails[u]), s |-> 0, h |-> Up(fails[u]) < Threshold /\ healthy[u]]

\* A disabled uplink counts as unreachable.
CheckUplink(u) ==
    LET r == AfterProbe(u, reach[u] /\ enabled[u])
    IN /\ pos = u
       /\ pos' = u + 1
       /\ fails' = [fails EXCEPT ![u] = r.f]
       /\ succs' = [succs EXCEPT ![u] = r.s]
       /\ healthy' = [healthy EXCEPT ![u] = r.h]
       /\ needs' = (needs \/ (tier[u] = seenTier /\ healthy[u] /\ ~r.h))
       /\ UNCHANGED <<tier, mode, enabled, reach, active, activeTier, marks, checker, seenTier,
                      firewall, crashed, intact, budgets>>

\* A lower tier is left, or returned to, as the modes allow; "manual" for the
\* failback mode is not looked at.
TierChanges ==
    /\ Usable # {}
    /\ \/ BestTier < seenTier /\ mode.failback # "never"
       \/ BestTier > seenTier /\ mode.failover # "manual"

\* Mutant: recovery within the tier is forgotten.
Recovers_Never == FALSE

\* "All Down -> One Recovers" within the tier.
Recovers == Usable # {} /\ BestTier = seenTier /\ ~healthy[active]

\* Mutant: the failed uplink of a manual group is replaced, too.
CheckDecide_IgnoresManual ==
    /\ pos = NumUplinks + 1
    /\ LET switch == TierChanges \/ needs \/ Recovers
       IN needs' = switch /\ pos' = IF switch THEN NumUplinks + 2 ELSE 0
    /\ UNCHANGED <<groupState, reach, active, activeTier, marks, checker, seenTier, firewall,
                   crashed, intact, budgets>>

\* In manual mode only a tier change goes on.
CheckDecide ==
    /\ pos = NumUplinks + 1
    /\ LET switch == TierChanges \/ (mode.failover # "manual" /\ (needs \/ Recovers))
       IN needs' = switch /\ pos' = IF switch THEN NumUplinks + 2 ELSE 0
    /\ UNCHANGED <<groupState, reach, active, activeTier, marks, checker, seenTier, firewall,
                   crashed, intact, budgets>>

\* SwitchToBest; without a healthy uplink it is an error that is logged.
CheckSwitch ==
    /\ pos = NumUplinks + 2
    /\ pos' = 0 /\ needs' = FALSE
    /\ IF Usable = {} THEN UNCHANGED <<active, activeTier, marks, intact, faults>>
       ELSE SwitchTo(BestUplink)
    /\ UNCHANGED <<groupState, reach, checker, seenTier, firewall, crashed, linkChanges,
                   uplinkCalls>>

-----------------------------------------------------------------------------
(* RPCs, reloads and the environment                                       *)

Call == ~crashed /\ uplinkCalls < MaxUplinkCalls /\ uplinkCalls' = uplinkCalls + 1

SwitchUplink(u) ==
    /\ Call
    /\ SwitchTo(u)
    /\ UNCHANGED <<groupState, reach, checker, pos, seenTier, needs, firewall, crashed,
                   linkChanges>>

SwitchToBest ==
    /\ Call
    /\ Usable # {}
    /\ SwitchTo(BestUplink)
    /\ UNCHANGED <<groupState, reach, checker, pos, seenTier, needs, firewall, crashed,
                   linkChanges>>

ToggleUplink(u) ==
    /\ Call
    /\ enabled' = [enabled EXCEPT ![u] = ~@]
    /\ UNCHANGED <<tier, mode, healthy, fails, succs, reach, active, activeTier, marks, checker,
                   pos, seenTier, needs, firewall, crashed, intact, linkChanges, faults>>

\* Reload stops the checker, which finishes its round first, and closes its
\* channel; a second stop of the same checker panics.  The new group is set
\* up; if that fails no new checker is started.  Mark rules of the old group
\* are not torn down.
Reload(t, m) ==
    /\ Call
    /\ pos = 0 /\ ~firewall
    /\ IF checker = "closed"
       THEN /\ crashed' = TRUE
            /\ UNCHANGED <<groupState, active, activeTier, marks, intact, faults, checker, firewall>>
       ELSE /\ FreshGroup(t, m)
            /\ \E failAt \in SetupFailPoints :
                 /\ marks' \in Marked(1, failAt)
                 /\ faults' = IF failAt = 0 THEN faults ELSE faults + 1
                 /\ intact' = (failAt \notin Nets)
                 /\ checker' = IF failAt = 0 THEN "running" ELSE "closed"
            /\ firewall' = TRUE
            /\ UNCHANGED crashed
    /\ UNCHANGED <<reach, pos, seenTier, needs, linkChanges>>

\* The firewall's ruleset is applied after the uplinks were set up, and its
\* script flushes mark_prerouting; it may also fail and change nothing.
FirewallReload(ok) ==
    /\ firewall /\ ~crashed
    /\ firewall' = FALSE
    /\ marks' = IF ok THEN [n \in Nets |-> NoMark] ELSE marks
    /\ intact' = (intact /\ ~ok)
    /\ UNCHANGED <<groupState, reach, active, activeTier, checker, pos, seenTier, needs, crashed,
                   budgets>>

LinkChange(u) ==
    /\ linkChanges < MaxLinkChanges
    /\ linkChanges' = linkChanges + 1
    /\ reach' = [reach EXCEPT ![u] = ~@]
    /\ UNCHANGED <<groupState, active, activeTier, marks, checker, pos, seenTier, needs, firewall,
                   crashed, intact, faults, uplinkCalls>>

CheckStep == CheckStart \/ (\E u \in Uplinks : CheckUplink(u)) \/ CheckDecide \/ CheckSwitch

UplinkNext ==
    \/ CheckStep
    \/ \E u \in Uplinks : SwitchUplink(u) \/ ToggleUplink(u) \/ LinkChange(u)
    \/ SwitchToBest
    \/ \E t \in TierChoices, m \in Modes : Reload(t, m)
    \/ \E ok \in BOOLEAN : FirewallReload(ok)

\* The checker's ticker ticks and its probes time out.
UplinkFairness == WF_uplinkVars(CheckStep)

UplinkSpec == UplinkInit /\ [][UplinkNext]_uplinkVars /\ UplinkFairness

-----------------------------------------------------------------------------
(* Properties                                                              *)

UplinkTypeOK ==
    /\ tier \in TierChoices /\ mode \in Modes
    /\ enabled \in [Uplinks -> BOOLEAN] /\ healthy \in [Uplinks -> BOOLEAN]
    /\ fails \in [Uplinks -> 0..Threshold] /\ succs \in [Uplinks -> 0..Threshold]
    /\ \A u \in Uplinks : fails[u] = 0 \/ succs[u] = 0
    /\ active \in Uplinks /\ activeTier \in {tier[u] : u \in Uplinks}
    /\ marks \in [Nets -> Uplinks \cup {NoMark}]
    /\ checker \in {"running", "closed"} /\ pos \in 0..(NumUplinks + 2)

\* While nft did what it was told and nobody else rewrote its chain, new
\* connections of every source network are marked for the active uplink, and
\* the tier the checker compares with is that uplink's.
MarksFollowActive ==
    /\ activeTier = tier[active]
    /\ intact => \A n \in Nets : marks[n] = active

\* An uplink that is still reachable is not given up for one lost probe: it
\* becomes unhealthy only with Threshold probes lost in a row.
NoFlapping ==
    [][\A u \in Uplinks :
          healthy[u] /\ ~healthy'[u] => fails[u] = Threshold - 1 /\ ~(reach[u] /\ enabled[u])]_uplinkVars

\* With failover mode "manual" ("Only switch manually", uplink.go:117) and
\* failback "never" only RPCs and reloads move the traffic, whatever the
\* checker has seen before them.
ManualStays ==
    [][active' # active /\ CheckStep => mode # [failover |-> "manual", failback |-> "never"]]_uplinkVars

Working(u) == reach[u] /\ enabled[u]

\* The group fails over by itself and its checker lives.
Automatic == checker = "running" /\ ~crashed /\ mode.failover # "manual"

\* Links stop changing: then traffic ends up on an uplink that works, if an
\* enabled one does, also after total blackouts, failed switches and reloads;
\* for groups that may fail back.
EventuallyOnWorkingUplink ==
    <>[](Automatic /\ mode.failback # "never" =>
            ((\E u \in Uplinks : Working(u)) => reach[active]))

\* The kernel's marks are those of the active uplink; and the checker leaves
\* it only for a reason, never against the operator's choice.
UplinkSound == [](UplinkTypeOK /\ MarksFollowActive) /\ NoFlapping /\ ManualStays
=============================================================================
