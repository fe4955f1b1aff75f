--------------------------- MODULE FirewallManager ---------------------------
(***************************************************************************)
(* The firewall manager (internal/firewall/manager_linux.go) and its       *)
(* integrity monitor (monitor.go).                                         *)
(*                                                                         *)
(* ApplyConfig holds m.mu throughout and is one step.  Callers that change *)
(* dynamic or scheduled rules do so under m.mu, remember the base          *)
(* configuration, let go of m.mu and only then call ApplyConfig: two       *)
(* steps, with anything in between.  The monitor reads what it expects     *)
(* under m.mu, reads the kernel without it, and re-applies: three steps.   *)
(*                                                                         *)
(* A configuration is what the operator wrote (cfg) plus the dynamic NAT   *)
(* and scheduled policy rules merged into it, counted.                     *)
(***************************************************************************)
EXTENDS Naturals

CONSTANTS
    Configs,      \* configurations from file or API
    Monitored,    \* those with features.integrity_monitoring
    Rules,        \* dynamic NAT rules (UPnP)
    Scheds,       \* scheduled rules
    Callers,      \* goroutines that change dynamic/scheduled rules or safe mode
    NoConfig,     \* nil
    SafeRules,    \* the pre-rendered safe mode ruleset
    Tampered,     \* a ruleset someone else put in
    Gens,         \* what getRulesetGenID may return for a ruleset in force
    MaxOps,       \* bound: calls and tamperings
    MaxFails      \* bound: failing nft calls

ASSUME FirewallAssumption ==
    /\ Monitored \subseteq Configs
    /\ Gens \subseteq Nat \ {0}
    /\ MaxOps \in Nat /\ MaxFails \in Nat

Config == [cfg : Configs, nat : [Rules -> Nat], sched : [Scheds -> Nat]]

ASSUME SentinelAssumption ==
    /\ NoConfig \notin Config /\ SafeRules \notin Config /\ Tampered \notin Config
    /\ SafeRules # Tampered

VARIABLES
    base,       \* m.baseConfig
    current,    \* m.currentConfig
    dynamic,    \* m.dynamicRules, as a count per rule
    scheduled,  \* names in m.scheduledRules
    expected,   \* m.expectedGenID
    enabled,    \* m.monitorEnabled
    rendered,   \* m.safeModeScript is set
    safeMode,   \* m.inSafeMode
    kernel,     \* the ruleset in force
    gen,        \* getRulesetGenID of the ruleset in force
    caller,     \* caller -> base configuration it is about to re-apply
    monitor,    \* the monitor goroutine: pc, what it read
    applied,    \* history: the last ApplyConfig succeeded
    restored,   \* history: the monitor has restored a configuration
    ops, fails  \* counted against the bounds

mgr  == <<base, current, dynamic, scheduled, expected, enabled, rendered, safeMode>>
vars == <<mgr, kernel, gen, caller, monitor, applied, restored, ops, fails>>

\* A configuration as written, with nothing merged.
Plain(c) == [cfg |-> c, nat |-> [r \in Rules |-> 0], sched |-> [s \in Scheds |-> 0]]

\* The effective configuration of ApplyConfig: NAT rules appended, scheduled
\* rules injected.
Merge(b, dyn, sch) ==
    [cfg |-> b.cfg,
     nat |-> [r \in Rules |-> b.nat[r] + dyn[r]],
     sched |-> [s \in Scheds |-> IF s \in sch THEN b.sched[s] + 1 ELSE b.sched[s]]]

TypeOK ==
    /\ base \in Config \cup {NoConfig} /\ current \in Config \cup {NoConfig}
    /\ dynamic \in [Rules -> Nat] /\ scheduled \subseteq Scheds
    /\ expected \in Gens \cup {0} /\ gen \in Gens \cup {0}
    /\ enabled \in BOOLEAN /\ rendered \in BOOLEAN /\ safeMode \in BOOLEAN
    /\ kernel \in Config \cup {NoConfig, SafeRules, Tampered}
    /\ caller \in [Callers -> Config \cup {NoConfig}]
    /\ monitor \in [pc : {"off", "idle", "compare", "cleanup", "restore"},
                    expected : Gens \cup {0}, target : Config \cup {NoConfig}]
    /\ applied \in BOOLEAN /\ restored \in BOOLEAN
    /\ ops \in Nat /\ fails \in Nat

Init ==
    /\ base = NoConfig /\ current = NoConfig
    /\ dynamic = [r \in Rules |-> 0] /\ scheduled = {}
    /\ expected = 0 /\ enabled = FALSE
    /\ rendered = FALSE /\ safeMode = FALSE
    /\ kernel = NoConfig /\ gen = 0
    /\ caller = [c \in Callers |-> NoConfig]
    /\ monitor = [pc |-> "off", expected |-> 0, target |-> NoConfig]
    /\ applied = FALSE /\ restored = FALSE
    /\ ops = 0 /\ fails = 0

Op == ops < MaxOps /\ ops' = ops + 1

-----------------------------------------------------------------------------
(* ApplyConfig: base, effective configuration and the monitoring flag are  *)
(* set first, whatever becomes of validation and nft.  It neither looks at *)
(* nor changes the safe mode flag.                                         *)

\* A write of the ruleset.  The generation is a sum of table and rule counts
\* and rule handles: a new ruleset may have the number of an old one.
Load(ruleset) == kernel' = ruleset /\ gen' \in Gens

\* One of the bounded number of nft or netlink calls that fail.
Fail == fails < MaxFails /\ fails' = fails + 1

\* The monitor expects from now on the generation just loaded, if it can be read.
NoteGeneration ==
    \/ expected' = gen' /\ UNCHANGED fails
    \/ Fail /\ UNCHANGED expected

\* Mutant of ApplyConfig: rules merged into the base configuration itself.
ApplyConfig_MergesInPlace(b) ==
    LET effective == Merge(b, dynamic, scheduled) IN
    /\ base' = effective
    /\ current' = effective
    /\ enabled' = (b.cfg \in Monitored)
    /\ Load(effective)
    /\ IF enabled' THEN NoteGeneration ELSE UNCHANGED <<expected, fails>>
    /\ applied' = TRUE
    /\ UNCHANGED <<dynamic, scheduled, rendered, safeMode>>

ApplyConfig(b) ==
    LET effective == Merge(b, dynamic, scheduled) IN
    /\ base' = b
    /\ current' = effective
    /\ enabled' = (b.cfg \in Monitored)
    /\ \/ /\ Load(effective)
          /\ IF enabled' THEN NoteGeneration ELSE UNCHANGED <<expected, fails>>
          /\ applied' = TRUE
       \/ /\ Fail
          /\ applied' = FALSE
          /\ UNCHANGED <<kernel, gen, expected>>
    /\ UNCHANGED <<dynamic, scheduled, rendered, safeMode>>

Apply(c) == Op /\ ApplyConfig(Plain(c)) /\ UNCHANGED <<caller, monitor, restored>>

-----------------------------------------------------------------------------
(* Changes of dynamic and scheduled rules, first half: under m.mu.  With   *)
(* no base configuration yet the rule is kept and an error returned.       *)

Remember(w) ==
    /\ Op
    /\ caller[w] = NoConfig
    /\ caller' = [caller EXCEPT ![w] = base]

\* Mutant of AddDynamicNATRule: the rule is recorded and not applied.
AddDynamicNATRule_NoReapply(w, r) ==
    /\ Op
    /\ dynamic' = [dynamic EXCEPT ![r] = @ + 1]
    /\ UNCHANGED <<base, current, scheduled, expected, enabled, rendered, safeMode,
                   kernel, gen, caller, monitor, applied, restored, fails>>

AddDynamicNATRule(w, r) ==
    /\ Remember(w)
    /\ dynamic' = [dynamic EXCEPT ![r] = @ + 1]
    /\ UNCHANGED <<base, current, scheduled, expected, enabled, rendered, safeMode,
                   kernel, gen, monitor, applied, restored, fails>>

\* Mutant of RemoveDynamicNATRule: one rule less, whether there is one or not.
RemoveDynamicNATRule_Unchecked(w, r) ==
    /\ Remember(w)
    /\ dynamic' = [dynamic EXCEPT ![r] = @ - 1]
    /\ UNCHANGED <<base, current, scheduled, expected, enabled, rendered, safeMode,
                   kernel, gen, monitor, applied, restored, fails>>

RemoveDynamicNATRule(w, r) ==
    /\ Remember(w)
    /\ dynamic[r] > 0
    /\ dynamic' = [dynamic EXCEPT ![r] = 0]
    /\ UNCHANGED <<base, current, scheduled, expected, enabled, rendered, safeMode,
                   kernel, gen, monitor, applied, restored, fails>>

ApplyScheduledRule(w, s, on) ==
    /\ Remember(w)
    /\ scheduled' = IF on THEN scheduled \cup {s} ELSE scheduled \ {s}
    /\ UNCHANGED <<base, current, dynamic, expected, enabled, rendered, safeMode,
                   kernel, gen, monitor, applied, restored, fails>>

\* Mutant of ExitSafeMode: the flag is cleared and nothing re-applied.
ExitSafeMode_NoReapply(w) ==
    /\ Op
    /\ base # NoConfig
    /\ safeMode' = FALSE
    /\ UNCHANGED <<base, current, dynamic, scheduled, expected, enabled, rendered,
                   kernel, gen, caller, monitor, applied, restored, fails>>

ExitSafeMode(w) ==
    /\ base # NoConfig
    /\ Remember(w)
    /\ safeMode' = FALSE
    /\ UNCHANGED <<base, current, dynamic, scheduled, expected, enabled, rendered,
                   kernel, gen, monitor, applied, restored, fails>>

\* Second half: re-apply the configuration remembered then.
Reapply(w) ==
    /\ caller[w] # NoConfig
    /\ ApplyConfig(caller[w])
    /\ caller' = [caller EXCEPT ![w] = NoConfig]
    /\ UNCHANGED <<monitor, restored, ops>>

-----------------------------------------------------------------------------
(* Safe mode                                                               *)

PreRenderSafeMode ==
    /\ ~rendered
    /\ rendered' = TRUE
    /\ UNCHANGED <<base, current, dynamic, scheduled, expected, enabled, safeMode,
                   kernel, gen, caller, monitor, applied, restored, ops, fails>>

ApplySafeMode ==
    /\ Op
    /\ rendered
    /\ Load(SafeRules)
    /\ safeMode' = TRUE
    /\ UNCHANGED <<base, current, dynamic, scheduled, expected, enabled, rendered,
                   caller, monitor, applied, restored, fails>>

-----------------------------------------------------------------------------
(* MonitorIntegrity                                                        *)

Tamper ==
    /\ Op
    /\ Load(Tampered)
    /\ UNCHANGED <<mgr, caller, monitor, applied, restored, fails>>

\* The goroutine goes on only if monitoring is enabled when it starts.
MonitorStarts ==
    /\ monitor.pc = "off"
    /\ enabled
    /\ monitor' = [monitor EXCEPT !.pc = "idle"]
    /\ expected' = IF expected = 0 THEN gen ELSE expected
    /\ UNCHANGED <<base, current, dynamic, scheduled, enabled, rendered, safeMode,
                   kernel, gen, caller, applied, restored, ops, fails>>

\* Ticker: read generation and effective configuration under m.mu.
MonitorReads ==
    /\ monitor.pc = "idle"
    /\ enabled
    /\ monitor' = [pc |-> "compare", expected |-> expected, target |-> current]
    /\ UNCHANGED <<mgr, kernel, gen, caller, applied, restored, ops, fails>>

\* Mutant of MonitorCompares: an error ends the goroutine.
MonitorCompares_GivesUp ==
    /\ monitor.pc = "compare"
    /\ \/ /\ monitor' = [monitor EXCEPT !.pc = IF gen = monitor.expected THEN "idle"
                                               ELSE "cleanup"]
          /\ UNCHANGED fails
       \/ /\ Fail
          /\ monitor' = [monitor EXCEPT !.pc = "gone"]
    /\ UNCHANGED <<mgr, kernel, gen, caller, applied, restored, ops>>

\* Without m.mu: read the generation of the kernel.  If that fails the
\* connection is opened anew and this tick is over.
MonitorCompares ==
    /\ monitor.pc = "compare"
    /\ \/ /\ monitor' = [monitor EXCEPT !.pc = IF gen = monitor.expected THEN "idle"
                                               ELSE "cleanup"]
          /\ UNCHANGED fails
       \/ /\ Fail
          /\ monitor' = [monitor EXCEPT !.pc = "idle"]
    /\ UNCHANGED <<mgr, kernel, gen, caller, applied, restored, ops>>

\* cleanupExternalTables: tables other than the manager's go, its own stays
\* as it is.
MonitorCleansUp ==
    /\ monitor.pc = "cleanup"
    /\ gen' \in Gens \cup {gen}
    /\ monitor' = [monitor EXCEPT !.pc = "restore"]
    /\ UNCHANGED <<mgr, kernel, caller, applied, restored, ops, fails>>

\* ApplyConfig of the effective configuration read before.  When it fails the
\* next tick tries again.
MonitorRestores ==
    /\ monitor.pc = "restore"
    /\ ApplyConfig(monitor.target)
    /\ monitor' = [monitor EXCEPT !.pc = "idle"]
    /\ restored' = TRUE
    /\ UNCHANGED <<caller, ops>>

MonitorNext ==
    \/ MonitorStarts \/ MonitorReads
    \/ MonitorCompares \/ MonitorCleansUp \/ MonitorRestores

Next ==
    \/ \E c \in Configs : Apply(c)
    \/ \E w \in Callers, r \in Rules : AddDynamicNATRule(w, r) \/ RemoveDynamicNATRule(w, r)
    \/ \E w \in Callers, s \in Scheds, on \in BOOLEAN : ApplyScheduledRule(w, s, on)
    \/ \E w \in Callers : ExitSafeMode(w) \/ Reapply(w)
    \/ PreRenderSafeMode \/ ApplySafeMode
    \/ Tamper
    \/ MonitorNext

Spec == Init /\ [][Next]_vars

\* The ticker goes on, and the goroutine's calls return.
FairSpec == Spec /\ WF_vars(MonitorNext)

-----------------------------------------------------------------------------
(* Safety                                                                  *)

Quiet == \A w \in Callers : caller[w] = NoConfig

Ours == kernel \notin {NoConfig, SafeRules, Tampered}

\* Whatever the interleaving of applies, rule changes and monitor: once every
\* caller has finished and the last ApplyConfig succeeded, the ruleset in
\* force is the base configuration merged with exactly the dynamic and
\* scheduled rules the manager holds.  No rule change is lost.
InSync == Quiet /\ applied /\ Ours => kernel = Merge(base, dynamic, scheduled)

\* A lockdown in force is reported: when all callers are done and the last
\* ApplyConfig succeeded, the safe mode ruleset is not in force with
\* IsInSafeMode false.  (The converse does not hold: ApplyConfig leaves the
\* flag set.)
LockdownReported == Quiet /\ applied /\ kernel = SafeRules => safeMode

\* The inductive invariant behind these two: a rule change before the first
\* ApplyConfig is not applied, so nothing counts as applied until then; and
\* the monitor never holds a nil configuration to restore.
FirewallInv ==
    /\ InSync
    /\ LockdownReported
    /\ base = NoConfig => ~applied
    /\ enabled => current # NoConfig
    /\ monitor.pc \in {"compare", "cleanup", "restore"} => monitor.target # NoConfig

\* Until the monitor restores a configuration, the ruleset in force carries
\* each dynamic and scheduled rule as often as it was added and not removed,
\* and no leftovers of rules that were removed.
ExactRules ==
    Quiet /\ applied /\ Ours /\ ~restored =>
        /\ kernel.nat = dynamic
        /\ \A s \in Scheds : kernel.sched[s] = IF s \in scheduled THEN 1 ELSE 0

\* A ruleset someone else put in, with a generation other than the expected
\* one, does not stay while monitoring is on: failures and races of the
\* monitor with ApplyConfig only delay the restore.
TamperReverted ==
    (kernel = Tampered /\ gen # expected /\ monitor.pc # "off") ~>
        (kernel # Tampered \/ gen = expected \/ ~enabled)

\* The field baseConfig of manager_linux.go holds the configuration without
\* dynamic rules; true as long as the monitor has restored nothing.
BaseIsStatic == base # NoConfig => base = Plain(base.cfg)

\* With all callers done, the kernel has the configuration and exactly the
\* rules that were added, and a lockdown in force is reported.
ChangesInForce == TypeOK /\ InSync /\ LockdownReported /\ ExactRules
=============================================================================
