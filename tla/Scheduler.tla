----------------------------- MODULE Scheduler ------------------------------
(***************************************************************************)
(* Scheduled tasks: cron expressions, and the scheduler that runs by them. *)
(***************************************************************************)
EXTENDS Naturals, Sequences, SequencesExt, FiniteSets, TLC

-----------------------------------------------------------------------------
(***************************************************************************)
(* Cron expressions (internal/scheduler/schedule.go): the values of a      *)
(* field, the search for the next minute that matches, and what a run of   *)
(* the search after another visits.  Time is a number of minutes in a      *)
(* calendar given by the constants.                                        *)
(***************************************************************************)
CONSTANTS
    MinPerHour, HourPerDay, WeekLen, MonthLen,  \* the calendar
    CronYears,     \* how far Next searches
    MinFields, HourFields, DomFields, MonthFields, DowFields   \* the fields tried

\* parseCronField: a part is [from, to, step]; "*" stands for min to max and a
\* single value for a range of one.  Values keep their order and duplicates.
PartValues(p) ==
    LET n == (p.to - p.from) \div p.step
    IN [i \in 1..n + 1 |-> p.from + (i - 1) * p.step]
FieldValid(field, min, max) ==
    \A i \in DOMAIN field : /\ field[i].step > 0
                            /\ min <= field[i].from /\ field[i].from <= field[i].to
                            /\ field[i].to <= max
FieldValues(field) == FlattenSeq([i \in DOMAIN field |-> PartValues(field[i])])

DayLen == MinPerHour * HourPerDay
MonthStart == [m \in DOMAIN MonthLen |-> FoldLeft(+, 0, SubSeq(MonthLen, 1, m - 1))]
YearLen == FoldLeft(+, 0, MonthLen)
MinuteOf(t) == t % MinPerHour
HourOf(t) == (t \div MinPerHour) % HourPerDay
DayOfYear(t) == (t \div DayLen) % YearLen
MonthOf(t) == CHOOSE m \in DOMAIN MonthLen :
                  MonthStart[m] <= DayOfYear(t) /\ DayOfYear(t) < MonthStart[m] + MonthLen[m]
DayOf(t) == DayOfYear(t) - MonthStart[MonthOf(t)] + 1
WeekdayOf(t) == (t \div DayLen) % WeekLen
LongestMonth == CHOOSE n \in ToSet(MonthLen) : \A k \in ToSet(MonthLen) : k <= n

\* Both day fields given: either may match; one of them "*": the other must.
DayMatch(c, t) ==
    LET dom == Contains(c.dom, DayOf(t))
        dow == Contains(c.dow, WeekdayOf(t))
        anyDom == Len(c.dom) = LongestMonth
        anyDow == Len(c.dow) = WeekLen
    IN CASE anyDom /\ anyDow -> TRUE
         [] anyDom /\ ~anyDow -> dow
         [] ~anyDom /\ anyDow -> dom
         [] OTHER -> dom \/ dow

NextMonth(t) == ((t \div DayLen) + MonthLen[MonthOf(t)] - DayOf(t) + 1) * DayLen
NextDay(t) == ((t \div DayLen) + 1) * DayLen
NextHour(t) == ((t \div MinPerHour) + 1) * MinPerHour
Never == 1000000

\* Mutant: the next hour keeps the minute.
CronNext_KeepsMinute(c, after) ==
    LET limit == after + CronYears * YearLen * DayLen
        Search[t \in Nat] ==
            IF t >= limit THEN Never
            ELSE IF ~Contains(c.month, MonthOf(t)) THEN Search[NextMonth(t)]
            ELSE IF ~DayMatch(c, t) THEN Search[NextDay(t)]
            ELSE IF ~Contains(c.hour, HourOf(t)) THEN Search[t + MinPerHour]
            ELSE IF ~Contains(c.min, MinuteOf(t)) THEN Search[t + 1]
            ELSE t
    IN Search[after + 1]

\* CronSchedule.Next: the search skips months, days and hours.
CronNext(c, after) ==
    LET limit == after + CronYears * YearLen * DayLen
        Search[t \in Nat] ==
            IF t >= limit THEN Never
            ELSE IF ~Contains(c.month, MonthOf(t)) THEN Search[NextMonth(t)]
            ELSE IF ~DayMatch(c, t) THEN Search[NextDay(t)]
            ELSE IF ~Contains(c.hour, HourOf(t)) THEN Search[NextHour(t)]
            ELSE IF ~Contains(c.min, MinuteOf(t)) THEN Search[t + 1]
            ELSE t
    IN Search[after + 1]

\* What an expression means: the minutes that match it.
Fires(c, t) ==
    /\ MonthOf(t) \in ToSet(c.month) /\ HourOf(t) \in ToSet(c.hour)
    /\ MinuteOf(t) \in ToSet(c.min)
    /\ LET dom == DayOf(t) \in ToSet(c.dom)
           dow == WeekdayOf(t) \in ToSet(c.dow)
           anyDom == 1..LongestMonth \subseteq ToSet(c.dom)
           anyDow == 0..WeekLen - 1 \subseteq ToSet(c.dow)
       IN (dom /\ dow) \/ (~anyDom /\ ~anyDow /\ (dom \/ dow))

-----------------------------------------------------------------------------
(* A schedule that runs                                                    *)

VARIABLES cronExpr, cronAt   \* the expression and the minute of the last run
cronVars == <<cronExpr, cronAt>>

\* Cron: the expressions that parse.
Exprs ==
    {[min |-> FieldValues(f[1]), hour |-> FieldValues(f[2]), dom |-> FieldValues(f[3]),
      month |-> FieldValues(f[4]), dow |-> FieldValues(f[5])] :
        f \in {g \in MinFields \X HourFields \X DomFields \X MonthFields \X DowFields :
                 /\ FieldValid(g[1], 0, MinPerHour - 1) /\ FieldValid(g[2], 0, HourPerDay - 1)
                 /\ FieldValid(g[3], 1, LongestMonth) /\ FieldValid(g[4], 1, Len(MonthLen))
                 /\ FieldValid(g[5], 0, WeekLen - 1)}}

CronInit == cronExpr \in Exprs /\ cronAt = 0

\* The scheduler sleeps until the next run and asks again from there.
CronRun ==
    LET next == CronNext(cronExpr, cronAt)
    IN /\ cronAt < 2 * YearLen * DayLen /\ next # Never
       /\ cronAt' = next /\ UNCHANGED cronExpr

\* The runs of an expression are exactly the minutes it names: the search,
\* which jumps over months, days and hours and treats a full day field as "*",
\* neither misses a minute nor stops at another; "never" means that none is left.
RunsAreTheMinutesNamed ==
    LET next == CronNext(cronExpr, cronAt)
        limit == cronAt + CronYears * YearLen * DayLen
    IN /\ next # Never => Fires(cronExpr, next)
       /\ \A t \in cronAt + 1..(IF next = Never THEN limit ELSE next) - 1 : ~Fires(cronExpr, t)

-----------------------------------------------------------------------------
(***************************************************************************)
(* The task scheduler of the control plane (internal/scheduler) with the   *)
(* tasks the server registers (internal/ctlplane/server.go): the start and *)
(* end of scheduled firewall rules, the update of IP sets, one task for    *)
(* all sets and one per set, and the backup of the configuration.          *)
(*                                                                         *)
(* Time is counted in seconds, cron works on minutes of a small calendar.  *)
(* The loop looks at the tasks once a second and may be late; every        *)
(* execution is a goroutine of its own, and a task's next run is computed  *)
(* when an execution ends.                                                 *)
(***************************************************************************)
CONSTANTS
    Rules,         \* scheduled rules
    StartSpec, EndSpec,   \* the cron expressions of each rule
    SecPerMin,     \* seconds of a minute
    SetEvery,      \* the interval of the IP set tasks in seconds
    MaxLast,       \* assumption: no execution lasts longer
    MaxLate,       \* assumption: the loop looks at least that often
    SchedEnd,      \* bound: end of time
    MaxReloads, MaxRestarts, MaxRuns \* bounds: reloads, restarts, runs by hand

-----------------------------------------------------------------------------
(* The scheduler                                                           *)

VARIABLES
    now,        \* seconds
    late,       \* seconds since the loop looked at the tasks
    tasks,      \* Scheduler.tasks: per task id its next run and its generation
    execs,      \* executions: task id, generation, begin, run by hand
    inForce,    \* Manager.scheduledRules
    ruleConf,   \* the enabled scheduled rules of the running configuration
    attempt,    \* when the set tasks were last registered or an execution of them ended
    want,       \* history: per rule what its schedule says since it has tasks
    reloads, restarts, runs   \* counters for the bounds

schedVars == <<now, late, tasks, execs, inForce, ruleConf, attempt, want,
               reloads, restarts, runs>>

StartId(r) == <<"rule_start", r>>
EndId(r) == <<"rule_end", r>>
AllSets == <<"ipset-update">>
OneSet == <<"ipset_", "set">>
Backup == <<"config-backup">>
RuleIds(rs) == {StartId(r) : r \in rs} \cup {EndId(r) : r \in rs}
SetIds == {AllSets, OneSet}

CronOf(id) == IF id[1] = "rule_start" THEN StartSpec[id[2]] ELSE EndSpec[id[2]]

\* Task.Schedule.Next: an interval counts from now, the backup runs daily at
\* midnight, rules by their cron expression.
NextRun(id, at) ==
    IF id \in SetIds THEN at + SetEvery
    ELSE IF id = Backup THEN ((at \div (SecPerMin * DayLen)) + 1) * SecPerMin * DayLen
    ELSE CronNext(CronOf(id), at \div SecPerMin) * SecPerMin

\* AddTask for the tasks ids, after RemoveTask of those in gone.
Registered(gone, ids) ==
    [id \in (DOMAIN tasks \ gone) \cup ids |->
        IF id \in ids THEN [next |-> NextRun(id, now), gen |-> reloads + restarts + 1]
        ELSE tasks[id]]

\* NewServer starts the scheduler before any task is there, so RunOnStart of the
\* tasks that startScheduler adds has no effect; rules get no task at start.
BootTasks(at) == [id \in {AllSets, Backup} |-> [next |-> NextRun(id, at), gen |-> 0]]

SchedInit ==
    /\ now = 0 /\ late = 0 /\ execs = {} /\ inForce = {} /\ ruleConf = Rules
    /\ tasks = BootTasks(0) /\ attempt = [id \in {AllSets} |-> 0]
    /\ want = [r \in Rules |-> "any"]
    /\ reloads = 0 /\ restarts = 0 /\ runs = 0

\* A second passes.  history: what the schedules of the rules with tasks say.
Second ==
    /\ now < SchedEnd /\ late < MaxLate /\ \A e \in execs : now - e.begin < MaxLast
    /\ now' = now + 1 /\ late' = late + 1
    /\ want' = [r \in Rules |->
                  IF StartId(r) \notin DOMAIN tasks \/ now' % SecPerMin # 0 THEN want[r]
                  ELSE IF \E e \in execs : e.hand /\ e.id \in RuleIds({r}) THEN "any"
                  ELSE IF Fires(StartSpec[r], now' \div SecPerMin) THEN "on"
                  ELSE IF Fires(EndSpec[r], now' \div SecPerMin) THEN "off"
                  ELSE want[r]]
    /\ UNCHANGED <<tasks, execs, inForce, ruleConf, attempt, reloads, restarts, runs>>

Spawn(ids, hand) ==
    execs' = execs \cup {[id |-> id, gen |-> tasks[id].gen, begin |-> now, hand |-> hand] :
                            id \in ids}

\* Mutant: only a run of this very second is due.
Due_Exactly(id) == now = tasks[id].next
Due(id) == now >= tasks[id].next

\* checkAndRunTasks: every task that is due is started, also one that still runs.
Check ==
    /\ late > 0 /\ late' = 0
    /\ Spawn({id \in DOMAIN tasks : Due(id)}, FALSE)
    /\ UNCHANGED <<now, tasks, inForce, ruleConf, attempt, want, reloads, restarts, runs>>

\* RunTask, from the TriggerTask call.
RunTask(id) ==
    /\ runs < MaxRuns /\ runs' = runs + 1
    /\ Spawn({id}, TRUE)
    /\ want' = [r \in Rules |-> IF id \in RuleIds({r}) THEN "any" ELSE want[r]]
    /\ UNCHANGED <<now, late, tasks, inForce, ruleConf, attempt, reloads, restarts>>

\* The task functions: ApplyScheduledRule adds or removes the rule; the others
\* leave no state that is modelled.
Effect(id) ==
    IF id[1] = "rule_start" THEN inForce \cup {id[2]}
    ELSE IF id[1] = "rule_end" THEN inForce \ {id[2]} ELSE inForce

\* executeTask: the function runs and the next run is computed.  A task that was
\* removed meanwhile finishes as well (the functions do not look at the context)
\* and updates an entry nobody looks at any more.
Finish(e) ==
    /\ e \in execs /\ execs' = execs \ {e}
    /\ inForce' = Effect(e.id)
    /\ tasks' = IF e.id \in DOMAIN tasks /\ tasks[e.id].gen = e.gen
                THEN [tasks EXCEPT ![e.id].next = NextRun(e.id, now)] ELSE tasks
    /\ attempt' = IF e.id \in DOMAIN attempt THEN [attempt EXCEPT ![e.id] = now] ELSE attempt
    /\ UNCHANGED <<now, late, ruleConf, want, reloads, restarts, runs>>

\* Mutant: every task whose name begins with "ipset" is taken for a set's own.
SetTasks_All == SetIds
\* The tasks syncIPSetTasks removes: their id begins with "ipset_".
SetTasks == {OneSet}

\* reloadConfigInternal: the tasks of rules and of the sets are removed and
\* added anew; what the firewall manager holds is left alone.  An event of this
\* second that the loop has not seen yet is lost.
SchedReload(rs) ==
    /\ reloads < MaxReloads /\ reloads' = reloads + 1
    /\ ruleConf' = rs
    /\ tasks' = Registered(RuleIds(Rules) \cup SetTasks, RuleIds(rs) \cup {OneSet})
    /\ attempt' = [id \in DOMAIN attempt \cup {OneSet} |-> IF id = OneSet THEN now ELSE attempt[id]]
    /\ want' = [r \in Rules |-> IF r \notin rs \/ r \notin ruleConf \/ late > 0 THEN "any" ELSE want[r]]
    /\ UNCHANGED <<now, late, execs, inForce, restarts, runs>>

\* The control plane starts again with the configuration it had.
SchedRestart ==
    /\ restarts < MaxRestarts /\ restarts' = restarts + 1
    /\ execs' = {} /\ inForce' = {} /\ late' = 0
    /\ tasks' = BootTasks(now) /\ attempt' = [id \in {AllSets} |-> now]
    /\ want' = [r \in Rules |-> "any"]
    /\ UNCHANGED <<now, ruleConf, reloads, runs>>

SchedNext ==
    \/ Second \/ Check \/ SchedRestart
    \/ \E id \in DOMAIN tasks : RunTask(id)
    \/ \E e \in execs : Finish(e)
    \/ \E rs \in SUBSET Rules : SchedReload(rs)

SchedSpec == SchedInit /\ [][SchedNext]_schedVars

-----------------------------------------------------------------------------
(* Properties                                                              *)

Quiet == execs = {} /\ late = 0

\* Once the loop has looked and its executions have ended, a rule with tasks is
\* in force as its two schedules say, whatever was late, was run twice because
\* it took longer than a second, or was registered again meanwhile.
RuleFollowsSchedule ==
    Quiet => \A r \in ruleConf : /\ want[r] = "on" => r \in inForce
                                 /\ want[r] = "off" => r \notin inForce

\* The sets are updated once per interval: no reload of the configuration puts
\* off the task for all sets, and a set's own task only counts from the reload.
RefreshNotOverdue ==
    \A id \in DOMAIN attempt : now <= attempt[id] + SetEvery + MaxLate + MaxLast

\* Expressions run at the minutes they name, rules are in force as scheduled,
\* and no refresh is overdue.
SchedulesKept == RunsAreTheMinutesNamed /\ RuleFollowsSchedule /\ RefreshNotOverdue
=============================================================================
