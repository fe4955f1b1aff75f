------------------------------ MODULE SafeApply ------------------------------
(***************************************************************************)
(* Applying a firewall configuration with a safety net                     *)
(* (internal/firewall/safeapply.go and RollbackManager of atomic.go):      *)
(* the ruleset in force is checkpointed, the new one applied and probed,   *)
(* and unless the operator confirms in time a timer goes back.             *)
(*                                                                         *)
(* SafeApply, ConfirmApply, CancelApply and ForceApply each hold s.mu from *)
(* start to end, so each is one action; the rollback timer is a goroutine  *)
(* per apply that takes s.mu only after its time-out has fired.            *)
(***************************************************************************)
EXTENDS Naturals

CONSTANTS
    Rulesets,          \* rulesets the kernel can be given
    InitialRuleset,    \* the one in force at the start
    Flushed,           \* the empty ruleset RestoreRuleset leaves when it
                       \* fails between "nft flush ruleset" and "nft -f -"
    NoRuleset,         \* no checkpoint
    RollbackOutcomes,  \* what RestoreRuleset may do: "ok", "unread" (nothing
                       \* done), "flushed" (flushed and not restored)
    MaxApplies         \* bound: calls of SafeApply

ASSUME SafeApplyAssumption ==
    /\ MaxApplies \in Nat
    /\ InitialRuleset \in Rulesets
    /\ Flushed \notin Rulesets
    /\ NoRuleset \notin Rulesets \cup {Flushed}
    /\ RollbackOutcomes \subseteq {"ok", "unread", "flushed"}

Applies == 1..MaxApplies
NoApply == 0

Kernel == Rulesets \cup {Flushed}

VARIABLES
    kernel,      \* the ruleset in force
    pending,     \* s.pendingApply: the apply awaiting confirmation, or NoApply
    checkpoint,  \* the file and flag of RollbackManager: its contents
    confirmed,   \* applies with PendingApply.Confirmed
    rolledBack,  \* applies with PendingApply.RolledBack
    cancelled,   \* applies whose context was cancelled (cancelRollback)
    timer,       \* rollbackTimer goroutine of each apply: "none", "armed"
                 \* (in its select) or "fired" (timed out, waiting for s.mu)
    used,        \* ids given out
    said,        \* the last result returned or timer decision
    before       \* history: the ruleset in force when each apply began

vars == <<kernel, pending, checkpoint, confirmed, rolledBack, cancelled, timer,
          used, said, before>>

TypeOK ==
    /\ kernel \in Kernel
    /\ pending \in Applies \cup {NoApply}
    /\ checkpoint \in Kernel \cup {NoRuleset}
    /\ confirmed \subseteq Applies
    /\ rolledBack \subseteq Applies
    /\ cancelled \subseteq Applies
    /\ timer \in [Applies -> {"none", "armed", "fired"}]
    /\ used \in 0..MaxApplies
    /\ said \in {"nothing", "trial", "kept", "reverted", "replaced"}
    /\ before \in [Applies -> Kernel \cup {NoRuleset}]

Init ==
    /\ kernel = InitialRuleset
    /\ pending = NoApply
    /\ checkpoint = NoRuleset
    /\ confirmed = {} /\ rolledBack = {} /\ cancelled = {}
    /\ timer = [a \in Applies |-> "none"]
    /\ used = 0
    /\ said = "nothing"
    /\ before = [a \in Applies |-> NoRuleset]

-----------------------------------------------------------------------------
(* RollbackManager                                                         *)

\* RestoreRuleset: what is in force afterwards, when cp is the checkpoint and
\* k was in force.
AfterRollback(outcome, cp, k) ==
    CASE outcome = "ok"      -> cp
      [] outcome = "unread"  -> k
      [] outcome = "flushed" -> Flushed

-----------------------------------------------------------------------------
(* SafeApply.  A failing backup or checkpoint returns before anything      *)
(* changed.                                                                *)

Begin(a) ==
    /\ pending = NoApply \/ pending \in confirmed \cup rolledBack
    /\ used < MaxApplies
    /\ a = used + 1
    /\ used' = a
    /\ before' = [before EXCEPT ![a] = kernel]

\* ApplyConfig fails, or the probe finds the client cut off: go back at once.
\* An error of the rollback is dropped.
SafeApplyFails(a, c) ==
    /\ Begin(a)
    /\ checkpoint' = kernel
    /\ \E applied \in {kernel, c}, outcome \in RollbackOutcomes :
           kernel' = AfterRollback(outcome, checkpoint', applied)
    /\ pending' = NoApply
    /\ said' = "reverted"
    /\ UNCHANGED <<confirmed, rolledBack, cancelled, timer>>

\* Mutant: the checkpoint is taken after the new ruleset went in.
SafeApplyPending_LateCheckpoint(a, c) ==
    /\ Begin(a)
    /\ checkpoint' = c
    /\ kernel' = c
    /\ pending' = a
    /\ said' = "trial"
    /\ timer' = [timer EXCEPT ![a] = "armed"]
    /\ UNCHANGED <<confirmed, rolledBack, cancelled>>

SafeApplyPending(a, c) ==
    /\ Begin(a)
    /\ checkpoint' = kernel
    /\ kernel' = c
    /\ pending' = a
    /\ said' = "trial"
    /\ timer' = [timer EXCEPT ![a] = "armed"]
    /\ UNCHANGED <<confirmed, rolledBack, cancelled>>

\* RequireConfirmation is off (QuickApply): checkpoint removed at once.
SafeApplyUnconfirmed(a, c) ==
    /\ Begin(a)
    /\ kernel' = c
    /\ checkpoint' = NoRuleset
    /\ pending' = NoApply
    /\ said' = "replaced"
    /\ UNCHANGED <<confirmed, rolledBack, cancelled, timer>>

\* Mutant: s.pendingApply is not reset.
ConfirmApply_StaysPending(a) ==
    /\ pending = a
    /\ a \notin rolledBack
    /\ a \notin confirmed
    /\ cancelled' = cancelled \cup {a}
    /\ confirmed' = confirmed \cup {a}
    /\ checkpoint' = NoRuleset
    /\ said' = "kept"
    /\ UNCHANGED <<kernel, pending, rolledBack, timer, used, before>>

ConfirmApply(a) ==
    /\ pending = a
    /\ a \notin rolledBack
    /\ a \notin confirmed
    /\ cancelled' = cancelled \cup {a}
    /\ confirmed' = confirmed \cup {a}
    /\ checkpoint' = NoRuleset
    /\ pending' = NoApply
    /\ said' = "kept"
    /\ UNCHANGED <<kernel, rolledBack, timer, used, before>>

\* Mutant: the apply is dropped and nothing restored.
CancelApply_NoRollback(a) ==
    /\ pending = a
    /\ a \notin rolledBack
    /\ cancelled' = cancelled \cup {a}
    /\ rolledBack' = rolledBack \cup {a}
    /\ pending' = NoApply
    /\ said' = "reverted"
    /\ UNCHANGED <<kernel, checkpoint, confirmed, timer, used, before>>

\* The timer is cancelled first; when the rollback then fails the apply stays
\* pending, without a timer.
CancelApply(a) ==
    /\ pending = a
    /\ a \notin rolledBack
    /\ cancelled' = cancelled \cup {a}
    /\ \E outcome \in RollbackOutcomes :
           /\ kernel' = AfterRollback(outcome, checkpoint, kernel)
           /\ IF outcome = "ok"
              THEN /\ rolledBack' = rolledBack \cup {a}
                   /\ pending' = NoApply
                   /\ said' = "reverted"
              ELSE UNCHANGED <<rolledBack, pending, said>>
    /\ UNCHANGED <<checkpoint, confirmed, timer, used, before>>

\* ForceApply: the pending apply is dropped; ApplyConfig may fail and then
\* leaves the ruleset as it is.
ForceApply(c) ==
    /\ cancelled' = IF pending = NoApply THEN cancelled ELSE cancelled \cup {pending}
    /\ pending' = NoApply
    /\ kernel' \in {kernel, c}
    /\ said' = "replaced"
    /\ UNCHANGED <<checkpoint, confirmed, rolledBack, timer, used, before>>

-----------------------------------------------------------------------------
(* rollbackTimer                                                           *)

\* The time-out branch of the select; with the context cancelled as well Go
\* chooses either branch.
TimerFires(a) ==
    /\ timer[a] = "armed"
    /\ timer' = [timer EXCEPT ![a] = "fired"]
    /\ UNCHANGED <<kernel, pending, checkpoint, confirmed, rolledBack, cancelled,
                   used, said, before>>

TimerCancelled(a) ==
    /\ timer[a] = "armed"
    /\ a \in cancelled
    /\ timer' = [timer EXCEPT ![a] = "none"]
    /\ UNCHANGED <<kernel, pending, checkpoint, confirmed, rolledBack, cancelled,
                   used, said, before>>

\* Mutant: the timer does not look again once it has the lock.
StillPending_Unchecked(a) == TRUE

\* Under s.mu: nothing to do if the apply was decided meanwhile.
StillPending(a) == pending = a /\ a \notin confirmed /\ a \notin rolledBack

\* Mutant: the timer restores the ruleset and forgets s.pendingApply.
TimerRollsBack_StaysPending(a) ==
    /\ timer[a] = "fired"
    /\ timer' = [timer EXCEPT ![a] = "none"]
    /\ kernel' = IF StillPending(a) THEN checkpoint ELSE kernel
    /\ UNCHANGED <<pending, checkpoint, confirmed, rolledBack, cancelled, used, said, before>>

TimerRollsBack(a) ==
    /\ timer[a] = "fired"
    /\ timer' = [timer EXCEPT ![a] = "none"]
    /\ IF StillPending(a)
       THEN /\ \E outcome \in RollbackOutcomes :
                   kernel' = AfterRollback(outcome, checkpoint, kernel)
            /\ rolledBack' = rolledBack \cup {a}
            /\ pending' = NoApply
            /\ said' = "reverted"
       ELSE UNCHANGED <<kernel, rolledBack, pending, said>>
    /\ UNCHANGED <<checkpoint, confirmed, cancelled, used, before>>

Next ==
    \/ \E a \in Applies, c \in Rulesets :
           SafeApplyFails(a, c) \/ SafeApplyPending(a, c) \/ SafeApplyUnconfirmed(a, c)
    \/ \E a \in Applies : ConfirmApply(a) \/ CancelApply(a)
    \/ \E c \in Rulesets : ForceApply(c)
    \/ \E a \in Applies : TimerFires(a) \/ TimerCancelled(a) \/ TimerRollsBack(a)

\* Timers run: time.After fires and the goroutine gets the lock.
Fairness ==
    \A a \in Applies : WF_vars(TimerFires(a)) /\ WF_vars(TimerRollsBack(a))

Spec == Init /\ [][Next]_vars

FairSpec == Spec /\ Fairness

-----------------------------------------------------------------------------
(* Safety                                                                  *)

\* While an apply is pending the checkpoint holds the ruleset that was in
\* force when it began: no other apply, confirmation or timer has replaced or
\* removed what a rollback needs.
CheckpointKept == pending # NoApply => checkpoint = before[pending]

\* An apply is decided once: no apply is both confirmed and rolled back, and
\* one that is pending is neither.
DecidedOnce ==
    /\ confirmed \cap rolledBack = {}
    /\ pending \notin confirmed \cup rolledBack

\* Strengthening: ids are given out in order, and a pending apply has a
\* checkpoint to go back to.
IdsUsed ==
    /\ pending # NoApply => checkpoint \in Kernel
    /\ pending <= used
    /\ \A a \in confirmed \cup rolledBack : a <= used

SafeApplyInv == CheckpointKept /\ DecidedOnce /\ IdsUsed

\* A timer that fires late, after its apply was confirmed, cancelled or
\* forced aside, leaves the ruleset alone.
NoLateRollback ==
    [][\A a \in Applies :
          timer[a] = "fired" /\ timer'[a] = "none" /\ pending # a => kernel' = kernel]_vars

\* With rollbacks that work, the manager keeps the promise of
\* ConfirmOrRevert: a trial ruleset is kept or the one before it comes back.
Abstract ==
    INSTANCE ConfirmOrRevert
        WITH Settings <- Kernel, None <- NoRuleset, live <- kernel,
             fallback <- IF pending = NoApply THEN NoRuleset ELSE before[pending]

Refinement == Abstract!Spec

\* "rollbackTimer waits for confirmation or rolls back after timeout"
\* (safeapply.go:267): an apply does not stay pending for ever.
EventuallyDecided == \A a \in Applies : pending = a ~> pending # a

\* Whatever happens to a pending apply, what it needs to be undone is there,
\* and it is decided once.
UndoReady == TypeOK /\ CheckpointKept /\ DecidedOnce
=============================================================================
