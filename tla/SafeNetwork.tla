----------------------------- MODULE SafeNetwork -----------------------------
(***************************************************************************)
(* Changing an interface with a safety net                                 *)
(* (internal/ctlplane/safe_network.go): the interface list is snapshotted  *)
(* in memory and in a file, the change made and probed, and unless it is   *)
(* confirmed in time a timer goes back to the snapshot.                    *)
(*                                                                         *)
(* ApplyInterfaceConfig holds s.mu while it probes, which takes seconds;   *)
(* the handlers of InterfaceConfig do not take that lock, so they run      *)
(* during the probe and during the wait for the confirmation.              *)
(***************************************************************************)
EXTENDS InterfaceConfig

CONSTANTS
    NoSnapshot,   \* no snapshot, or its file cannot be read
    MaxApplies,   \* bound: calls of ApplyInterfaceConfig
    MaxOthers     \* bound: calls of the other handlers

ASSUME SafeNetworkAssumption ==
    /\ MaxApplies \in Nat
    /\ MaxOthers \in Nat

Applies == 1..MaxApplies
NoApply == 0

VARIABLES
    pending,    \* s.pendingApply, or NoApply
    probing,    \* the apply whose probe runs, s.mu held
    memory,     \* the snapshot the rollback timer was given
    file,       \* the snapshot file of the pending apply
    shared,     \* parents whose VLAN list is still the snapshot's array
    kept,       \* the last apply decided was made permanent
    cancelled,  \* applies whose context was cancelled
    timer,      \* rollbackTimer: "none", "armed", "fired" (waits for s.mu)
    used,       \* ids given out
    others,     \* calls of other handlers
    before,     \* history: the list when the pending apply began
    disturbed   \* history: other handlers ran since then

applyVars == <<pending, probing, memory, file, shared, kept, cancelled, timer, used,
               others, before, disturbed>>
vars == <<ifaceVars, applyVars>>

Init ==
    /\ IfaceInit
    /\ pending = NoApply /\ probing = NoApply
    /\ memory = NoSnapshot /\ file = NoSnapshot
    /\ shared = {} /\ cancelled = {} /\ kept = FALSE
    /\ timer = [a \in Applies |-> "none"]
    /\ used = 0 /\ others = 0
    /\ before = NoSnapshot
    /\ disturbed = FALSE

-----------------------------------------------------------------------------
(* Going back                                                              *)

\* RestoreInterfaces: the list is the snapshot, each entry of it is applied.
RestoreInterfaces(snapshot) ==
    /\ config' = snapshot
    /\ kernel' = ApplyAll(snapshot)
    /\ UNCHANGED <<vlanLinks, clients>>

Forget ==
    /\ pending' = NoApply
    /\ memory' = NoSnapshot /\ file' = NoSnapshot /\ shared' = {}
    /\ before' = NoSnapshot /\ disturbed' = FALSE

-----------------------------------------------------------------------------
(* ApplyInterfaceConfig                                                    *)

\* SnapshotInterfaces copies the entries; an entry's VLAN list is a slice,
\* so the copy and the configuration go on sharing its array.
Shared(cfg) == {cfg[i].name : i \in {j \in DOMAIN cfg : cfg[j].vlans # <<>>}}

\* Mutant: the snapshot is taken after the change was made.
ApplyInterfaceConfig_LateSnapshot(a, args) ==
    LET e == UpdateEffect(args)
    IN /\ pending = NoApply /\ probing = NoApply
       /\ used < MaxApplies /\ a = used + 1
       /\ used' = a
       /\ before' = config /\ disturbed' = FALSE
       /\ ~e.err
       /\ UpdateInterface(args)
       /\ pending' = a /\ probing' = a
       /\ memory' = e.cfg /\ file' = e.cfg /\ shared' = Shared(e.cfg)
       /\ kept' = FALSE
       /\ UNCHANGED <<cancelled, timer, others>>

\* Up to the probe.  When the change fails the rollback's own errors are
\* dropped and the snapshot file stays behind.
ApplyInterfaceConfig(a, args) ==
    LET e == UpdateEffect(args)
    IN /\ pending = NoApply /\ probing = NoApply
       /\ used < MaxApplies /\ a = used + 1
       /\ used' = a
       /\ disturbed' = FALSE
       /\ IF e.err
          THEN /\ config' = config
               /\ kernel' = ApplyAll(config)
               /\ UNCHANGED <<vlanLinks, clients, pending, probing, memory, file, shared, before>>
          ELSE /\ UpdateInterface(args)
               /\ before' = config
               /\ pending' = a /\ probing' = a
               /\ memory' = config /\ file' = config /\ shared' = Shared(config)
       /\ kept' = FALSE
       /\ UNCHANGED <<cancelled, timer, others>>

\* Mutant: a failed probe is reported and nothing undone.
ProbeFails_NoRollback(a) ==
    /\ probing = a
    /\ probing' = NoApply
    /\ Forget
    /\ UNCHANGED <<ifaceVars, kept, cancelled, timer, used, others>>

ProbeFails(a) ==
    /\ probing = a
    /\ probing' = NoApply
    /\ RestoreInterfaces(memory)
    /\ Forget
    /\ UNCHANGED <<kept, cancelled, timer, used, others>>

\* Mutant: the rollback timer is not started.
ProbeSucceeds_NoTimer(a, confirmation) ==
    /\ probing = a
    /\ probing' = NoApply
    /\ IF confirmation
       THEN UNCHANGED <<pending, memory, file, shared, before, disturbed, kept>>
       ELSE Forget /\ kept' = TRUE
    /\ UNCHANGED <<ifaceVars, cancelled, timer, used, others>>

\* Some target answered (or there was none to ask).
ProbeSucceeds(a, confirmation) ==
    /\ probing = a
    /\ probing' = NoApply
    /\ IF confirmation
       THEN /\ timer' = [timer EXCEPT ![a] = "armed"]
            /\ UNCHANGED <<pending, memory, file, shared, before, disturbed, kept>>
       ELSE Forget /\ kept' = TRUE /\ UNCHANGED timer
    /\ UNCHANGED <<ifaceVars, cancelled, used, others>>

-----------------------------------------------------------------------------
(* ConfirmApply, CancelApply and rollbackTimer                             *)

ConfirmApply(a) ==
    /\ probing = NoApply
    /\ pending = a
    /\ cancelled' = cancelled \cup {a}
    /\ kept' = TRUE
    /\ Forget
    /\ UNCHANGED <<ifaceVars, probing, timer, used, others>>

\* The timer is stopped whatever happens next.  A snapshot file that cannot
\* be read, or an interface of it without a link, leaves the apply pending.
CancelApply(a, readable) ==
    /\ probing = NoApply
    /\ pending = a
    /\ cancelled' = cancelled \cup {a}
    /\ IF ~readable
       THEN UNCHANGED <<ifaceVars, pending, memory, file, shared, before, disturbed>>
       ELSE /\ RestoreInterfaces(file)
            /\ IF MissingLink(file)
               THEN shared' = {} /\ UNCHANGED <<pending, memory, file, before, disturbed>>
               ELSE Forget
    /\ UNCHANGED <<probing, kept, timer, used, others>>

TimerFires(a) ==
    /\ timer[a] = "armed"
    /\ timer' = [timer EXCEPT ![a] = "fired"]
    /\ UNCHANGED <<ifaceVars, pending, probing, memory, file, shared, kept, cancelled,
                   used, others, before, disturbed>>

TimerCancelled(a) ==
    /\ timer[a] = "armed"
    /\ a \in cancelled
    /\ timer' = [timer EXCEPT ![a] = "none"]
    /\ UNCHANGED <<ifaceVars, pending, probing, memory, file, shared, kept, cancelled,
                   used, others, before, disturbed>>

\* Mutant: the timer does not look again once it has the lock.
StillPending_Unchecked(a) == pending # NoApply

\* Confirmed and RolledBack are set only together with pendingApply = nil.
StillPending(a) == pending = a

\* Errors of the rollback are logged only.
TimerRollsBack(a) ==
    /\ probing = NoApply
    /\ timer[a] = "fired"
    /\ timer' = [timer EXCEPT ![a] = "none"]
    /\ IF StillPending(a)
       THEN RestoreInterfaces(memory) /\ Forget
       ELSE UNCHANGED <<ifaceVars, pending, memory, file, shared, before, disturbed>>
    /\ UNCHANGED <<probing, kept, cancelled, used, others>>

-----------------------------------------------------------------------------
(* The other handlers, at any time                                         *)

Other ==
    /\ others < MaxOthers
    /\ others' = others + 1
    /\ disturbed' = (pending # NoApply)
    /\ UNCHANGED <<pending, probing, file, kept, cancelled, timer, used, before>>

\* Interfaces a changed configuration still shares VLAN arrays for.
Unshare(gone) == shared' = shared \ gone /\ UNCHANGED memory

\* Deleting element j of a shared array moves the later elements down in it,
\* under the snapshot's eyes too.
ShiftShared(p, v) ==
    LET j  == VlanIndex(p, v)
        cv == config[IndexOf(config, p)].vlans
        m  == IndexOf(memory, p)
    IN IF j = 0 \/ p \notin shared \/ memory = NoSnapshot THEN memory
       ELSE [memory EXCEPT ![m].vlans =
               [k \in DOMAIN @ |-> IF k >= j /\ k < Len(cv) THEN cv[k + 1] ELSE @[k]]]

OtherHandler ==
    /\ Other
    /\ \/ \E args \in UpdateArgs :
             /\ UpdateInterface(args)
             /\ Unshare(IF args.action = "delete" THEN {args.name} ELSE {})
       \/ \E p \in Ifaces, v \in Vids, up \in BOOLEAN, grow \in BOOLEAN :
             /\ CreateVLAN(p, v, up)
             /\ Unshare(IF grow THEN {p} ELSE {})
       \/ \E p \in Ifaces, v \in Vids :
             /\ DeleteVLAN(p, v)
             /\ memory' = ShiftShared(p, v)
             /\ UNCHANGED shared
       \/ \E m \in Ifaces, s \in Settings, outcome \in {"ok", "down", "nodhcp"} :
             CreateBond(m, s, outcome) /\ Unshare({})
       \/ DeleteBond /\ Unshare({Bond})
       \/ \E cfg \in Reloads : ReloadInterfaces(cfg) /\ Unshare(shared)

Lease == \E n \in Names : LeaseArrives(n) /\ UNCHANGED applyVars

Next ==
    \/ \E a \in Applies, args \in UpdateArgs : ApplyInterfaceConfig(a, args)
    \/ \E a \in Applies : ProbeFails(a) \/ (\E c \in BOOLEAN : ProbeSucceeds(a, c))
    \/ \E a \in Applies : ConfirmApply(a) \/ (\E r \in BOOLEAN : CancelApply(a, r))
    \/ \E a \in Applies : TimerFires(a) \/ TimerCancelled(a) \/ TimerRollsBack(a)
    \/ OtherHandler
    \/ Lease

\* Probes and timers have time-outs, and s.mu is free between calls.
Fairness ==
    \A a \in Applies :
        /\ WF_vars(ProbeFails(a))
        /\ WF_vars(TimerFires(a))
        /\ WF_vars(TimerRollsBack(a))

Spec == Init /\ [][Next]_vars

FairSpec == Spec /\ Fairness

-----------------------------------------------------------------------------
(* Properties                                                              *)

TypeOK ==
    /\ IfaceTypeOK
    /\ pending \in Applies \cup {NoApply} /\ probing \in {NoApply, pending}
    /\ shared \subseteq Names
    /\ kept \in BOOLEAN /\ cancelled \subseteq Applies
    /\ timer \in [Applies -> {"none", "armed", "fired"}]
    /\ used \in 0..MaxApplies /\ others \in 0..MaxOthers
    /\ disturbed \in BOOLEAN

\* What a rollback needs survives until the apply is decided: the file holds
\* the list as it was when the apply began, and so does the copy in memory
\* unless another handler got in between.
SnapshotKept ==
    pending # NoApply =>
        /\ file = before
        /\ disturbed \/ memory = before

\* An apply that is not made permanent, with nobody else at work meanwhile,
\* leaves the interface list as it was, and each static interface up with its
\* address ("If connectivity is lost, automatically rolls back",
\* safe_network.go:64).
RolledBackToBefore ==
    [][\A a \in Applies :
          pending = a /\ pending' = NoApply /\ ~kept' /\ ~disturbed =>
              /\ config' = before
              /\ \A n \in Names :
                    LET i == IndexOf(before, n)
                    IN i # 0 /\ kernel'[n].link /\ before[i].addr # "dhcp" =>
                          kernel'[n].up /\ kernel'[n].addr = before[i].addr]_vars

\* A timer that fires late, after its apply was decided, changes nothing, not
\* even when a later apply is pending.
NoLateRollback ==
    [][\A a \in Applies :
          timer[a] = "fired" /\ timer'[a] = "none" /\ pending # a =>
              UNCHANGED <<ifaceVars, pending>>]_vars

\* A physical interface has one entry at most, and the address its entry
\* gives it is the one the kernel has, whatever handlers, reloads and
\* rollbacks came before.  (Not so for a bond: see the README.)
AddressesAgree ==
    \A i, j \in DOMAIN config :
        LET e == config[i]
        IN e.name \in Ifaces =>
             /\ config[j].name = e.name => j = i
             /\ e.addr # "dhcp" => kernel[e.name].addr = e.addr

\* An apply that nobody cancelled is decided: the probe and the timer both
\* end.
EventuallyDecided ==
    \A a \in Applies :
        pending = a /\ a \notin cancelled ~> pending # a \/ a \in cancelled

\* The snapshot of a pending apply is there, and the kernel's addresses are
\* the configuration's.
InterfacesUndoable == TypeOK /\ SnapshotKept /\ AddressesAgree

\* A rollback leads to what was before the apply, and no late timer undoes
\* anything else.
RollbackExact == RolledBackToBefore /\ NoLateRollback
=============================================================================
