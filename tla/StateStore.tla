----------------------------- MODULE StateStore -----------------------------
(***************************************************************************)
(* The state store of the control plane (internal/state/store.go): one     *)
(* SQLite-backed key/value store with a change log, subscribers, snapshots,*)
(* expiry, background cleanup and restarts of the process that owns it.    *)
(*                                                                         *)
(* Every method holds s.mu for its whole body and notifies subscribers     *)
(* before it lets go, so a method is one action.                           *)
(***************************************************************************)
EXTENDS StoreOps, Sequences

CONSTANTS
    Subscribers,   \* callers of Subscribe
    SubCap,        \* capacity of a subscriber channel (100 in the code)
    TTLs,          \* time-to-live values passed to SetWithTTL
    Retention,     \* Options.ChangeRetention
    NoSnapshot,    \* nobody holds a snapshot
    MaxTime,       \* bound: last instant explored
    MaxChanges,    \* bound: changes committed
    MaxRestores    \* bound: snapshots restored

ASSUME StateStoreAssumption ==
    /\ SubCap \in Nat \ {0}
    /\ TTLs \subseteq Nat \ {0}
    /\ Retention \in Nat
    /\ MaxTime \in Nat /\ MaxChanges \in Nat /\ MaxRestores \in Nat

VARIABLES
    st,        \* the store: tables and version counter
    closed,    \* SQLiteStore.closed
    now,       \* clock.Now()
    subs,      \* subscribers whose channel is registered
    chan,      \* subscriber -> contents of its channel
    seen,      \* history: id of the last change each subscriber received,
               \* or of the last one committed before it subscribed
    lossy,     \* history: subscribers a change was withheld from
    held,      \* a snapshot some caller has taken and may restore or sync from
    restores,  \* snapshots restored so far
    mark       \* history: lastID when the version counter last moved by
               \* something other than a commit

subVars == <<subs, chan, seen, lossy>>
vars == <<st, closed, now, subVars, held, restores, mark>>

\* A snapshot with its history: the id of the last change it contains, and
\* whether the counter has moved only by commits since it was taken.
HeldSnapshot == [snap : Snapshot, at : Nat, fresh : BOOLEAN]

Outdated(h) == IF h = NoSnapshot THEN h ELSE [h EXCEPT !.fresh = FALSE]

TypeOK ==
    /\ st \in Store
    /\ closed \in BOOLEAN
    /\ now \in Nat
    /\ subs \subseteq Subscribers
    /\ chan \in [Subscribers -> Seq(Change)]
    /\ seen \in [Subscribers -> Nat]
    /\ lossy \subseteq Subscribers
    /\ held \in HeldSnapshot \cup {NoSnapshot}
    /\ restores \in Nat
    /\ mark \in Nat

Init ==
    /\ st = EmptyStore
    /\ closed = FALSE
    /\ now = 1
    /\ subs = {}
    /\ chan = [s \in Subscribers |-> <<>>]
    /\ seen = [s \in Subscribers |-> 0]
    /\ lossy = {}
    /\ held = NoSnapshot
    /\ restores = 0
    /\ mark = 0

-----------------------------------------------------------------------------
(* Change notification: a full channel is skipped, never waited for.       *)

\* Mutant: a change is sent twice.
NotifySubscribers_Twice(change) ==
    /\ chan' = [s \in Subscribers |-> IF s \in subs
                                     THEN chan[s] \o <<change, change>> ELSE chan[s]]
    /\ UNCHANGED <<subs, seen, lossy>>

NotifySubscribers(change) ==
    LET full == {s \in subs : Len(chan[s]) >= SubCap} IN
    /\ chan' = [s \in Subscribers |-> IF s \in subs \ full
                                     THEN Append(chan[s], change) ELSE chan[s]]
    /\ lossy' = lossy \cup full
    /\ UNCHANGED <<subs, seen>>

Subscribe(s) ==
    /\ s \notin subs
    /\ ~closed
    /\ subs' = subs \cup {s}
    /\ chan' = [chan EXCEPT ![s] = <<>>]
    /\ seen' = [seen EXCEPT ![s] = st.lastID]
    /\ lossy' = lossy \ {s}
    /\ UNCHANGED <<st, closed, now, held, restores, mark>>

\* The subscriber's context is cancelled: channel removed and closed.  What
\* is buffered in a closed channel can still be received.
Unsubscribe(s) ==
    /\ s \in subs
    /\ subs' = subs \ {s}
    /\ UNCHANGED <<st, closed, now, chan, seen, lossy, held, restores, mark>>

\* The subscriber receives the oldest change in its channel.
Receive(s) ==
    /\ chan[s] # <<>>
    /\ chan' = [chan EXCEPT ![s] = Tail(@)]
    /\ seen' = [seen EXCEPT ![s] = Head(chan[s]).id]
    /\ UNCHANGED <<st, closed, now, subs, lossy, held, restores, mark>>

-----------------------------------------------------------------------------
(* Operations of the store                                                 *)

CreateBucket(b) ==
    /\ ~closed
    /\ b \notin st.buckets
    /\ st' = [st EXCEPT !.buckets = @ \cup {b}]
    /\ UNCHANGED <<closed, now, subVars, held, restores, mark>>

DeleteBucket(b) ==
    /\ ~closed
    /\ b \in st.buckets
    /\ st' = [st EXCEPT !.buckets = @ \ {b}]
    /\ UNCHANGED <<closed, now, subVars, held, restores, mark>>

\* Mutant: subscribers are told of expiring entries only.
SetInternalAt_SilentSet(slot, value, expires) ==
    LET change == SetChange(st, slot, value, now) IN
    /\ ~closed
    /\ st.lastID < MaxChanges
    /\ st' = SetInternal(st, change, expires)
    /\ IF expires = 0 THEN UNCHANGED subVars ELSE NotifySubscribers(change)
    /\ UNCHANGED <<closed, now, held, restores, mark>>

SetInternalAt(slot, value, expires) ==
    LET change == SetChange(st, slot, value, now) IN
    /\ ~closed
    /\ st.lastID < MaxChanges
    /\ st' = SetInternal(st, change, expires)
    /\ NotifySubscribers(change)
    /\ UNCHANGED <<closed, now, held, restores, mark>>

Set(slot, value) == SetInternalAt(slot, value, 0)

SetWithTTL(slot, value, ttl) == SetInternalAt(slot, value, now + ttl)

Delete(slot) ==
    LET change == DeleteChange(st, slot, now) IN
    /\ ~closed
    /\ st.lastID < MaxChanges
    /\ st.rows[slot] # NoRow
    /\ st' = DeleteRow(st, change)
    /\ NotifySubscribers(change)
    /\ UNCHANGED <<closed, now, held, restores, mark>>

Cleanup ==
    /\ ~closed
    /\ \E rowsGo, logGo \in BOOLEAN :
           st' = CleanupWith(st, now, Retention, rowsGo, logGo)
    /\ UNCHANGED <<closed, now, subVars, held, restores, mark>>

CreateSnapshot ==
    /\ ~closed
    /\ held' = [snap |-> SnapshotOf(st), at |-> st.lastID, fresh |-> TRUE]
    /\ UNCHANGED <<st, closed, now, subVars, restores, mark>>

RestoreSnapshot ==
    /\ ~closed
    /\ held # NoSnapshot
    /\ restores < MaxRestores
    /\ st' = Restored(st, held.snap)
    /\ restores' = restores + 1
    /\ mark' = st.lastID
    /\ held' = Outdated(held)
    /\ UNCHANGED <<closed, now, subVars>>

\* Close: subscribers' channels are closed and forgotten.
Close ==
    /\ ~closed
    /\ closed' = TRUE
    /\ subs' = {}
    /\ UNCHANGED <<st, now, chan, seen, lossy, held, restores, mark>>

\* The process ends, with or without Close, and NewSQLiteStore opens the file
\* again: the tables survive, the version is loaded from the change log.
Reopen ==
    /\ closed' = FALSE
    /\ subs' = {}
    /\ chan' = [s \in Subscribers |-> <<>>]
    /\ \E v \in {0} \cup {c.version : c \in st.log} :
           /\ IsLoadedVersion(st, v)
           /\ st' = [st EXCEPT !.version = v]
           /\ mark' = IF v = st.version THEN mark ELSE st.lastID
           /\ held' = IF v = st.version THEN held ELSE Outdated(held)
    /\ UNCHANGED <<now, seen, lossy, restores>>

Tick ==
    /\ now < MaxTime
    /\ now' = now + 1
    /\ UNCHANGED <<st, closed, subVars, held, restores, mark>>

Next ==
    \/ \E s \in Subscribers : Subscribe(s) \/ Unsubscribe(s) \/ Receive(s)
    \/ \E b \in Buckets : CreateBucket(b) \/ DeleteBucket(b)
    \/ \E slot \in Slots, v \in Values : Set(slot, v)
    \/ \E slot \in Slots, v \in Values, ttl \in TTLs : SetWithTTL(slot, v, ttl)
    \/ \E slot \in Slots : Delete(slot)
    \/ Cleanup
    \/ CreateSnapshot
    \/ RestoreSnapshot
    \/ Close
    \/ Reopen
    \/ Tick

Spec == Init /\ [][Next]_vars

-----------------------------------------------------------------------------
(* Safety                                                                  *)

\* The changes committed since the counter was last moved by a restore or a
\* restart.
Recent == {c \in st.log : c.id > mark}

\* GetChangesSince hands out changes ORDER BY version.  Since the last
\* RestoreSnapshot (or a restart that lost the counter) that order is the
\* commit order, no two changes share a version, and none is ahead of the
\* counter, so the next commit goes last.
VersionOrder ==
    /\ \A c, d \in Recent : c.id < d.id => c.version < d.version
    /\ \A c \in Recent : c.version <= st.version

\* The newest change of a slot, if the log has one from after the mark,
\* describes the row: a delete means no row, a set means the row with that
\* value and version, or no row once it has expired and been cleaned up.
\* This is what lets a peer rebuild the rows by applying the log.
LogTellsRows ==
    \A c \in Recent :
        (\A d \in st.log : d.slot = c.slot => d.id <= c.id) =>
            \/ st.rows[c.slot] = NoRow
            \/ /\ c.kind # "delete"
               /\ st.rows[c.slot].value = c.value
               /\ st.rows[c.slot].version = c.version

\* Strengthening for the two above: ids are given out in order and along
\* with the clock, so what cleanup drops from the log is always the older end.
LogAges ==
    /\ mark <= st.lastID
    /\ \A c \in st.log : c.id <= st.lastID /\ c.time <= now
    /\ \A c, d \in st.log : c.id < d.id => c.time <= d.time

LogInv == LogAges /\ VersionOrder /\ LogTellsRows

\* A subscriber receives changes in commit order and never one twice.
SubscriberOrder ==
    \A s \in Subscribers :
        /\ \A i \in 1..Len(chan[s]) : seen[s] < chan[s][i].id
        /\ \A i, j \in 1..Len(chan[s]) : i < j => chan[s][i].id < chan[s][j].id

\* The only way to miss a change is a full channel: a subscriber that never
\* had one has in its channel every change committed since the last it saw.
NoSilentLoss ==
    \A s \in subs \ lossy : Len(chan[s]) = st.lastID - seen[s]

\* A peer that took a snapshot and asks GetChangesSince(its version) can
\* rebuild every row of the snapshot's buckets, as long as the log still
\* holds everything committed since (whole), the counter was not moved
\* meanwhile, and no change that a restore undid is still ahead of it
\* (clean): the newest change wins, a slot without one is as in the snapshot,
\* or has expired.  handleReplica relies on it for incremental sync.
SnapshotPlusLog ==
    held # NoSnapshot =>
    LET snap == held.snap
        news == GetChangesSince(st, snap.version)
        whole == \A i \in (held.at + 1)..st.lastID : \E c \in st.log : c.id = i
        clean == \A c \in st.log \ Recent : c.version <= snap.version
    IN  (held.fresh /\ whole /\ clean) =>
        \A slot \in Slots :
          slot[1] \in snap.buckets =>
            LET mine == {c \in news : c.slot = slot}
                row  == st.rows[slot]
            IN  IF mine = {}
                THEN \/ row = snap.rows[slot]
                     \/ row = NoRow /\ ~Live(snap.rows[slot], now)
                ELSE \E c \in mine :
                        /\ \A d \in mine : d.version <= c.version
                        /\ IF c.kind = "delete"
                           THEN row = NoRow
                           ELSE row = NoRow \/ row.value = c.value

\* Readers see a slot change only by a commit that is in the log, by the
\* clock passing its expiry, or by RestoreSnapshot: neither cleanup, nor
\* bucket operations, nor a restart shows or hides a value.
VisibleChangesAreLogged ==
    [][now' = now /\ restores' = restores =>
          \A slot \in Slots :
             Get(st', slot, now) # Get(st, slot, now) =>
                \E c \in st'.log \ st.log : c.slot = slot]_vars

\* What the store keeps is well typed, and its change log is in commit order
\* and tells the rows: a peer that reads the log learns of every row.
LogDescribesStore == TypeOK /\ VersionOrder /\ LogTellsRows

\* Subscribers get the changes in order, each once, and all of them unless
\* their channel was full.
SubscribersServed == SubscriberOrder /\ NoSilentLoss
=============================================================================
