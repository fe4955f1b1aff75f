------------------------------ MODULE StoreOps ------------------------------
(***************************************************************************)
(* What the methods of state.SQLiteStore do to one store, as functions     *)
(* from store to store (internal/state/store.go).  StateStore runs them    *)
(* against one store, Replication against a primary and a replica.         *)
(*                                                                         *)
(* A store is its three tables and its version counter:                    *)
(*   buckets  the rows of table buckets                                    *)
(*   rows     table entries, keyed by a slot <<bucket, key>>; NoRow where  *)
(*            the table has none.  expires = 0 is SQL NULL (no expiry)     *)
(*   log      table changes                                                *)
(*   lastID   the AUTOINCREMENT sequence of table changes                  *)
(*   version  SQLiteStore.version                                          *)
(* Times are natural numbers and start at 1, so 0 is free for "no expiry". *)
(* SQLite leaves FOREIGN KEY clauses unenforced unless a connection says   *)
(* PRAGMA foreign_keys = ON; NewSQLiteStore never does.  Hence a row may   *)
(* exist in a bucket that does not, and deleting a bucket keeps its rows.  *)
(***************************************************************************)
EXTENDS Naturals

CONSTANTS
    Buckets,    \* bucket names
    Keys,       \* keys
    Values,     \* payloads
    NoRow,      \* no such row in table entries
    NoValue     \* the nil payload of a delete

Slots == Buckets \X Keys

Row == [value : Values, version : Nat, expires : Nat]

ASSUME NoRowAssumption == NoRow \notin Row

Change == [id      : Nat,
           slot    : Slots,
           value   : Values \cup {NoValue},
           kind    : {"insert", "update", "delete"},
           version : Nat,
           time    : Nat]

Store == [buckets : SUBSET Buckets,
          rows    : [Slots -> Row \cup {NoRow}],
          log     : SUBSET Change,
          lastID  : Nat,
          version : Nat]

Snapshot == [version : Nat,
             buckets : SUBSET Buckets,
             rows    : [Slots -> Row \cup {NoRow}]]

EmptyStore == [buckets |-> {}, rows |-> [s \in Slots |-> NoRow],
               log |-> {}, lastID |-> 0, version |-> 0]

-----------------------------------------------------------------------------
(* Reads *)

Live(row, now) == row # NoRow /\ (row.expires = 0 \/ row.expires > now)

\* Get, GetWithMeta, List, ListKeys: what a reader finds in a slot.
Get(st, slot, now) ==
    IF Live(st.rows[slot], now) THEN st.rows[slot].value ELSE NoValue

\* Mutant: the first new change is skipped.
GetChangesSince_OffByOne(st, v) == {c \in st.log : c.version > v + 1}

\* The result is ordered by version; see Replication for the order.
GetChangesSince(st, v) == {c \in st.log : c.version > v}

\* loadVersion: SELECT MAX(version) FROM changes, 0 when the table is empty.
IsLoadedVersion(st, v) ==
    /\ \A c \in st.log : c.version <= v
    /\ IF st.log = {} THEN v = 0 ELSE \E c \in st.log : c.version = v

-----------------------------------------------------------------------------
(* Writes.  A transaction that fails is rolled back and s.version++ undone,*)
(* so it leaves the store as it was.                                       *)

NextChange(st, slot, value, kind, now) ==
    [id |-> st.lastID + 1, slot |-> slot, value |-> value, kind |-> kind,
     version |-> st.version + 1, time |-> now]

\* The change a Set commits.  Presence is tested without looking at expiry.
SetChange(st, slot, value, now) ==
    NextChange(st, slot, value,
               IF st.rows[slot] = NoRow THEN "insert" ELSE "update", now)

\* Mutant: a change type the replicas do not know.
DeleteChange_WrongKind(st, slot, now) == NextChange(st, slot, NoValue, "remove", now)

DeleteChange(st, slot, now) == NextChange(st, slot, NoValue, "delete", now)

\* One transaction: the new row (or none) and the change that records it.
Commit(st, change, row) ==
    [st EXCEPT !.rows[change.slot] = row,
               !.log = @ \cup {change},
               !.lastID = change.id,
               !.version = change.version]

SetInternal(st, change, expires) ==
    Commit(st, change, [value |-> change.value, version |-> change.version,
                        expires |-> expires])

\* Mutants: the version counter is not advanced; the row survives.
DeleteRow_NoBump(st, change) ==
    [Commit(st, change, NoRow) EXCEPT !.version = st.version]
DeleteRow_KeepsRow(st, change) == Commit(st, change, st.rows[change.slot])

DeleteRow(st, change) == Commit(st, change, NoRow)

\* Mutant: "expires_at IS NOT NULL" is forgotten.
CleanupWith_NullExpires(st, now, retention, rowsGo, logGo) ==
    [st EXCEPT
        !.rows = [s \in Slots |->
                    IF rowsGo /\ @[s] # NoRow /\ @[s].expires < now
                    THEN NoRow ELSE @[s]],
        !.log = IF logGo THEN {c \in @ : c.time + retention >= now} ELSE @]

\* cleanup: expired rows go (rowsGo), changes older than cutoff go (logGo);
\* the error of each statement is dropped, so either may not have happened.
CleanupWith(st, now, retention, rowsGo, logGo) ==
    [st EXCEPT
        !.rows = [s \in Slots |->
                    IF /\ rowsGo
                       /\ @[s] # NoRow
                       /\ @[s].expires # 0
                       /\ @[s].expires < now
                    THEN NoRow ELSE @[s]],
        !.log = IF logGo THEN {c \in @ : c.time + retention >= now} ELSE @]

SnapshotOf(st) ==
    [version |-> st.version,
     buckets |-> st.buckets,
     rows    |-> [s \in Slots |->
                    IF s[1] \in st.buckets THEN st.rows[s] ELSE NoRow]]

\* RestoreSnapshot replaces rows and buckets and takes over the version; the
\* change log keeps what it has.
Restored(st, snap) ==
    [st EXCEPT !.buckets = snap.buckets, !.rows = snap.rows,
               !.version = snap.version]
=============================================================================
