-------------------------- MODULE StateStore_proofs --------------------------
(***************************************************************************)
(* Proofs about StateStore, for every set of buckets, keys, values and     *)
(* subscribers and every bound.                                            *)
(***************************************************************************)
EXTENDS StateStore, WellFoundedInduction, TLAPS

\* The change built by a write is a change, ahead of every id given so far.
LEMMA NextChangeType ==
    ASSUME NEW s \in Store, NEW slot \in Slots, NEW t \in Nat,
           NEW value \in Values \cup {NoValue},
           NEW kind \in {"insert", "update", "delete"}
    PROVE  NextChange(s, slot, value, kind, t) \in Change
BY DEF NextChange, Change, Store

\* A committed change is itself a change: Set.
LEMMA SetChangeType ==
    ASSUME NEW s \in Store, NEW slot \in Slots, NEW t \in Nat, NEW value \in Values
    PROVE  SetChange(s, slot, value, t) \in Change
BY NextChangeType DEF SetChange

\* A committed change is itself a change: Delete.
LEMMA DeleteChangeType ==
    ASSUME NEW s \in Store, NEW slot \in Slots, NEW t \in Nat
    PROVE  DeleteChange(s, slot, t) \in Change
BY NextChangeType DEF DeleteChange

\* A committed transaction leaves a store.
LEMMA CommitType ==
    ASSUME NEW s \in Store, NEW c \in Change, NEW row \in Row \cup {NoRow}
    PROVE  Commit(s, c, row) \in Store
BY DEF Commit, Store, Change

\* Cleanup leaves a store.
LEMMA CleanupType ==
    ASSUME NEW s \in Store, NEW t \in Nat, NEW r \in Nat,
           NEW rowsGo \in BOOLEAN, NEW logGo \in BOOLEAN
    PROVE  CleanupWith(s, t, r, rowsGo, logGo) \in Store
BY DEF CleanupWith, Store

\* Notification keeps the channels and the history of losses well typed.
LEMMA NotifyType ==
    ASSUME TypeOK, NEW c \in Change, NotifySubscribers(c)
    PROVE  /\ subs' \subseteq Subscribers
           /\ chan' \in [Subscribers -> Seq(Change)]
           /\ seen' \in [Subscribers -> Nat]
           /\ lossy' \subseteq Subscribers
BY DEF TypeOK, NotifySubscribers

\* A channel may be empty.
LEMMA EmptyChannel == [s \in Subscribers |-> <<>>] \in [Subscribers -> Seq(Change)]
<1>1. <<>> \in Seq(Change)
  OBVIOUS
<1> QED BY <1>1, Zenon

\* The store, its clock, its subscribers and the held snapshot keep their
\* types through every operation, cleanup and restart.
THEOREM Typing == Spec => []TypeOK
<1>1. Init => TypeOK
  <2>1. EmptyStore \in Store
    BY DEF EmptyStore, Store
  <2>2. ASSUME Init
        PROVE  /\ now \in Nat /\ restores \in Nat /\ mark \in Nat
               /\ seen \in [Subscribers -> Nat]
               /\ subs \subseteq Subscribers /\ lossy \subseteq Subscribers
    BY <2>2 DEF Init
  <2> QED BY <2>1, <2>2, EmptyChannel, Zenon DEF Init, TypeOK
<1>2. TypeOK /\ [Next]_vars => TypeOK'
  <2> SUFFICES ASSUME TypeOK, [Next]_vars PROVE TypeOK'
    OBVIOUS
  <2> USE StateStoreAssumption
  <2>1. ASSUME NEW s \in Subscribers, Subscribe(s) PROVE TypeOK'
    <3>1. <<>> \in Seq(Change)
      OBVIOUS
    <3>2. st.lastID \in Nat
      BY DEF TypeOK, Store
    <3> QED BY <2>1, <3>1, <3>2 DEF TypeOK, Subscribe
  <2>2. ASSUME NEW s \in Subscribers, Unsubscribe(s) PROVE TypeOK'
    BY <2>2 DEF TypeOK, Unsubscribe
  <2>3. ASSUME NEW s \in Subscribers, Receive(s) PROVE TypeOK'
    <3>1. /\ chan[s] \in Seq(Change) /\ chan[s] # <<>>
          /\ Head(chan[s]) \in Change /\ Tail(chan[s]) \in Seq(Change)
      BY <2>3 DEF TypeOK, Receive
    <3>2. Head(chan[s]).id \in Nat
      BY <3>1 DEF Change
    <3> QED BY <2>3, <3>1, <3>2 DEF TypeOK, Receive
  <2>4. ASSUME NEW b \in Buckets, CreateBucket(b) PROVE TypeOK'
    BY <2>4 DEF TypeOK, CreateBucket, subVars, Store
  <2>5. ASSUME NEW b \in Buckets, DeleteBucket(b) PROVE TypeOK'
    BY <2>5 DEF TypeOK, DeleteBucket, subVars, Store
  <2>6. ASSUME NEW slot \in Slots, NEW v \in Values, NEW e \in Nat,
               SetInternalAt(slot, v, e)
        PROVE  TypeOK'
    <3> DEFINE c == SetChange(st, slot, v, now)
    <3>1. c \in Change /\ c.value = v
      BY SetChangeType DEF TypeOK, SetChange, NextChange
    <3>2. [value |-> c.value, version |-> c.version, expires |-> e] \in Row
      BY <3>1 DEF Row, Change
    <3>3. st' \in Store
      BY <2>6, <3>1, <3>2, CommitType DEF TypeOK, SetInternalAt, SetInternal
    <3>4. /\ subs' \subseteq Subscribers
          /\ chan' \in [Subscribers -> Seq(Change)]
          /\ seen' \in [Subscribers -> Nat]
          /\ lossy' \subseteq Subscribers
      BY <2>6, <3>1, NotifyType DEF SetInternalAt
    <3> QED BY <2>6, <3>3, <3>4 DEF TypeOK, SetInternalAt
  <2>7. ASSUME NEW slot \in Slots, Delete(slot) PROVE TypeOK'
    <3> DEFINE c == DeleteChange(st, slot, now)
    <3>1. c \in Change
      BY DeleteChangeType DEF TypeOK
    <3>2. st' \in Store
      BY <2>7, <3>1, CommitType DEF TypeOK, Delete, DeleteRow
    <3>3. /\ subs' \subseteq Subscribers
          /\ chan' \in [Subscribers -> Seq(Change)]
          /\ seen' \in [Subscribers -> Nat]
          /\ lossy' \subseteq Subscribers
      BY <2>7, <3>1, NotifyType DEF Delete
    <3> QED BY <2>7, <3>2, <3>3 DEF TypeOK, Delete
  <2>8. CASE Cleanup
    BY <2>8, CleanupType DEF TypeOK, Cleanup, subVars
  <2>9. CASE CreateSnapshot
    <3>1. SnapshotOf(st) \in Snapshot
      BY DEF TypeOK, SnapshotOf, Snapshot, Store
    <3> QED BY <2>9, <3>1 DEF TypeOK, CreateSnapshot, subVars, HeldSnapshot, Store
  <2>10. CASE RestoreSnapshot
    <3>1. held \in HeldSnapshot
      BY <2>10 DEF TypeOK, RestoreSnapshot, subVars
    <3>2. st' \in Store
      BY <2>10, <3>1 DEF TypeOK, RestoreSnapshot, subVars, Restored, HeldSnapshot, Snapshot, Store
    <3>3. held' \in HeldSnapshot
      BY <2>10, <3>1 DEF RestoreSnapshot, Outdated, HeldSnapshot
    <3> QED BY <2>10, <3>2, <3>3 DEF TypeOK, RestoreSnapshot, subVars, Store
  <2>11. CASE Close
    BY <2>11 DEF TypeOK, Close
  <2>12. CASE Reopen
    <3>1. PICK v \in {0} \cup {c.version : c \in st.log} :
              /\ st' = [st EXCEPT !.version = v]
              /\ mark' = IF v = st.version THEN mark ELSE st.lastID
              /\ held' = IF v = st.version THEN held ELSE Outdated(held)
      BY <2>12 DEF Reopen
    <3>2. v \in Nat
      BY DEF TypeOK, Store, Change
    <3>3. held' \in HeldSnapshot \cup {NoSnapshot}
      BY <3>1 DEF TypeOK, Outdated, HeldSnapshot
    <3> QED BY <2>12, <3>1, <3>2, <3>3, EmptyChannel
            DEF TypeOK, Reopen, Store
  <2>13. CASE Tick
    BY <2>13 DEF TypeOK, Tick, subVars
  <2>14. CASE UNCHANGED vars
    BY <2>14 DEF TypeOK, vars, subVars
  <2>15. ASSUME NEW slot \in Slots, NEW v \in Values, Set(slot, v) PROVE TypeOK'
    BY <2>15, <2>6 DEF Set
  <2>16. ASSUME NEW slot \in Slots, NEW v \in Values, NEW ttl \in TTLs,
                SetWithTTL(slot, v, ttl)
         PROVE  TypeOK'
    <3>1. now + ttl \in Nat
      BY DEF TypeOK
    <3> QED BY <2>16, <2>6, <3>1 DEF SetWithTTL
  <2> QED BY <2>1, <2>2, <2>3, <2>4, <2>5, <2>7, <2>8, <2>9, <2>10, <2>11,
             <2>12, <2>13, <2>14, <2>15, <2>16 DEF Next
<1> QED BY <1>1, <1>2, PTL DEF Spec

-----------------------------------------------------------------------------
(* The change log                                                          *)

\* What a commit does to log, counter and rows, with the new change named.
LEMMA CommitKeepsLogInv ==
    ASSUME TypeOK, LogInv, NEW c \in Change, NEW row \in Row \cup {NoRow},
           c.id = st.lastID + 1, c.version = st.version + 1, c.time = now,
           st' = Commit(st, c, row),
           \/ row = NoRow
           \/ c.kind # "delete" /\ row.value = c.value /\ row.version = c.version,
           UNCHANGED <<now, mark>>
    PROVE  LogInv'
<1>1. /\ st'.log = st.log \cup {c} /\ st'.lastID = c.id /\ st'.version = c.version
      /\ st'.rows[c.slot] = row
      /\ \A s \in Slots : s # c.slot => st'.rows[s] = st.rows[s]
  BY DEF Commit, TypeOK, Store, Change
<1>2. /\ st.lastID \in Nat /\ st.version \in Nat /\ now \in Nat /\ mark \in Nat
      /\ \A d \in st.log \cup {c} : /\ d.id \in Nat /\ d.version \in Nat
                                   /\ d.time \in Nat /\ d.slot \in Slots
  BY DEF TypeOK, Store, Change
<1>3. LogAges'
  BY <1>1, <1>2 DEF LogInv, LogAges
<1>4. VersionOrder'
  BY <1>1, <1>2 DEF LogInv, LogAges, VersionOrder, Recent
<1>5. LogTellsRows'
  <2> SUFFICES ASSUME NEW d \in st'.log, d.id > mark,
                      \A e \in st'.log : e.slot = d.slot => e.id <= d.id
               PROVE  \/ st'.rows[d.slot] = NoRow
                      \/ /\ d.kind # "delete"
                         /\ st'.rows[d.slot].value = d.value
                         /\ st'.rows[d.slot].version = d.version
    BY DEF LogTellsRows, Recent
  <2>1. CASE d = c
    BY <2>1, <1>1
  <2>2. CASE d # c
    <3>1. d \in st.log /\ d.slot # c.slot
      BY <2>2, <1>1, <1>2 DEF LogInv, LogAges
    <3> QED BY <3>1, <1>1, <1>2 DEF LogInv, LogTellsRows, Recent
  <2> QED BY <2>1, <2>2
<1> QED BY <1>3, <1>4, <1>5 DEF LogInv

\* Dropping the old end of the log and expired rows keeps it truthful: no
\* change becomes the newest of its slot because a newer one was dropped.
LEMMA CleanupKeepsLogInv ==
    ASSUME TypeOK, LogInv, Cleanup
    PROVE  LogInv'
<1>1. PICK rowsGo \in BOOLEAN, logGo \in BOOLEAN :
          st' = CleanupWith(st, now, Retention, rowsGo, logGo)
  BY DEF Cleanup
<1>2. /\ st'.lastID = st.lastID /\ st'.version = st.version
      /\ \A s \in Slots : st'.rows[s] = NoRow \/ st'.rows[s] = st.rows[s]
      /\ st'.log \subseteq st.log
      /\ mark' = mark /\ now' = now
  BY <1>1 DEF CleanupWith, TypeOK, Store, Cleanup
<1>3. \A c \in st'.log, d \in st.log : c.time <= d.time => d \in st'.log
  <2> SUFFICES ASSUME NEW c \in st'.log, NEW d \in st.log, c.time <= d.time
               PROVE  d \in st'.log
    OBVIOUS
  <2>1. c.time \in Nat /\ d.time \in Nat /\ now \in Nat /\ Retention \in Nat
    BY <1>2, StateStoreAssumption DEF TypeOK, Store, Change
  <2>2. st'.log = IF logGo THEN {e \in st.log : e.time + Retention >= now} ELSE st.log
    BY <1>1 DEF CleanupWith, TypeOK, Store
  <2> QED BY <2>1, <2>2
<1>4. LogAges'
  BY <1>2 DEF LogInv, LogAges
<1>5. VersionOrder'
  BY <1>2 DEF LogInv, VersionOrder, Recent
<1>6. LogTellsRows'
  <2> SUFFICES ASSUME NEW c \in st'.log, c.id > mark,
                      \A d \in st'.log : d.slot = c.slot => d.id <= c.id
               PROVE  \/ st'.rows[c.slot] = NoRow
                      \/ /\ c.kind # "delete"
                         /\ st'.rows[c.slot].value = c.value
                         /\ st'.rows[c.slot].version = c.version
    BY <1>2 DEF LogTellsRows, Recent
  <2>1. ASSUME NEW d \in st.log, d.slot = c.slot PROVE d.id <= c.id
    <3>1. c \in st.log /\ c.id \in Nat /\ d.id \in Nat
      BY <1>2 DEF TypeOK, Store, Change
    <3>2. CASE c.id < d.id
      BY <3>1, <3>2, <2>1, <1>3 DEF LogInv, LogAges
    <3> QED BY <3>1, <3>2
  <2>2. c \in st.log /\ c.slot \in Slots
    BY <1>2 DEF TypeOK, Store, Change
  <2> QED BY <1>2, <2>1, <2>2 DEF LogInv, LogTellsRows, Recent
<1> QED BY <1>4, <1>5, <1>6 DEF LogInv

\* The counter moved by a restore or a restart: nothing is recent any more.
LEMMA MovedCounterKeepsLogInv ==
    ASSUME TypeOK, LogInv, mark' = st.lastID, now' = now,
           st'.log = st.log, st'.lastID = st.lastID
    PROVE  LogInv'
<1>1. \A c \in st.log : ~(c.id > st.lastID)
  BY DEF LogInv, LogAges, TypeOK, Store, Change
<1> QED BY <1>1 DEF LogInv, LogAges, VersionOrder, LogTellsRows, Recent, TypeOK, Store

\* GetChangesSince lists changes in commit order, the counter is ahead of
\* them, and the newest change of a slot describes its row: in every
\* reachable state, for any interleaving of writes, cleanup, snapshots,
\* restores and restarts.
THEOREM LogInvariant == Spec => []LogInv
<1>1. Init => LogInv
  BY DEF Init, EmptyStore, LogInv, LogAges, VersionOrder, LogTellsRows, Recent
<1>2. TypeOK /\ TypeOK' /\ LogInv /\ [Next]_vars => LogInv'
  <2> SUFFICES ASSUME TypeOK, TypeOK', LogInv, [Next]_vars PROVE LogInv'
    OBVIOUS
  <2>1. ASSUME UNCHANGED <<st, mark>>, now' = now \/ now' = now + 1
        PROVE  LogInv'
    BY <2>1 DEF LogInv, LogAges, VersionOrder, LogTellsRows, Recent, TypeOK, Store, Change
  <2>2. ASSUME NEW s \in Subscribers, Subscribe(s) \/ Unsubscribe(s) \/ Receive(s)
        PROVE  LogInv'
    BY <2>1, <2>2 DEF Subscribe, Unsubscribe, Receive
  <2>3. ASSUME NEW b \in Buckets, CreateBucket(b) \/ DeleteBucket(b) PROVE LogInv'
    <3>1. /\ st'.log = st.log /\ st'.rows = st.rows
          /\ st'.lastID = st.lastID /\ st'.version = st.version
          /\ now' = now /\ mark' = mark
      BY <2>3 DEF CreateBucket, DeleteBucket, TypeOK, Store
    <3> QED BY <3>1 DEF LogInv, LogAges, VersionOrder, LogTellsRows, Recent
  <2>4. ASSUME NEW slot \in Slots, NEW v \in Values, NEW e \in Nat,
               SetInternalAt(slot, v, e)
        PROVE  LogInv'
    <3> DEFINE c == SetChange(st, slot, v, now)
               row == [value |-> c.value, version |-> c.version, expires |-> e]
    <3>1. c \in Change
      BY SetChangeType DEF TypeOK
    <3>2. /\ c.id = st.lastID + 1 /\ c.version = st.version + 1 /\ c.time = now
          /\ c.kind # "delete" /\ c.value = v
      BY DEF SetChange, NextChange
    <3>3. row \in Row
      BY <3>1, <3>2 DEF Row, Change
    <3>4. st' = Commit(st, c, row) /\ UNCHANGED <<now, mark>>
      BY <2>4 DEF SetInternalAt, SetInternal
    <3>5. row.value = c.value /\ row.version = c.version
      OBVIOUS
    <3> HIDE DEF c, row
    <3> QED BY <3>1, <3>2, <3>3, <3>4, <3>5, CommitKeepsLogInv
  <2>5. ASSUME NEW slot \in Slots, NEW v \in Values, Set(slot, v) PROVE LogInv'
    BY <2>4, <2>5 DEF Set
  <2>6. ASSUME NEW slot \in Slots, NEW v \in Values, NEW ttl \in TTLs,
               SetWithTTL(slot, v, ttl)
        PROVE  LogInv'
    <3>1. now + ttl \in Nat
      BY StateStoreAssumption DEF TypeOK
    <3> QED BY <2>4, <2>6, <3>1 DEF SetWithTTL
  <2>7. ASSUME NEW slot \in Slots, Delete(slot) PROVE LogInv'
    <3> DEFINE c == DeleteChange(st, slot, now)
    <3>1. c \in Change
      BY DeleteChangeType DEF TypeOK
    <3>2. c.id = st.lastID + 1 /\ c.version = st.version + 1 /\ c.time = now
      BY DEF DeleteChange, NextChange
    <3>3. st' = Commit(st, c, NoRow) /\ UNCHANGED <<now, mark>>
      BY <2>7 DEF Delete, DeleteRow
    <3> HIDE DEF c
    <3> QED BY <3>1, <3>2, <3>3, CommitKeepsLogInv
  <2>8. CASE Cleanup
    BY <2>8, CleanupKeepsLogInv
  <2>9. CASE CreateSnapshot
    BY <2>9, <2>1 DEF CreateSnapshot
  <2>10. CASE RestoreSnapshot
    BY <2>10, MovedCounterKeepsLogInv DEF RestoreSnapshot, Restored, TypeOK, Store
  <2>11. CASE Close
    BY <2>11, <2>1 DEF Close
  <2>12. CASE Reopen
    <3>1. PICK v \in {0} \cup {c.version : c \in st.log} :
              /\ IsLoadedVersion(st, v)
              /\ st' = [st EXCEPT !.version = v]
              /\ mark' = IF v = st.version THEN mark ELSE st.lastID
      BY <2>12 DEF Reopen
    <3>2. /\ st'.log = st.log /\ st'.lastID = st.lastID /\ now' = now
          /\ v = st.version => st' = st
      BY <2>12, <3>1 DEF Reopen, TypeOK, Store
    <3>3. CASE v = st.version
      BY <3>1, <3>2, <3>3, <2>1
    <3>4. CASE v # st.version
      BY <3>1, <3>2, <3>4, MovedCounterKeepsLogInv
    <3> QED BY <3>3, <3>4
  <2>13. CASE Tick
    BY <2>13, <2>1 DEF Tick
  <2>14. CASE UNCHANGED vars
    BY <2>14, <2>1 DEF vars
  <2> QED BY <2>2, <2>3, <2>5, <2>6, <2>7, <2>8, <2>9, <2>10, <2>11, <2>12,
             <2>13, <2>14 DEF Next
<1> QED BY <1>1, <1>2, Typing, PTL DEF Spec

\* The part of it that readers of the log rely on.
THEOREM LogCorrect == Spec => [](VersionOrder /\ LogTellsRows)
<1>1. LogInv => VersionOrder /\ LogTellsRows
  BY DEF LogInv
<1> QED BY <1>1, LogInvariant, PTL

\* Both together: what the store keeps is well typed and its change log, in
\* commit order, tells the rows.
THEOREM StoreCorrect == Spec => []LogDescribesStore
<1>1. TypeOK /\ VersionOrder /\ LogTellsRows => LogDescribesStore
  BY DEF LogDescribesStore
<1> QED BY <1>1, Typing, LogCorrect, PTL

-----------------------------------------------------------------------------
(* Subscribers                                                             *)

\* A channel holds changes newer than `from`, none newer than `to`, in order;
\* or it holds them all.
Ordered(q, from, to) ==
    /\ from <= to
    /\ \A i \in 1..Len(q) : from < q[i].id /\ q[i].id <= to
    /\ \A i, j \in 1..Len(q) : i < j => q[i].id < q[j].id

Whole(q, from, to) ==
    /\ Len(q) = to - from
    /\ \A i \in 1..Len(q) : q[i].id = from + i

\* Strengthening: a subscriber has seen no change ahead of the store, what
\* its channel holds is newer and in order, and without a loss it is the very
\* next changes, none left out.
SubsInv ==
    \A s \in Subscribers :
        /\ Ordered(chan[s], seen[s], st.lastID)
        /\ s \in subs \ lossy => Whole(chan[s], seen[s], st.lastID)

\* What is in a channel are changes, with ids.
LEMMA ChannelIds ==
    ASSUME NEW q \in Seq(Change)
    PROVE  /\ Len(q) \in Nat
           /\ \A i \in 1..Len(q) : q[i] \in Change /\ q[i].id \in Nat
<1>1. Len(q) \in Nat /\ \A i \in 1..Len(q) : q[i] \in Change
  OBVIOUS
<1>2. \A c \in Change : c.id \in Nat
  BY DEF Change
<1> QED BY <1>1, <1>2

\* The next change at the end keeps a channel in order, and whole.
LEMMA AppendInOrder ==
    ASSUME NEW q \in Seq(Change), NEW from \in Nat, NEW to \in Nat,
           NEW c \in Change, c.id = to + 1
    PROVE  /\ Ordered(q, from, to) => Ordered(Append(q, c), from, to + 1)
           /\ Whole(q, from, to) => Whole(Append(q, c), from, to + 1)
<1> DEFINE p == Append(q, c)
<1>1. /\ Len(q) \in Nat /\ Len(p) = Len(q) + 1 /\ p[Len(q) + 1] = c
      /\ \A i \in 1..Len(q) : p[i] = q[i] /\ q[i].id \in Nat
  BY ChannelIds
<1>2. \A i \in 1..Len(p) : i \in 1..Len(q) \/ i = Len(q) + 1
  BY <1>1
<1> HIDE DEF p
<1>3. ASSUME Ordered(q, from, to) PROVE Ordered(p, from, to + 1)
  <2>1. ASSUME NEW i \in 1..Len(p) PROVE from < p[i].id /\ p[i].id <= to + 1
    <3>1. CASE i \in 1..Len(q)
      BY <1>1, <1>3, <3>1 DEF Ordered
    <3>2. CASE i = Len(q) + 1
      <4>1. p[i] = c
        BY <1>1, <3>2
      <4> QED BY <4>1, <1>3 DEF Ordered
    <3> QED BY <1>2, <3>1, <3>2
  <2>2. ASSUME NEW i \in 1..Len(p), NEW j \in 1..Len(p), i < j PROVE p[i].id < p[j].id
    <3>1. i \in 1..Len(q)
      BY <1>1, <2>2
    <3>2. CASE j \in 1..Len(q)
      BY <1>1, <1>3, <2>2, <3>1, <3>2 DEF Ordered
    <3>3. CASE j = Len(q) + 1
      <4>1. p[j] = c /\ p[i] = q[i]
        BY <1>1, <3>1, <3>3
      <4> QED BY <1>1, <1>3, <3>1, <4>1 DEF Ordered
    <3> QED BY <1>2, <3>2, <3>3
  <2> QED BY <1>3, <2>1, <2>2 DEF Ordered
<1>4. ASSUME Whole(q, from, to) PROVE Whole(p, from, to + 1)
  <2>1. Len(p) = to + 1 - from
    BY <1>1, <1>4 DEF Whole
  <2>2. ASSUME NEW i \in 1..Len(p) PROVE p[i].id = from + i
    <3>1. CASE i \in 1..Len(q)
      BY <1>1, <1>4, <3>1 DEF Whole
    <3>2. CASE i = Len(q) + 1
      <4>1. p[i] = c /\ Len(q) = to - from
        BY <1>1, <1>4, <3>2 DEF Whole
      <4> QED BY <1>1, <3>2, <4>1
    <3> QED BY <1>2, <3>1, <3>2
  <2> QED BY <2>1, <2>2 DEF Whole
<1> QED BY <1>3, <1>4 DEF p

\* So does taking the oldest.
LEMMA TailInOrder ==
    ASSUME NEW q \in Seq(Change), NEW from \in Nat, NEW to \in Nat, q # <<>>
    PROVE  /\ Ordered(q, from, to) => Ordered(Tail(q), Head(q).id, to)
           /\ Whole(q, from, to) => Whole(Tail(q), Head(q).id, to)
<1> DEFINE p == Tail(q)
           h == Head(q).id
<1>1. /\ Len(q) \in Nat /\ Len(q) >= 1 /\ Len(p) = Len(q) - 1
      /\ \A i \in 1..Len(p) : p[i] = q[i + 1] /\ i + 1 \in 1..Len(q)
      /\ h = q[1].id /\ 1 \in 1..Len(q)
      /\ \A i \in 1..Len(q) : q[i].id \in Nat
  BY ChannelIds
<1> HIDE DEF p, h
<1>2. ASSUME Ordered(q, from, to) PROVE Ordered(p, h, to)
  <2>1. ASSUME NEW i \in 1..Len(p) PROVE h < p[i].id /\ p[i].id <= to
    <3>1. p[i] = q[i + 1] /\ i + 1 \in 1..Len(q) /\ 1 < i + 1
      BY <1>1
    <3> QED BY <1>1, <1>2, <3>1 DEF Ordered
  <2>2. ASSUME NEW i \in 1..Len(p), NEW j \in 1..Len(p), i < j PROVE p[i].id < p[j].id
    <3>1. /\ p[i] = q[i + 1] /\ i + 1 \in 1..Len(q)
          /\ p[j] = q[j + 1] /\ j + 1 \in 1..Len(q) /\ i + 1 < j + 1
      BY <1>1, <2>2
    <3> QED BY <1>2, <3>1 DEF Ordered
  <2>3. h <= to
    BY <1>1, <1>2 DEF Ordered
  <2> QED BY <2>1, <2>2, <2>3 DEF Ordered
<1>3. ASSUME Whole(q, from, to) PROVE Whole(p, h, to)
  <2>1. h = from + 1
    BY <1>1, <1>3 DEF Whole
  <2>2. Len(p) = to - h
    BY <1>1, <1>3, <2>1 DEF Whole
  <2>3. ASSUME NEW i \in 1..Len(p) PROVE p[i].id = h + i
    <3>1. p[i] = q[i + 1] /\ i + 1 \in 1..Len(q)
      BY <1>1
    <3>2. p[i].id = from + (i + 1)
      BY <1>3, <3>1 DEF Whole
    <3> QED BY <2>1, <3>2, <1>1
  <2> QED BY <2>2, <2>3 DEF Whole
<1> QED BY <1>2, <1>3 DEF p, h

\* A subscription starts with nothing missing.
LEMMA EmptyInOrder ==
    ASSUME NEW from \in Nat, NEW to \in Nat, from <= to
    PROVE  Ordered(<<>>, from, to) /\ Whole(<<>>, to, to)
BY DEF Ordered, Whole

\* A commit tells every subscriber that has room, and only those.
LEMMA NotifyKeepsSubsInv ==
    ASSUME TypeOK, SubsInv, NEW c \in Change, c.id = st.lastID + 1,
           NotifySubscribers(c), st'.lastID = c.id
    PROVE  SubsInv'
<1> SUFFICES ASSUME NEW s \in Subscribers
             PROVE  /\ Ordered(chan'[s], seen'[s], st'.lastID)
                    /\ s \in subs' \ lossy' => Whole(chan'[s], seen'[s], st'.lastID)
  BY DEF SubsInv
<1>1. st.lastID \in Nat /\ seen[s] \in Nat /\ chan[s] \in Seq(Change)
  BY DEF TypeOK, Store
<1>2. seen' = seen /\ subs' = subs /\ st'.lastID = st.lastID + 1
  BY DEF NotifySubscribers
<1>3. CASE s \in subs /\ ~(Len(chan[s]) >= SubCap)
  <2>1. chan'[s] = Append(chan[s], c)
    BY <1>3 DEF NotifySubscribers
  <2>2. s \in subs' \ lossy' => s \in subs \ lossy
    BY <1>2 DEF NotifySubscribers
  <2> QED BY <1>1, <1>2, <2>1, <2>2, AppendInOrder DEF SubsInv
<1>4. CASE ~(s \in subs /\ ~(Len(chan[s]) >= SubCap))
  <2>1. chan'[s] = chan[s]
    BY <1>4 DEF NotifySubscribers
  <2>2. s \notin subs' \ lossy'
    BY <1>4 DEF NotifySubscribers
  <2>3. Ordered(chan[s], seen[s], st.lastID) => Ordered(chan[s], seen[s], st.lastID + 1)
    BY <1>1, ChannelIds DEF Ordered
  <2> QED BY <1>2, <2>1, <2>2, <2>3 DEF SubsInv
<1> QED BY <1>3, <1>4

\* Nothing committed, nothing told.
LEMMA QuietKeepsSubsInv ==
    ASSUME SubsInv, UNCHANGED subVars, st'.lastID = st.lastID
    PROVE  SubsInv'
BY DEF SubsInv, subVars

\* A subscriber receives the changes in commit order, each once, and all of
\* them unless its channel was full when one was committed: whatever the
\* others do, and however subscriptions, closing and restarts interleave.
THEOREM Served == Spec => []SubscribersServed
<1>1. Init => SubsInv
  BY EmptyInOrder DEF Init, EmptyStore, SubsInv
<1>2. TypeOK /\ SubsInv /\ [Next]_vars => SubsInv'
  <2> SUFFICES ASSUME TypeOK, SubsInv, [Next]_vars PROVE SubsInv'
    OBVIOUS
  <2>1. ASSUME NEW s \in Subscribers, Subscribe(s) PROVE SubsInv'
    <3>1. st' = st /\ st.lastID \in Nat
      BY <2>1 DEF Subscribe, TypeOK, Store
    <3>2. chan'[s] = <<>> /\ seen'[s] = st.lastID
      BY <2>1 DEF Subscribe, TypeOK
    <3>3. \A r \in Subscribers \ {s} :
             /\ chan'[r] = chan[r] /\ seen'[r] = seen[r]
             /\ r \in subs' \ lossy' => r \in subs \ lossy
      BY <2>1 DEF Subscribe, TypeOK
    <3> QED BY <3>1, <3>2, <3>3, EmptyInOrder DEF SubsInv
  <2>2. ASSUME NEW s \in Subscribers, Unsubscribe(s) PROVE SubsInv'
    BY <2>2 DEF Unsubscribe, SubsInv
  <2>3. ASSUME NEW s \in Subscribers, Receive(s) PROVE SubsInv'
    <3>1. /\ st' = st /\ subs' = subs /\ lossy' = lossy
          /\ \A r \in Subscribers \ {s} : chan'[r] = chan[r] /\ seen'[r] = seen[r]
          /\ chan'[s] = Tail(chan[s]) /\ seen'[s] = Head(chan[s]).id
      BY <2>3 DEF Receive, TypeOK
    <3>2. /\ st.lastID \in Nat /\ seen[s] \in Nat /\ chan[s] \in Seq(Change)
          /\ chan[s] # <<>>
      BY <2>3 DEF Receive, TypeOK, Store
    <3> QED BY <3>1, <3>2, TailInOrder DEF SubsInv
  <2>4. ASSUME NEW slot \in Slots, NEW v \in Values, NEW e \in Nat,
               SetInternalAt(slot, v, e)
        PROVE  SubsInv'
    <3> DEFINE c == SetChange(st, slot, v, now)
    <3>1. c \in Change /\ c.id = st.lastID + 1
      BY SetChangeType DEF TypeOK, SetChange, NextChange
    <3>2. NotifySubscribers(c)
      BY <2>4 DEF SetInternalAt
    <3>3. st'.lastID = c.id
      BY <2>4 DEF SetInternalAt, SetInternal, Commit, TypeOK, Store
    <3> HIDE DEF c
    <3> QED BY <3>1, <3>2, <3>3, NotifyKeepsSubsInv
  <2>5. ASSUME NEW slot \in Slots, NEW v \in Values, Set(slot, v) PROVE SubsInv'
    BY <2>4, <2>5 DEF Set
  <2>6. ASSUME NEW slot \in Slots, NEW v \in Values, NEW ttl \in TTLs,
               SetWithTTL(slot, v, ttl)
        PROVE  SubsInv'
    <3>1. now + ttl \in Nat
      BY StateStoreAssumption DEF TypeOK
    <3> QED BY <2>4, <2>6, <3>1 DEF SetWithTTL
  <2>7. ASSUME NEW slot \in Slots, Delete(slot) PROVE SubsInv'
    <3> DEFINE c == DeleteChange(st, slot, now)
    <3>1. c \in Change /\ c.id = st.lastID + 1
      BY DeleteChangeType DEF TypeOK, DeleteChange, NextChange
    <3>2. NotifySubscribers(c)
      BY <2>7 DEF Delete
    <3>3. st'.lastID = c.id
      BY <2>7 DEF Delete, DeleteRow, Commit, TypeOK, Store
    <3> HIDE DEF c
    <3> QED BY <3>1, <3>2, <3>3, NotifyKeepsSubsInv
  <2>8. ASSUME NEW b \in Buckets, CreateBucket(b) \/ DeleteBucket(b) PROVE SubsInv'
    BY <2>8, QuietKeepsSubsInv DEF CreateBucket, DeleteBucket, TypeOK, Store
  <2>9. CASE Cleanup
    BY <2>9, QuietKeepsSubsInv DEF Cleanup, CleanupWith, TypeOK, Store
  <2>10. CASE CreateSnapshot
    BY <2>10, QuietKeepsSubsInv DEF CreateSnapshot
  <2>11. CASE RestoreSnapshot
    BY <2>11, QuietKeepsSubsInv DEF RestoreSnapshot, Restored, TypeOK, Store
  <2>12. CASE Close
    BY <2>12 DEF Close, SubsInv
  <2>13. CASE Reopen
    <3>1. st'.lastID = st.lastID /\ seen' = seen /\ subs' = {} /\ st.lastID \in Nat
      BY <2>13 DEF Reopen, TypeOK, Store
    <3>2. \A s \in Subscribers : chan'[s] = <<>> /\ seen[s] \in Nat
      BY <2>13 DEF Reopen, TypeOK
    <3>3. \A s \in Subscribers : seen[s] <= st.lastID
      BY DEF SubsInv, Ordered
    <3> QED BY <3>1, <3>2, <3>3, EmptyInOrder DEF SubsInv
  <2>14. CASE Tick
    BY <2>14, QuietKeepsSubsInv DEF Tick
  <2>15. CASE UNCHANGED vars
    BY <2>15, QuietKeepsSubsInv DEF vars
  <2> QED BY <2>1, <2>2, <2>3, <2>5, <2>6, <2>7, <2>8, <2>9, <2>10, <2>11, <2>12,
             <2>13, <2>14, <2>15 DEF Next
<1>3. TypeOK /\ SubsInv => SubscribersServed
  <2>1. SubsInv => SubscriberOrder
    BY DEF SubsInv, Ordered, SubscriberOrder
  <2>2. TypeOK /\ SubsInv => NoSilentLoss
    BY DEF SubsInv, Whole, NoSilentLoss, TypeOK
  <2> QED BY <2>1, <2>2 DEF SubscribersServed
<1> QED BY <1>1, <1>2, <1>3, Typing, PTL DEF Spec

-----------------------------------------------------------------------------
(* Snapshots                                                               *)

\* Strengthening for SnapshotPlusLog.  Ids are unique.  As long as the counter
\* moved by commits only, the snapshot's version separates the changes it
\* contains from those that came after it; and while the log is whole, a slot
\* without a change since is as the snapshot has it, or expired.
UniqueIds == \A c, d \in st.log : c.id = d.id => c = d

WholeSince(n) == \A i \in (n + 1)..st.lastID : \E c \in st.log : c.id = i

Separates(h) ==
    /\ mark <= h.at /\ h.at <= st.lastID
    /\ h.snap.version <= st.version
    /\ \A c \in st.log :
         /\ h.at < c.id => h.snap.version < c.version
         /\ mark < c.id /\ c.id <= h.at => c.version <= h.snap.version

Untouched(h, slot) ==
    \/ \E c \in st.log : h.at < c.id /\ c.slot = slot
    \/ st.rows[slot] = h.snap.rows[slot]
    \/ st.rows[slot] = NoRow /\ ~Live(h.snap.rows[slot], now)

HeldInv ==
    held # NoSnapshot /\ held.fresh =>
        /\ Separates(held)
        /\ WholeSince(held.at) =>
             \A slot \in Slots : slot[1] \in held.snap.buckets => Untouched(held, slot)

SnapInv == UniqueIds /\ HeldInv

\* A held snapshot is one.
LEMMA HeldType ==
    ASSUME TypeOK, held # NoSnapshot
    PROVE  /\ held.at \in Nat /\ held.fresh \in BOOLEAN
           /\ held.snap.version \in Nat /\ held.snap.buckets \subseteq Buckets
           /\ \A slot \in Slots :
                \/ held.snap.rows[slot] = NoRow
                \/ held.snap.rows[slot] \in Row /\ held.snap.rows[slot].expires \in Nat
<1>1. held \in HeldSnapshot
  BY DEF TypeOK
<1>2. held.at \in Nat /\ held.fresh \in BOOLEAN /\ held.snap \in Snapshot
  BY <1>1 DEF HeldSnapshot
<1>3. \A r \in Row : r.expires \in Nat
  BY DEF Row
<1> QED BY <1>2, <1>3 DEF Snapshot

\* What was committed and what the numbers are.
LEMMA LogType ==
    ASSUME TypeOK
    PROVE  /\ st.lastID \in Nat /\ st.version \in Nat /\ now \in Nat /\ mark \in Nat
           /\ st.log \subseteq Change
           /\ \A c \in Change : /\ c.id \in Nat /\ c.version \in Nat
                                /\ c.time \in Nat /\ c.slot \in Slots
BY DEF TypeOK, Store, Change

\* A set of numbers with a bound has a greatest one.
LEMMA Greatest ==
    ASSUME NEW S \in SUBSET Nat, S # {}, NEW n \in Nat, \A i \in S : i <= n
    PROVE  \E i \in S : \A j \in S : j <= i
<1> DEFINE T == {n - i : i \in S}
<1>1. T \subseteq Nat /\ T # {}
  <2>1. \A i \in S : n - i \in Nat
    OBVIOUS
  <2> QED BY <2>1
<1> HIDE DEF T
<1>2. PICK x \in T : \A y \in T : ~(<<y, x>> \in OpToRel(<, Nat))
  BY <1>1, NatLessThanWellFounded, WFMin
<1>3. \A y \in T : ~(y < x)
  BY <1>1, <1>2 DEF OpToRel
<1>4. PICK i \in S : x = n - i
  BY DEF T
<1>5. ASSUME NEW j \in S PROVE j <= i
  <2>1. n - j \in T
    BY DEF T
  <2> QED BY <2>1, <1>3, <1>4
<1> QED BY <1>5

\* A commit separates itself from the snapshot, and touches one slot.
LEMMA CommitKeepsSnapInv ==
    ASSUME TypeOK, LogInv, SnapInv, NEW c \in Change, NEW row,
           c.id = st.lastID + 1, c.version = st.version + 1,
           st' = Commit(st, c, row), UNCHANGED <<now, mark, held>>
    PROVE  SnapInv'
<1>1. /\ st'.log = st.log \cup {c} /\ st'.lastID = st.lastID + 1
      /\ st'.version = st.version + 1
      /\ \A s \in Slots : s # c.slot => st'.rows[s] = st.rows[s]
  BY DEF Commit, TypeOK, Store, Change
<1>2. \A d \in st.log : d.id <= st.lastID /\ d.id \in Nat /\ d.version \in Nat
  BY LogType DEF LogInv, LogAges
<1>3. UniqueIds'
  BY <1>1, <1>2, LogType DEF SnapInv, UniqueIds
<1>4. ASSUME held # NoSnapshot, held.fresh
      PROVE  /\ Separates(held)'
             /\ WholeSince(held.at)' =>
                  \A slot \in Slots : slot[1] \in held.snap.buckets => Untouched(held, slot)'
  <2>1. /\ held.at \in Nat /\ held.snap.version \in Nat
        /\ held.at <= st.lastID /\ held.snap.version <= st.version
    BY <1>4, HeldType DEF SnapInv, HeldInv, Separates
  <2>2. Separates(held)'
    BY <1>1, <1>2, <1>4, <2>1, LogType DEF SnapInv, HeldInv, Separates
  <2>3. ASSUME WholeSince(held.at)', NEW slot \in Slots, slot[1] \in held.snap.buckets
        PROVE  Untouched(held, slot)'
    <3>1. WholeSince(held.at)
      <4> SUFFICES ASSUME NEW i \in (held.at + 1)..st.lastID
                   PROVE  \E d \in st.log : d.id = i
        BY DEF WholeSince
      <4>1. i \in (held.at + 1)..st'.lastID /\ i # c.id
        BY <1>1, <2>1, LogType
      <4>2. PICK d \in st'.log : d.id = i
        BY <2>3, <4>1 DEF WholeSince
      <4> QED BY <1>1, <4>1, <4>2
    <3>2. Untouched(held, slot)
      BY <1>4, <2>3, <3>1 DEF SnapInv, HeldInv
    <3>3. CASE slot = c.slot
      BY <1>1, <2>1, <3>3, LogType DEF Untouched
    <3>4. CASE slot # c.slot
      <4>1. st'.rows[slot] = st.rows[slot] /\ st.log \subseteq st'.log
        BY <1>1, <3>4
      <4> QED BY <3>2, <4>1 DEF Untouched
    <3> QED BY <3>3, <3>4
  <2> QED BY <2>2, <2>3
<1> QED BY <1>3, <1>4 DEF SnapInv, HeldInv

\* Cleanup drops what has expired, and what it drops from the log leaves a gap.
LEMMA CleanupKeepsSnapInv ==
    ASSUME TypeOK, LogInv, SnapInv, Cleanup
    PROVE  SnapInv'
<1>1. PICK rowsGo \in BOOLEAN, logGo \in BOOLEAN :
          st' = CleanupWith(st, now, Retention, rowsGo, logGo)
  BY DEF Cleanup
<1>2. /\ st'.lastID = st.lastID /\ st'.version = st.version /\ st'.log \subseteq st.log
      /\ UNCHANGED <<now, mark, held>>
      /\ \A s \in Slots :
           \/ st'.rows[s] = st.rows[s]
           \/ st'.rows[s] = NoRow /\ st.rows[s] # NoRow
                /\ st.rows[s].expires # 0 /\ st.rows[s].expires < now
  BY <1>1 DEF CleanupWith, TypeOK, Store, Cleanup
<1>3. UniqueIds'
  BY <1>2 DEF SnapInv, UniqueIds
<1>4. ASSUME held # NoSnapshot, held.fresh
      PROVE  /\ Separates(held)'
             /\ WholeSince(held.at)' =>
                  \A slot \in Slots : slot[1] \in held.snap.buckets => Untouched(held, slot)'
  <2>1. Separates(held)'
    BY <1>2, <1>4 DEF SnapInv, HeldInv, Separates
  <2>2. ASSUME WholeSince(held.at)', NEW slot \in Slots, slot[1] \in held.snap.buckets
        PROVE  Untouched(held, slot)'
    <3>1. WholeSince(held.at)
      BY <1>2, <2>2 DEF WholeSince
    <3>2. Untouched(held, slot)
      BY <1>4, <2>2, <3>1 DEF SnapInv, HeldInv
    <3>3. ASSUME NEW d \in st.log, held.at < d.id PROVE d \in st'.log
      <4>1. d.id \in (held.at + 1)..st'.lastID
        BY <1>2, <1>4, <3>3, HeldType, LogType DEF LogInv, LogAges
      <4>2. PICK e \in st'.log : e.id = d.id
        BY <1>2, <2>2, <4>1 DEF WholeSince
      <4> QED BY <1>2, <4>2 DEF SnapInv, UniqueIds
    <3>4. ASSUME NEW d \in st.log, held.at < d.id, d.slot = slot
          PROVE  Untouched(held, slot)'
      BY <1>2, <3>3, <3>4 DEF Untouched
    <3>5. ASSUME st.rows[slot] = held.snap.rows[slot]
          PROVE  Untouched(held, slot)'
      <4>1. CASE st'.rows[slot] = st.rows[slot]
        BY <1>2, <3>5, <4>1 DEF Untouched
      <4>2. CASE /\ st'.rows[slot] = NoRow /\ st.rows[slot] # NoRow
                 /\ st.rows[slot].expires # 0 /\ st.rows[slot].expires < now
        <5>1. st.rows[slot].expires \in Nat /\ now \in Nat
          BY <1>4, <3>5, <4>2, HeldType, LogType
        <5>2. ~Live(held.snap.rows[slot], now)
          BY <3>5, <4>2, <5>1 DEF Live
        <5> QED BY <1>2, <4>2, <5>2 DEF Untouched
      <4> QED BY <1>2, <4>1, <4>2
    <3>6. ASSUME st.rows[slot] = NoRow, ~Live(held.snap.rows[slot], now)
          PROVE  Untouched(held, slot)'
      <4>1. st'.rows[slot] = NoRow
        BY <1>2, <3>6
      <4> QED BY <1>2, <3>6, <4>1 DEF Untouched
    <3> QED BY <3>2, <3>4, <3>5, <3>6 DEF Untouched
  <2> QED BY <2>1, <2>2
<1> QED BY <1>2, <1>3, <1>4 DEF SnapInv, HeldInv

\* A step that leaves rows, log and counter alone; time may pass.
LEMMA QuietKeepsSnapInv ==
    ASSUME TypeOK, SnapInv, UNCHANGED <<mark, held>>,
           st'.log = st.log, st'.rows = st.rows, st'.lastID = st.lastID,
           st'.version = st.version, now' = now \/ now' = now + 1
    PROVE  SnapInv'
<1>1. UniqueIds'
  BY DEF SnapInv, UniqueIds
<1>2. ASSUME held # NoSnapshot, NEW slot \in Slots, Untouched(held, slot)
      PROVE  Untouched(held, slot)'
  <2>1. ~Live(held.snap.rows[slot], now) => ~Live(held.snap.rows[slot], now')
    BY <1>2, HeldType, LogType DEF Live
  <2> QED BY <1>2, <2>1 DEF Untouched
<1>3. Separates(held)' <=> Separates(held)
  BY DEF Separates
<1>4. WholeSince(held.at)' <=> WholeSince(held.at)
  BY DEF WholeSince
<1> QED BY <1>1, <1>2, <1>3, <1>4 DEF SnapInv, HeldInv

\* The counter moved: the snapshot is no longer fresh.
LEMMA OutdatedKeepsSnapInv ==
    ASSUME TypeOK, SnapInv, st'.log = st.log, held' = Outdated(held)
    PROVE  SnapInv'
<1>1. UniqueIds'
  BY DEF SnapInv, UniqueIds
<1>2. held' # NoSnapshot => ~held'.fresh
  BY DEF Outdated, TypeOK, HeldSnapshot
<1> QED BY <1>1, <1>2 DEF SnapInv, HeldInv

\* The new change of a slot with the greatest id is its newest in the log, and
\* by LogTellsRows describes the row; a slot without one is untouched.
LEMMA HeldTellsRows ==
    ASSUME TypeOK, LogInv, SnapInv
    PROVE  SnapshotPlusLog
<1> DEFINE snap == held.snap
           news == GetChangesSince(st, snap.version)
           mine(slot) == {c \in news : c.slot = slot}
           row(slot) == st.rows[slot]
<1>1. SUFFICES ASSUME held # NoSnapshot, held.fresh, WholeSince(held.at),
                      \A c \in st.log \ Recent : c.version <= snap.version,
                      NEW slot \in Slots, slot[1] \in snap.buckets
               PROVE  IF mine(slot) = {}
                      THEN \/ row(slot) = snap.rows[slot]
                           \/ row(slot) = NoRow /\ ~Live(snap.rows[slot], now)
                      ELSE \E c \in mine(slot) :
                              /\ \A d \in mine(slot) : d.version <= c.version
                              /\ IF c.kind = "delete"
                                 THEN row(slot) = NoRow
                                 ELSE row(slot) = NoRow \/ row(slot).value = c.value
  BY Zenon DEF SnapshotPlusLog, WholeSince
<1>2. Separates(held) /\ Untouched(held, slot)
  BY <1>1 DEF SnapInv, HeldInv
<1>3. ASSUME NEW c \in st.log
      PROVE  snap.version < c.version <=> held.at < c.id
  <2>1. /\ held.at \in Nat /\ snap.version \in Nat
        /\ c.id \in Nat /\ c.version \in Nat /\ mark \in Nat
    BY <1>1, HeldType, LogType
  <2>2. c.id > mark \/ c.version <= snap.version
    BY <1>1 DEF Recent
  <2> QED BY <1>2, <2>1, <2>2 DEF Separates
<1>4. CASE mine(slot) = {}
  <2>1. ~\E c \in st.log : held.at < c.id /\ c.slot = slot
    <3>1. ASSUME NEW c \in st.log, held.at < c.id, c.slot = slot
          PROVE  FALSE
      <4>1. c.version > snap.version
        BY <1>1, <1>3, <3>1, HeldType, LogType
      <4> QED BY <1>4, <3>1, <4>1 DEF GetChangesSince
    <3> QED BY <3>1
  <2> QED BY <1>2, <1>4, <2>1 DEF Untouched
<1>5. CASE mine(slot) # {}
  <2> DEFINE ids == {c.id : c \in mine(slot)}
  <2>1. /\ mine(slot) \subseteq st.log
        /\ \A c \in mine(slot) : c.slot = slot /\ snap.version < c.version
    BY <1>1, HeldType, LogType DEF GetChangesSince
  <2>2. \A c \in mine(slot) : c.id \in Nat /\ c.id <= st.lastID
    BY <2>1, LogType DEF LogInv, LogAges
  <2>3. PICK i \in ids : \A j \in ids : j <= i
    <3> HIDE DEF mine
    <3>1. ids \subseteq Nat /\ ids # {} /\ \A j \in ids : j <= st.lastID
      BY <1>5, <2>2
    <3> HIDE DEF ids
    <3> QED BY <3>1, Greatest, LogType
  <2>4. PICK c \in mine(slot) : \A d \in mine(slot) : d.id <= c.id
    BY <2>3
  <2>5. c \in st.log /\ c.slot = slot /\ held.at < c.id /\ c \in Recent
    BY <1>1, <1>2, <1>3, <2>1, HeldType, LogType DEF Separates, Recent
  <2>6. \A d \in mine(slot) : d.version <= c.version
    <3>1. ASSUME NEW d \in mine(slot) PROVE d.version <= c.version
      <4>1. d \in st.log /\ d \in Recent /\ d.id <= c.id
        BY <1>1, <1>2, <1>3, <2>1, <2>4, <3>1, HeldType, LogType DEF Separates, Recent
      <4>2. /\ d.id \in Nat /\ c.id \in Nat /\ d.version \in Nat /\ c.version \in Nat
        BY <2>5, <4>1, LogType
      <4>3. CASE d.id < c.id
        BY <2>5, <4>1, <4>2, <4>3 DEF LogInv, VersionOrder
      <4>4. CASE d.id = c.id
        BY <2>5, <4>1, <4>2, <4>4 DEF SnapInv, UniqueIds
      <4> QED BY <4>1, <4>2, <4>3, <4>4
    <3> QED BY <3>1
  <2>7. ASSUME NEW d \in st.log, d.slot = slot PROVE d.id <= c.id
    <3>1. CASE held.at < d.id
      <4>1. d.version > snap.version
        BY <1>1, <1>3, <3>1, HeldType, LogType
      <4>2. d \in mine(slot)
        BY <2>7, <4>1 DEF GetChangesSince
      <4> QED BY <2>4, <4>2
    <3>2. CASE ~(held.at < d.id)
      BY <1>1, <2>5, <3>2, HeldType, LogType
    <3> QED BY <3>1, <3>2
  <2>8. \/ row(slot) = NoRow
        \/ c.kind # "delete" /\ row(slot).value = c.value
    BY <2>5, <2>7 DEF LogInv, LogTellsRows
  <2> HIDE DEF mine, row
  <2> QED BY <1>5, <2>6, <2>8
<1> HIDE DEF mine, row, snap
<1> QED BY <1>4, <1>5

\* A peer that has a snapshot and is given GetChangesSince(its version) ends
\* with the rows of the store, or knows that it cannot: the log has a gap, or
\* the counter was moved meanwhile.
THEOREM SnapshotsExtend == Spec => []SnapshotPlusLog
<1>1. Init => LogInv /\ SnapInv
  BY DEF Init, EmptyStore, LogInv, LogAges, VersionOrder, LogTellsRows, Recent,
         SnapInv, UniqueIds, HeldInv
<1>2. TypeOK /\ LogInv /\ SnapInv /\ [Next]_vars => SnapInv'
  <2> SUFFICES ASSUME TypeOK, LogInv, SnapInv, [Next]_vars PROVE SnapInv'
    OBVIOUS
  <2>1. ASSUME UNCHANGED <<st, mark, held>>, now' = now \/ now' = now + 1
        PROVE  SnapInv'
    BY <2>1, QuietKeepsSnapInv
  <2>2. ASSUME NEW s \in Subscribers, Subscribe(s) \/ Unsubscribe(s) \/ Receive(s)
        PROVE  SnapInv'
    BY <2>1, <2>2 DEF Subscribe, Unsubscribe, Receive
  <2>3. ASSUME NEW b \in Buckets, CreateBucket(b) \/ DeleteBucket(b) PROVE SnapInv'
    <3>1. /\ st'.log = st.log /\ st'.rows = st.rows
          /\ st'.lastID = st.lastID /\ st'.version = st.version
          /\ now' = now /\ UNCHANGED <<mark, held>>
      BY <2>3 DEF CreateBucket, DeleteBucket, TypeOK, Store
    <3> QED BY <3>1, QuietKeepsSnapInv
  <2>4. ASSUME NEW slot \in Slots, NEW v \in Values, NEW e, SetInternalAt(slot, v, e)
        PROVE  SnapInv'
    <3> DEFINE c == SetChange(st, slot, v, now)
    <3>1. c \in Change /\ c.id = st.lastID + 1 /\ c.version = st.version + 1
      BY SetChangeType DEF TypeOK, SetChange, NextChange
    <3>2. /\ st' = Commit(st, c, [value |-> c.value, version |-> c.version, expires |-> e])
          /\ UNCHANGED <<now, mark, held>>
      BY <2>4 DEF SetInternalAt, SetInternal
    <3> HIDE DEF c
    <3> QED BY <3>1, <3>2, CommitKeepsSnapInv
  <2>5. ASSUME NEW slot \in Slots, NEW v \in Values,
               Set(slot, v) \/ \E ttl \in TTLs : SetWithTTL(slot, v, ttl)
        PROVE  SnapInv'
    BY <2>4, <2>5 DEF Set, SetWithTTL
  <2>6. ASSUME NEW slot \in Slots, Delete(slot) PROVE SnapInv'
    <3> DEFINE c == DeleteChange(st, slot, now)
    <3>1. c \in Change /\ c.id = st.lastID + 1 /\ c.version = st.version + 1
      BY DeleteChangeType DEF TypeOK, DeleteChange, NextChange
    <3>2. st' = Commit(st, c, NoRow) /\ UNCHANGED <<now, mark, held>>
      BY <2>6 DEF Delete, DeleteRow
    <3> HIDE DEF c
    <3> QED BY <3>1, <3>2, CommitKeepsSnapInv
  <2>7. CASE Cleanup
    BY <2>7, CleanupKeepsSnapInv
  <2>8. CASE CreateSnapshot
    <3>1. /\ st' = st /\ now' = now /\ mark' = mark
          /\ held'.snap = SnapshotOf(st) /\ held'.at = st.lastID
      BY <2>8 DEF CreateSnapshot
    <3>2. Separates(held)'
      BY <3>1, LogType DEF Separates, SnapshotOf, LogInv, LogAges, VersionOrder, Recent
    <3>3. ASSUME NEW slot \in Slots, slot[1] \in held'.snap.buckets
          PROVE  Untouched(held, slot)'
      BY <3>1, <3>3 DEF Untouched, SnapshotOf
    <3> QED BY <3>1, <3>2, <3>3 DEF SnapInv, UniqueIds, HeldInv
  <2>9. CASE RestoreSnapshot
    BY <2>9, OutdatedKeepsSnapInv DEF RestoreSnapshot, Restored, TypeOK, Store
  <2>10. CASE Close
    BY <2>10, <2>1 DEF Close
  <2>11. CASE Reopen
    <3>1. PICK v \in {0} \cup {c.version : c \in st.log} :
              /\ st' = [st EXCEPT !.version = v]
              /\ mark' = IF v = st.version THEN mark ELSE st.lastID
              /\ held' = IF v = st.version THEN held ELSE Outdated(held)
      BY <2>11 DEF Reopen
    <3>2. /\ st'.log = st.log /\ now' = now
          /\ v = st.version => st' = st
      BY <2>11, <3>1 DEF Reopen, TypeOK, Store
    <3>3. CASE v = st.version
      BY <3>1, <3>2, <3>3, <2>1
    <3>4. CASE v # st.version
      BY <3>1, <3>2, <3>4, OutdatedKeepsSnapInv
    <3> QED BY <3>3, <3>4
  <2>12. CASE Tick
    BY <2>12, <2>1 DEF Tick
  <2>13. CASE UNCHANGED vars
    BY <2>13, <2>1 DEF vars
  <2> QED BY <2>2, <2>3, <2>5, <2>6, <2>7, <2>8, <2>9, <2>10, <2>11, <2>12, <2>13
          DEF Next
<1>3. TypeOK /\ LogInv /\ SnapInv => SnapshotPlusLog
  BY HeldTellsRows
<1> QED BY <1>1, <1>2, <1>3, Typing, LogInvariant, PTL DEF Spec

-----------------------------------------------------------------------------
(* What readers see                                                        *)

\* A slot whose row a commit does not write looks the same; the one it writes
\* has a change that was not in the log.
LEMMA CommitIsLogged ==
    ASSUME TypeOK, LogInv, NEW c \in Change, NEW row, c.id = st.lastID + 1,
           st' = Commit(st, c, row), NEW slot \in Slots,
           Get(st', slot, now) # Get(st, slot, now)
    PROVE  \E d \in st'.log \ st.log : d.slot = slot
<1>1. /\ st'.log = st.log \cup {c}
      /\ \A s \in Slots : s # c.slot => st'.rows[s] = st.rows[s]
  BY DEF Commit, TypeOK, Store, Change
<1>2. c \notin st.log
  BY LogType DEF LogInv, LogAges
<1>3. slot = c.slot
  BY <1>1 DEF Get
<1> QED BY <1>1, <1>2, <1>3

\* Nothing but a commit, the clock or a restore shows or hides a value: not
\* cleanup, which removes what nobody can read any more, not bucket
\* operations, not closing and opening the store.
THEOREM ReadersFollowLog == Spec => VisibleChangesAreLogged
<1>1. TypeOK /\ LogInv /\ [Next]_vars =>
        [now' = now /\ restores' = restores =>
            \A slot \in Slots :
               Get(st', slot, now) # Get(st, slot, now) =>
                  \E c \in st'.log \ st.log : c.slot = slot]_vars
  <2> SUFFICES ASSUME TypeOK, LogInv, Next, now' = now, restores' = restores,
                      NEW slot \in Slots, Get(st', slot, now) # Get(st, slot, now)
               PROVE  \E c \in st'.log \ st.log : c.slot = slot
    OBVIOUS
  <2>1. ASSUME st'.rows = st.rows PROVE FALSE
    BY <2>1 DEF Get
  <2>2. ASSUME NEW s \in Subscribers, Subscribe(s) \/ Unsubscribe(s) \/ Receive(s)
        PROVE  FALSE
    BY <2>1, <2>2 DEF Subscribe, Unsubscribe, Receive
  <2>3. ASSUME NEW b \in Buckets, CreateBucket(b) \/ DeleteBucket(b) PROVE FALSE
    BY <2>1, <2>3 DEF CreateBucket, DeleteBucket, TypeOK, Store
  <2>4. ASSUME NEW sl \in Slots, NEW v \in Values, NEW e, SetInternalAt(sl, v, e)
        PROVE  \E c \in st'.log \ st.log : c.slot = slot
    <3> DEFINE c == SetChange(st, sl, v, now)
    <3>1. c \in Change /\ c.id = st.lastID + 1
      BY SetChangeType DEF TypeOK, SetChange, NextChange
    <3>2. st' = Commit(st, c, [value |-> c.value, version |-> c.version, expires |-> e])
      BY <2>4 DEF SetInternalAt, SetInternal
    <3> HIDE DEF c
    <3> QED BY <3>1, <3>2, CommitIsLogged
  <2>5. ASSUME NEW sl \in Slots, Delete(sl)
        PROVE  \E c \in st'.log \ st.log : c.slot = slot
    <3> DEFINE c == DeleteChange(st, sl, now)
    <3>1. c \in Change /\ c.id = st.lastID + 1
      BY DeleteChangeType DEF TypeOK, DeleteChange, NextChange
    <3>2. st' = Commit(st, c, NoRow)
      BY <2>5 DEF Delete, DeleteRow
    <3> HIDE DEF c
    <3> QED BY <3>1, <3>2, CommitIsLogged
  <2>6. CASE Cleanup
    <3>1. \/ st'.rows[slot] = st.rows[slot]
          \/ st'.rows[slot] = NoRow /\ st.rows[slot] # NoRow
               /\ st.rows[slot].expires # 0 /\ st.rows[slot].expires < now
      BY <2>6 DEF Cleanup, CleanupWith, TypeOK, Store
    <3>2. st.rows[slot] # NoRow => st.rows[slot].expires \in Nat
      BY DEF TypeOK, Store, Row
    <3> QED BY <3>1, <3>2, LogType DEF Get, Live
  <2>7. CASE CreateSnapshot \/ Close \/ Tick
    BY <2>7, <2>1 DEF CreateSnapshot, Close, Tick
  <2>8. CASE RestoreSnapshot
    BY <2>8 DEF RestoreSnapshot, TypeOK
  <2>9. CASE Reopen
    BY <2>9, <2>1 DEF Reopen, TypeOK, Store
  <2> QED BY <2>2, <2>3, <2>4, <2>5, <2>6, <2>7, <2>8, <2>9 DEF Next, Set, SetWithTTL
<1> QED BY <1>1, Typing, LogInvariant, PTL DEF Spec, VisibleChangesAreLogged
=============================================================================
