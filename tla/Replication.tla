----------------------------- MODULE Replication -----------------------------
(***************************************************************************)
(* State replication from a primary to a replica                           *)
(* (internal/state/replication.go), on top of the two stores.              *)
(*                                                                         *)
(* The primary answers a connecting replica with a snapshot or with the    *)
(* changes since the replica's version, then registers the connection; a   *)
(* broadcaster goroutine with its own subscription forwards each later     *)
(* change to the registered connections.  The replica applies changes with *)
(* Set and Delete of its own store, which count its own version, and sends *)
(* that version when it connects again.                                    *)
(*                                                                         *)
(* The connection is TCP: what arrives is in order and complete, but may   *)
(* stop anywhere.  The primary drops every connection it has not heard     *)
(* from for 30 seconds, and replicas never speak after their request.      *)
(***************************************************************************)
EXTENDS StoreOps, Sequences, FiniteSets

CONSTANTS
    SubCap,        \* capacity of the broadcaster's channel (100 in the code)
    TTLs,          \* time-to-live values used on the primary
    Retention,     \* Options.ChangeRetention of the primary
    MaxTime,       \* bound: last instant explored
    MaxChanges,    \* bound: changes the primary commits
    MaxConnects    \* bound: connections the replica makes

ASSUME ReplicationAssumption ==
    /\ SubCap \in Nat \ {0} /\ TTLs \subseteq Nat \ {0} /\ Retention \in Nat
    /\ MaxTime \in Nat /\ MaxChanges \in Nat /\ MaxConnects \in Nat

VARIABLES
    pri, rep,    \* the stores of primary and replica
    now,         \* the clock both read
    queue,       \* the broadcaster's subscription channel
    link,        \* the connection: down, requested, answered (response sent),
                 \* registered, or closed by the primary
    request,     \* syncRequest.Version of this connection
    response,    \* the answer on its way to the replica
    stream,      \* broadcast changes on their way, behind the answer
    applying,    \* changes of the last answer that the replica has yet to apply
    connects,    \* connections made so far
    last,        \* history: slot -> id of the last change on the primary
    answered,    \* history: last, when the response was made
    has,         \* history: slot -> id of the last change the replica applied
    missed,      \* history: slots with a change this connection will not carry
    timed        \* history: slots ever set with a time-to-live

conVars == <<link, request, response, stream, applying, connects>>
hist == <<last, answered, has, missed, timed>>
vars == <<pri, rep, now, queue, conVars, hist>>

Nothing == [type |-> "none"]

Response ==
         {Nothing}
    \cup [type : {"snapshot"}, snap : Snapshot]
    \cup [type : {"changes"}, changes : Seq(Change)]

TypeOK ==
    /\ pri \in Store /\ rep \in Store
    /\ now \in Nat
    /\ queue \in Seq(Change)
    /\ link \in {"down", "requested", "answered", "registered", "closed"}
    /\ request \in Nat
    /\ response \in Response
    /\ stream \in Seq(Change) /\ applying \in Seq(Change)
    /\ connects \in Nat
    /\ last \in [Slots -> Nat] /\ answered \in [Slots -> Nat] /\ has \in [Slots -> Nat]
    /\ missed \subseteq Slots /\ timed \subseteq Slots

\* Services have created the primary's buckets; the replica starts empty.
Init ==
    /\ pri = [EmptyStore EXCEPT !.buckets = Buckets]
    /\ rep = EmptyStore
    /\ now = 1
    /\ queue = <<>>
    /\ link = "down" /\ request = 0 /\ connects = 0
    /\ response = Nothing /\ stream = <<>> /\ applying = <<>>
    /\ last = [s \in Slots |-> 0] /\ answered = last /\ has = last
    /\ missed = {} /\ timed = {}

-----------------------------------------------------------------------------
(* The primary's store, and its broadcaster                                *)

\* A commit and its notification.  A full channel loses the change.
CommitPrimary(store, change) ==
    /\ pri.lastID < MaxChanges
    /\ pri' = store
    /\ last' = [last EXCEPT ![change.slot] = change.id]
    /\ IF Len(queue) < SubCap
       THEN queue' = Append(queue, change) /\ UNCHANGED missed
       ELSE missed' = missed \cup {change.slot} /\ UNCHANGED queue
    /\ UNCHANGED <<rep, now, conVars, answered, has>>

Set(slot, value) ==
    LET c == SetChange(pri, slot, value, now) IN
    /\ CommitPrimary(SetInternal(pri, c, 0), c)
    /\ UNCHANGED timed

SetWithTTL(slot, value, ttl) ==
    LET c == SetChange(pri, slot, value, now) IN
    /\ CommitPrimary(SetInternal(pri, c, now + ttl), c)
    /\ timed' = timed \cup {slot}

Delete(slot) ==
    LET c == DeleteChange(pri, slot, now) IN
    /\ pri.rows[slot] # NoRow
    /\ CommitPrimary(DeleteRow(pri, c), c)
    /\ UNCHANGED timed

Cleanup ==
    /\ \E rowsGo, logGo \in BOOLEAN :
           pri' = CleanupWith(pri, now, Retention, rowsGo, logGo)
    /\ UNCHANGED <<rep, now, queue, conVars, hist>>

\* broadcastChanges: the oldest change goes to the connection if it is
\* registered; else nothing keeps it.
BroadcastChange ==
    /\ queue # <<>>
    /\ queue' = Tail(queue)
    /\ IF link = "registered"
       THEN /\ stream' = Append(stream, Head(queue))
            /\ UNCHANGED missed
       ELSE /\ missed' = IF link = "answered" /\ Head(queue).id > answered[Head(queue).slot]
                         THEN missed \cup {Head(queue).slot} ELSE missed
            /\ UNCHANGED stream
    /\ UNCHANGED <<pri, rep, now, link, request, response, applying, connects,
                   last, answered, has, timed>>

-----------------------------------------------------------------------------
(* handleReplica                                                           *)

\* ORDER BY version: the changes as a list.
InVersionOrder(changes) ==
    {q \in [1..Cardinality(changes) -> changes] :
        /\ \A c \in changes : \E i \in DOMAIN q : q[i] = c
        /\ \A i, j \in DOMAIN q : i < j => q[i].version <= q[j].version}

\* The response accounts for everything committed so far, except for changes
\* not in it that the replica lacks (of slots skipped), and except where an
\* older change of a slot is still to be broadcast after a newer one was lost.
Answer(message, skipped) ==
    /\ link = "requested"
    /\ response' = message
    /\ link' = "answered"
    /\ answered' = last
    /\ missed' = (missed \cap {queue[i].slot : i \in DOMAIN queue}) \cup skipped
    /\ UNCHANGED <<pri, rep, now, queue, request, stream, applying, connects, last, has, timed>>

SendSnapshot ==
    /\ request = 0
    /\ Answer([type |-> "snapshot", snap |-> SnapshotOf(pri)], {})

SendChanges ==
    LET changes == GetChangesSince(pri, request)
        skipped == {s \in Slots : /\ has[s] # last[s]
                                   /\ \A c \in changes : c.slot = s => c.id # last[s]}
    IN  /\ request # 0
        /\ \E list \in InVersionOrder(changes) :
               Answer([type |-> "changes", changes |-> list], skipped)

\* Mutant of RegisterReplica: only if nothing was committed since the response.
RegisterReplica_IfCurrent ==
    /\ link = "answered"
    /\ answered = last
    /\ link' = "registered"
    /\ UNCHANGED <<pri, rep, now, queue, request, response, stream, applying, connects, hist>>

RegisterReplica ==
    /\ link = "answered"
    /\ link' = "registered"
    /\ UNCHANGED <<pri, rep, now, queue, request, response, stream, applying, connects, hist>>

\* The read deadline has passed: the primary forgets and closes the connection.
ReadDeadline ==
    /\ link = "registered"
    /\ link' = "closed"
    /\ UNCHANGED <<pri, rep, now, queue, request, response, stream, applying, connects, hist>>

-----------------------------------------------------------------------------
(* The replica                                                             *)

ConnectToPrimary ==
    /\ link = "down"
    /\ applying = <<>>
    /\ connects < MaxConnects
    /\ connects' = connects + 1
    /\ link' = "requested"
    /\ request' = rep.version
    /\ UNCHANGED <<pri, rep, now, queue, response, stream, applying, hist>>

\* Mutant of ApplyChange: an update of a slot that is there is taken for a repeat.
ApplyChange_InsertOnly(st, c) ==
    CASE c.kind = "insert" ->
            SetInternal(st, SetChange(st, c.slot, c.value, now), 0)
      [] c.kind = "delete" /\ st.rows[c.slot] # NoRow ->
            DeleteRow(st, DeleteChange(st, c.slot, now))
      [] OTHER -> st

\* applyChange: Set without expiry, or Delete, whose ErrNotFound is ignored.
ApplyChange(st, c) ==
    CASE c.kind \in {"insert", "update"} ->
            SetInternal(st, SetChange(st, c.slot, c.value, now), 0)
      [] c.kind = "delete" /\ st.rows[c.slot] # NoRow ->
            DeleteRow(st, DeleteChange(st, c.slot, now))
      [] OTHER -> st

Apply(c) ==
    /\ rep' = ApplyChange(rep, c)
    /\ has' = [has EXCEPT ![c.slot] = c.id]

\* connectToPrimary: a snapshot replaces the store, changes are applied one by one.
ReceiveResponse ==
    /\ response # Nothing
    /\ response' = Nothing
    /\ IF response.type = "snapshot"
       THEN /\ rep' = Restored(rep, response.snap)
            /\ has' = answered
            /\ UNCHANGED applying
       ELSE /\ applying' = response.changes
            /\ UNCHANGED <<rep, has>>
    /\ UNCHANGED <<pri, now, queue, link, request, stream, connects, last, answered, missed, timed>>

\* The loop over the changes of the answer, connected or not.
ApplyNext ==
    /\ applying # <<>>
    /\ Apply(Head(applying))
    /\ applying' = Tail(applying)
    /\ UNCHANGED <<pri, now, queue, link, request, response, stream, connects,
                   last, answered, missed, timed>>

\* receiveUpdates, once the answer has been dealt with.
ReceiveUpdate ==
    /\ response = Nothing /\ applying = <<>>
    /\ stream # <<>>
    /\ Apply(Head(stream))
    /\ stream' = Tail(stream)
    /\ UNCHANGED <<pri, now, queue, link, request, response, applying, connects,
                   last, answered, missed, timed>>

\* End of file after everything sent has been read, or a broken connection,
\* which takes along what is on the wire.
LoseConnection ==
    /\ link # "down"
    /\ link' = "down"
    /\ response' = Nothing /\ stream' = <<>>
    /\ UNCHANGED <<pri, rep, now, queue, request, applying, connects, hist>>

Tick ==
    /\ now < MaxTime
    /\ now' = now + 1
    /\ UNCHANGED <<pri, rep, queue, conVars, hist>>

ReplicaNext == ConnectToPrimary \/ ReceiveResponse \/ ApplyNext \/ ReceiveUpdate

PrimaryNext == BroadcastChange \/ SendSnapshot \/ SendChanges \/ RegisterReplica

Next ==
    \/ \E slot \in Slots, v \in Values :
           Set(slot, v) \/ \E ttl \in TTLs : SetWithTTL(slot, v, ttl)
    \/ \E slot \in Slots : Delete(slot)
    \/ Cleanup
    \/ PrimaryNext
    \/ ReplicaNext
    \/ ReadDeadline
    \/ LoseConnection
    \/ Tick

Spec == Init /\ [][Next]_vars

\* The goroutines of both sides run; connections may, but need not, be lost.
FairSpec == Spec /\ WF_vars(ReplicaNext) /\ WF_vars(BroadcastChange)
                 /\ WF_vars(SendSnapshot \/ SendChanges) /\ WF_vars(RegisterReplica)

-----------------------------------------------------------------------------
(* Properties                                                              *)

\* The replica is connected, has applied the answer, and nothing is on its way.
AtRest ==
    /\ link = "registered"
    /\ response = Nothing /\ applying = <<>> /\ stream = <<>> /\ queue = <<>>

Same(s) == Get(pri, s, now) = Get(rep, s, now)

\* Replaying what is in the snapshot already, overlapping responses and
\* broadcasts, deletes of what is not there, reconnections: at rest the
\* replica has the primary's value, except for slots with a time-to-live and
\* for changes lost in one of the known ways: between response and
\* registration, in a full channel, or left out of an incremental response.
Converged == AtRest => \A s \in Slots \ (missed \cup timed) : Same(s)

\* A replica that asks is answered, registered and brought up to what was
\* broadcast, unless its connection is lost.
CatchesUp == link = "requested" ~> (AtRest \/ link \in {"closed", "down"})

\* Well typed, and equal at rest.
ReplicaAgrees == TypeOK /\ Converged
=============================================================================
