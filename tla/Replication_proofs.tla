-------------------------- MODULE Replication_proofs --------------------------
(***************************************************************************)
(* Proofs about Replication, for every set of buckets, keys and values,    *)
(* every capacity of the broadcaster's channel and every bound.            *)
(***************************************************************************)
EXTENDS Replication, FiniteSetTheorems, TLAPS

\* What a row says to a reader who finds it alive.
Content(row) == IF row = NoRow THEN NoValue ELSE row.value

Untouched(q, s) == \A i \in 1..Len(q) : q[i].slot # s

\* If q has changes of s, the last of them has the id v.
LastIs(q, s, v) ==
    \A i \in 1..Len(q) :
        (/\ q[i].slot = s
         /\ \A j \in 1..Len(q) : i < j => q[j].slot # s) => q[i].id = v

\* What the replica applies before the stream, and what it starts from.
Coming == IF response.type = "changes" THEN response.changes ELSE applying
Base(s) == IF response.type = "snapshot" THEN answered[s] ELSE has[s]

\* Starting from change b of s, the lists p and then q lead to change v.
Settles(b, p, q, s, v) ==
    /\ LastIs(q, s, v)
    /\ Untouched(q, s) => LastIs(p, s, v) /\ (Untouched(p, s) => b = v)

Elems(q) == {q[i] : i \in 1..Len(q)}

\* A change that is still to be applied somewhere, or that a query would find.
Known == pri.log \cup Elems(queue) \cup Elems(stream) \cup Elems(Coming)

\* A change not overtaken by another tells what the primary has.
Tells(c) ==
    /\ c.id <= last[c.slot]
    /\ c.kind # "delete" => c.value \in Values
    /\ c.id = last[c.slot] /\ c.slot \notin timed =>
           Content(pri.rows[c.slot]) = IF c.kind = "delete" THEN NoValue ELSE c.value

Lasting(rows) == \A s \in Slots \ timed : rows[s] # NoRow => rows[s].expires = 0

Agrees(rows, ids) ==
    \A s \in Slots \ timed :
        ids[s] = last[s] => Content(rows[s]) = Content(pri.rows[s])

Counters ==
    /\ pri.version = pri.lastID /\ pri.buckets = Buckets
    /\ \A s \in Slots : last[s] <= pri.lastID /\ has[s] <= last[s] /\ answered[s] <= last[s]

LogSound ==
    /\ IsFiniteSet(pri.log)
    /\ \A c \in pri.log :
           /\ c.version = c.id /\ c.time <= now
           /\ \E d \in pri.log : d.slot = c.slot /\ d.id = last[c.slot]
           /\ \A d \in pri.log : c.id <= d.id => c.time <= d.time

LinkSound ==
    /\ link \in {"down", "requested"} => response = Nothing /\ stream = <<>>
    /\ link = "requested" \/ response # Nothing => applying = <<>>

RowsSound ==
    /\ Lasting(pri.rows) /\ Lasting(rep.rows)
    /\ Agrees(rep.rows, has)
    /\ response.type = "snapshot" => Lasting(response.snap.rows) /\ Agrees(response.snap.rows, answered)

FlowSound ==
    \A s \in Slots \ missed :
        /\ LastIs(queue, s, last[s])
        /\ link = "answered" =>
               /\ Settles(Base(s), Coming, stream, s, answered[s])
               /\ Untouched(queue, s) => answered[s] = last[s]
        /\ link = "registered" /\ Untouched(queue, s) =>
               Settles(Base(s), Coming, stream, s, last[s])

KnownTell == \A c \in Known : Tells(c)

ReplicationInv ==
    /\ Counters
    /\ LogSound
    /\ LinkSound
    /\ KnownTell
    /\ RowsSound
    /\ FlowSound

-----------------------------------------------------------------------------
(* Lists of changes                                                        *)

\* A list of changes, taken apart.
LEMMA ListParts ==
    ASSUME NEW q \in Seq(Change)
    PROVE  /\ Len(q) \in Nat
           /\ \A i \in 1..Len(q) : q[i] \in Change
           /\ Elems(q) \subseteq Change
           /\ q # <<>> => /\ Len(q) >= 1 /\ Head(q) = q[1] /\ Head(q) \in Elems(q)
                          /\ Tail(q) \in Seq(Change) /\ Len(Tail(q)) = Len(q) - 1
                          /\ \A i \in 1..Len(Tail(q)) : Tail(q)[i] = q[i + 1]
                          /\ Elems(Tail(q)) \subseteq Elems(q)
<1>1. Len(q) \in Nat /\ \A i \in 1..Len(q) : q[i] \in Change
  OBVIOUS
<1>2. Elems(q) \subseteq Change
  BY <1>1 DEF Elems
<1>3. ASSUME q # <<>>
      PROVE  /\ Len(q) >= 1 /\ Head(q) = q[1]
             /\ Tail(q) \in Seq(Change) /\ Len(Tail(q)) = Len(q) - 1
             /\ \A i \in 1..Len(Tail(q)) : Tail(q)[i] = q[i + 1]
  BY <1>3
<1>4. ASSUME q # <<>> PROVE Head(q) \in Elems(q) /\ Elems(Tail(q)) \subseteq Elems(q)
  <2>1. 1 \in 1..Len(q)
    BY <1>1, <1>3, <1>4
  <2>2. \A i \in 1..Len(Tail(q)) : i + 1 \in 1..Len(q)
    BY <1>1, <1>3, <1>4
  <2> QED BY <2>1, <2>2, <1>3, <1>4 DEF Elems
<1> QED BY <1>1, <1>2, <1>3, <1>4

\* A list of changes with one more.
LEMMA OneMore ==
    ASSUME NEW q \in Seq(Change), NEW c \in Change
    PROVE  /\ Append(q, c) \in Seq(Change)
           /\ Elems(Append(q, c)) \subseteq Elems(q) \cup {c}
           /\ \A s : c.slot # s =>
                  /\ Untouched(Append(q, c), s) => Untouched(q, s)
                  /\ Untouched(q, s) => Untouched(Append(q, c), s)
                  /\ \A v : LastIs(q, s, v) => LastIs(Append(q, c), s, v)
           /\ ~Untouched(Append(q, c), c.slot)
           /\ LastIs(Append(q, c), c.slot, c.id)
<1> DEFINE p == Append(q, c)
<1>1. /\ p \in Seq(Change) /\ Len(q) \in Nat /\ Len(p) = Len(q) + 1 /\ p[Len(q) + 1] = c
      /\ \A i \in 1..Len(q) : p[i] = q[i]
  OBVIOUS
<1> HIDE DEF p
<1>2. \A i : i \in 1..Len(p) <=> (i \in 1..Len(q) \/ i = Len(q) + 1)
  BY <1>1
<1>3. Elems(p) \subseteq Elems(q) \cup {c}
  BY <1>1, <1>2 DEF Elems
<1>4. ASSUME NEW s, c.slot # s
      PROVE  /\ Untouched(p, s) => Untouched(q, s)
             /\ Untouched(q, s) => Untouched(p, s)
             /\ \A v : LastIs(q, s, v) => LastIs(p, s, v)
  <2>1. /\ Untouched(p, s) => Untouched(q, s)
        /\ Untouched(q, s) => Untouched(p, s)
    BY <1>1, <1>2, <1>4 DEF Untouched
  <2>2. ASSUME NEW v, LastIs(q, s, v) PROVE LastIs(p, s, v)
    BY <1>1, <1>2, <1>4, <2>2 DEF LastIs
  <2> QED BY <2>1, <2>2
<1>5. ~Untouched(p, c.slot)
  BY <1>1, <1>2 DEF Untouched
<1>6. LastIs(p, c.slot, c.id)
  <2>1. \A i \in 1..Len(q) : i < Len(q) + 1
    BY <1>1
  <2> QED BY <1>1, <1>2, <2>1 DEF LastIs
<1> QED BY <1>1, <1>3, <1>4, <1>5, <1>6 DEF p

\* A list of changes without its first.
LEMMA OneLess ==
    ASSUME NEW q \in Seq(Change), q # <<>>
    PROVE  \A s :
             /\ Untouched(q, s) => Head(q).slot # s /\ Untouched(Tail(q), s)
             /\ Head(q).slot # s /\ Untouched(Tail(q), s) => Untouched(q, s)
             /\ \A v : LastIs(q, s, v) =>
                    /\ LastIs(Tail(q), s, v)
                    /\ Head(q).slot = s /\ Untouched(Tail(q), s) => Head(q).id = v
<1> DEFINE p == Tail(q)
<1>1. /\ Len(q) \in Nat /\ Len(q) >= 1 /\ Head(q) = q[1] /\ Len(p) = Len(q) - 1
      /\ \A i \in 1..Len(p) : p[i] = q[i + 1]
  BY ListParts
<1> HIDE DEF p
<1>2. /\ 1 \in 1..Len(q)
      /\ \A i \in 1..Len(p) : i + 1 \in 1..Len(q)
      /\ \A i \in 1..Len(q) : i = 1 \/ (i - 1 \in 1..Len(p) /\ p[i - 1] = q[i])
  BY <1>1
<1> SUFFICES ASSUME NEW s
             PROVE  /\ Untouched(q, s) => Head(q).slot # s /\ Untouched(p, s)
                    /\ Head(q).slot # s /\ Untouched(p, s) => Untouched(q, s)
                    /\ \A v : LastIs(q, s, v) =>
                           /\ LastIs(p, s, v)
                           /\ Head(q).slot = s /\ Untouched(p, s) => Head(q).id = v
  BY DEF p
<1>3. Untouched(q, s) => Head(q).slot # s /\ Untouched(p, s)
  BY <1>1, <1>2 DEF Untouched
<1>4. Head(q).slot # s /\ Untouched(p, s) => Untouched(q, s)
  BY <1>1, <1>2 DEF Untouched
<1>5. ASSUME NEW v, LastIs(q, s, v) PROVE LastIs(p, s, v)
  <2> SUFFICES ASSUME NEW i \in 1..Len(p), p[i].slot = s,
                      \A j \in 1..Len(p) : i < j => p[j].slot # s
               PROVE  p[i].id = v
    BY DEF LastIs
  <2>1. i + 1 \in 1..Len(q) /\ q[i + 1] = p[i]
    BY <1>1, <1>2
  <2>2. ASSUME NEW j \in 1..Len(q), i + 1 < j PROVE q[j].slot # s
    <3>1. j - 1 \in 1..Len(p) /\ p[j - 1] = q[j] /\ i < j - 1
      BY <1>1, <1>2, <2>2
    <3> QED BY <3>1
  <2> QED BY <2>1, <2>2, <1>5 DEF LastIs
<1>6. ASSUME NEW v, LastIs(q, s, v), Head(q).slot = s, Untouched(p, s) PROVE Head(q).id = v
  <2>1. ASSUME NEW j \in 1..Len(q), 1 < j PROVE q[j].slot # s
    <3>1. j - 1 \in 1..Len(p) /\ p[j - 1] = q[j]
      BY <1>1, <1>2, <2>1
    <3> QED BY <3>1, <1>6 DEF Untouched
  <2> QED BY <1>1, <1>2, <1>6, <2>1 DEF LastIs
<1> QED BY <1>3, <1>4, <1>5, <1>6

\* The empty list.
LEMMA NoChanges ==
    /\ Elems(<<>>) = {} /\ <<>> \in Seq(Change)
    /\ \A s : Untouched(<<>>, s)
    /\ \A s, v : LastIs(<<>>, s, v)
BY DEF Elems, Untouched, LastIs

\* A change more on the stream settles its slot, and no other.
LEMMA MoreToCome ==
    ASSUME NEW p \in Seq(Change), NEW q \in Seq(Change), NEW c \in Change
    PROVE  /\ \A b, v : \A s : c.slot # s /\ Settles(b, p, q, s, v) =>
                                   Settles(b, p, Append(q, c), s, v)
           /\ \A b : Settles(b, p, Append(q, c), c.slot, c.id)
BY OneMore DEF Settles

\* A change applied is where the rest starts from.
LEMMA LessToCome ==
    ASSUME NEW p \in Seq(Change), NEW q \in Seq(Change), NEW b, NEW s, NEW v,
           Settles(b, p, q, s, v)
    PROVE  /\ p # <<>> => Settles(IF Head(p).slot = s THEN Head(p).id ELSE b, Tail(p), q, s, v)
           /\ p = <<>> /\ q # <<>> =>
                  Settles(IF Head(q).slot = s THEN Head(q).id ELSE b, p, Tail(q), s, v)
<1>1. ASSUME p # <<>>
      PROVE  Settles(IF Head(p).slot = s THEN Head(p).id ELSE b, Tail(p), q, s, v)
  <2>1. /\ Untouched(p, s) => Head(p).slot # s /\ Untouched(Tail(p), s)
        /\ Head(p).slot # s /\ Untouched(Tail(p), s) => Untouched(p, s)
        /\ LastIs(p, s, v) =>
              /\ LastIs(Tail(p), s, v)
              /\ Head(p).slot = s /\ Untouched(Tail(p), s) => Head(p).id = v
    BY <1>1, OneLess
  <2> QED BY <2>1 DEF Settles
<1>2. ASSUME p = <<>>, q # <<>>
      PROVE  Settles(IF Head(q).slot = s THEN Head(q).id ELSE b, p, Tail(q), s, v)
  <2>1. /\ Untouched(q, s) => Head(q).slot # s /\ Untouched(Tail(q), s)
        /\ Head(q).slot # s /\ Untouched(Tail(q), s) => Untouched(q, s)
        /\ LastIs(q, s, v) =>
              /\ LastIs(Tail(q), s, v)
              /\ Head(q).slot = s /\ Untouched(Tail(q), s) => Head(q).id = v
    BY <1>2, OneLess
  <2> QED BY <1>2, <2>1, NoChanges DEF Settles
<1> QED BY <1>1, <1>2

-----------------------------------------------------------------------------
(* The two stores                                                          *)

\* A committed transaction: the slot has the new row, the log the change.
LEMMA Committed ==
    ASSUME NEW st \in Store, NEW c \in Change, NEW row \in Row \cup {NoRow}
    PROVE  /\ Commit(st, c, row) \in Store
           /\ Commit(st, c, row).buckets = st.buckets
           /\ Commit(st, c, row).log = st.log \cup {c}
           /\ Commit(st, c, row).lastID = c.id
           /\ Commit(st, c, row).version = c.version
           /\ Commit(st, c, row).rows[c.slot] = row
           /\ \A s \in Slots \ {c.slot} : Commit(st, c, row).rows[s] = st.rows[s]
<1>1. c.slot \in Slots /\ c.id \in Nat /\ c.version \in Nat
  BY DEF Change
<1> QED BY <1>1 DEF Commit, Store

\* The changes that writes build.
LEMMA NewChange ==
    ASSUME NEW st \in Store, NEW slot \in Slots, NEW t \in Nat,
           NEW value \in Values \cup {NoValue},
           NEW kind \in {"insert", "update", "delete"}
    PROVE  LET c == NextChange(st, slot, value, kind, t)
           IN  /\ c \in Change /\ c.slot = slot /\ c.value = value /\ c.kind = kind
               /\ c.id = st.lastID + 1 /\ c.version = st.version + 1 /\ c.time = t
BY DEF NextChange, Change, Store

LEMMA NewSet ==
    ASSUME NEW st \in Store, NEW slot \in Slots, NEW t \in Nat, NEW value \in Values
    PROVE  LET c == SetChange(st, slot, value, t)
           IN  /\ c \in Change /\ c.slot = slot /\ c.value = value /\ c.kind # "delete"
               /\ c.id = st.lastID + 1 /\ c.version = st.version + 1 /\ c.time = t
<1> DEFINE kind == IF st.rows[slot] = NoRow THEN "insert" ELSE "update"
<1>1. kind \in {"insert", "update", "delete"} /\ kind # "delete"
  OBVIOUS
<1>2. SetChange(st, slot, value, t) = NextChange(st, slot, value, kind, t)
  BY DEF SetChange
<1> HIDE DEF kind
<1> QED BY <1>1, <1>2, NewChange

LEMMA NewDelete ==
    ASSUME NEW st \in Store, NEW slot \in Slots, NEW t \in Nat
    PROVE  LET c == DeleteChange(st, slot, t)
           IN  /\ c \in Change /\ c.slot = slot /\ c.kind = "delete"
               /\ c.id = st.lastID + 1 /\ c.version = st.version + 1 /\ c.time = t
BY NewChange DEF DeleteChange

\* What the replica does with a change: the slot has its value, without an end,
\* or no row if it was deleted; other slots stay.
LEMMA Applied ==
    ASSUME TypeOK, NEW c \in Change, c.kind # "delete" => c.value \in Values
    PROVE  /\ ApplyChange(rep, c) \in Store
           /\ \A s \in Slots \ {c.slot} : ApplyChange(rep, c).rows[s] = rep.rows[s]
           /\ Content(ApplyChange(rep, c).rows[c.slot]) =
                  IF c.kind = "delete" THEN NoValue ELSE c.value
           /\ ApplyChange(rep, c).rows[c.slot] # NoRow =>
                  ApplyChange(rep, c).rows[c.slot].expires = 0
<1>0. /\ rep \in Store /\ now \in Nat /\ c.slot \in Slots
      /\ c.kind \in {"insert", "update", "delete"}
  BY DEF TypeOK, Change
<1>1. CASE c.kind # "delete"
  <2> DEFINE d == SetChange(rep, c.slot, c.value, now)
             row == [value |-> d.value, version |-> d.version, expires |-> 0]
  <2>1. c.value \in Values /\ c.kind \in {"insert", "update"}
    BY <1>0, <1>1
  <2>2. d \in Change /\ d.slot = c.slot /\ d.value = c.value
    BY <1>0, <2>1, NewSet
  <2>3. ApplyChange(rep, c) = Commit(rep, d, row)
    BY <2>1 DEF ApplyChange, SetInternal
  <2>4. d.version \in Nat
    BY <2>2 DEF Change
  <2> HIDE DEF d
  <2>5. row \in Row /\ row # NoRow /\ row.value = c.value /\ row.expires = 0
    BY <2>1, <2>2, <2>4, NoRowAssumption DEF Row
  <2> HIDE DEF row
  <2>6. Content(row) = c.value
    BY <2>5 DEF Content
  <2>7. /\ Commit(rep, d, row) \in Store
        /\ Commit(rep, d, row).rows[c.slot] = row
        /\ \A s \in Slots \ {c.slot} : Commit(rep, d, row).rows[s] = rep.rows[s]
    BY <1>0, <2>2, <2>5, Committed
  <2> QED BY <1>1, <2>3, <2>5, <2>6, <2>7
<1>2. CASE c.kind = "delete" /\ rep.rows[c.slot] # NoRow
  <2> DEFINE d == DeleteChange(rep, c.slot, now)
  <2>1. d \in Change /\ d.slot = c.slot
    BY <1>0, NewDelete
  <2>2. ApplyChange(rep, c) = Commit(rep, d, NoRow)
    BY <1>2 DEF ApplyChange, DeleteRow
  <2> HIDE DEF d
  <2>3. /\ Commit(rep, d, NoRow) \in Store
        /\ Commit(rep, d, NoRow).rows[c.slot] = NoRow
        /\ \A s \in Slots \ {c.slot} : Commit(rep, d, NoRow).rows[s] = rep.rows[s]
    BY <1>0, <2>1, Committed
  <2> QED BY <1>2, <2>2, <2>3 DEF Content
<1>3. CASE c.kind = "delete" /\ rep.rows[c.slot] = NoRow
  <2>1. ApplyChange(rep, c) = rep
    BY <1>3 DEF ApplyChange
  <2> QED BY <1>0, <1>3, <2>1 DEF Content
<1> QED BY <1>1, <1>2, <1>3

\* What cleanup leaves: rows without an end, and of the log what is young enough.
LEMMA Cleaned ==
    ASSUME NEW st \in Store, NEW t \in Nat, NEW r \in Nat, NEW rowsGo \in BOOLEAN,
           NEW logGo \in BOOLEAN
    PROVE  LET new == CleanupWith(st, t, r, rowsGo, logGo)
           IN  /\ new \in Store
               /\ new.buckets = st.buckets /\ new.lastID = st.lastID
               /\ new.version = st.version
               /\ new.log = st.log \/ new.log = {c \in st.log : c.time + r >= t}
               /\ \A s \in Slots :
                     /\ new.rows[s] \in {NoRow, st.rows[s]}
                     /\ st.rows[s] # NoRow /\ st.rows[s].expires = 0 =>
                            new.rows[s] = st.rows[s]
<1> DEFINE new == CleanupWith(st, t, r, rowsGo, logGo)
<1>1. /\ new \in Store
      /\ new.buckets = st.buckets /\ new.lastID = st.lastID /\ new.version = st.version
  BY DEF CleanupWith, Store
<1>2. new.log = st.log \/ new.log = {c \in st.log : c.time + r >= t}
  BY DEF CleanupWith, Store
<1>3. ASSUME NEW s \in Slots
      PROVE  /\ new.rows[s] \in {NoRow, st.rows[s]}
             /\ st.rows[s] # NoRow /\ st.rows[s].expires = 0 => new.rows[s] = st.rows[s]
  BY DEF CleanupWith, Store
<1> HIDE DEF new
<1>4. /\ new \in Store
      /\ new.buckets = st.buckets /\ new.lastID = st.lastID /\ new.version = st.version
      /\ new.log = st.log \/ new.log = {c \in st.log : c.time + r >= t}
      /\ \A s \in Slots :
            /\ new.rows[s] \in {NoRow, st.rows[s]}
            /\ st.rows[s] # NoRow /\ st.rows[s].expires = 0 => new.rows[s] = st.rows[s]
  BY <1>1, <1>2, <1>3
<1> QED BY <1>4 DEF new

-----------------------------------------------------------------------------
(* Types                                                                   *)

\* What TypeOK says of the parts the steps read.
LEMMA Types ==
    ASSUME TypeOK
    PROVE  /\ pri \in Store /\ rep \in Store /\ now \in Nat
           /\ pri.lastID \in Nat /\ pri.version \in Nat /\ pri.log \subseteq Change
           /\ \A s \in Slots : /\ pri.rows[s] \in Row \cup {NoRow}
                               /\ rep.rows[s] \in Row \cup {NoRow}
                               /\ last[s] \in Nat /\ answered[s] \in Nat /\ has[s] \in Nat
           /\ queue \in Seq(Change) /\ stream \in Seq(Change) /\ applying \in Seq(Change)
           /\ Coming \in Seq(Change)
           /\ Known \subseteq Change
           /\ \A c \in Change : /\ c.id \in Nat /\ c.version \in Nat /\ c.time \in Nat
                                /\ c.slot \in Slots
           /\ response = Nothing \/ response.type \in {"snapshot", "changes"}
<1>1. /\ pri \in Store /\ rep \in Store /\ now \in Nat
      /\ pri.lastID \in Nat /\ pri.version \in Nat /\ pri.log \subseteq Change
      /\ queue \in Seq(Change) /\ stream \in Seq(Change) /\ applying \in Seq(Change)
  BY DEF TypeOK, Store
<1>2. \A s \in Slots : /\ pri.rows[s] \in Row \cup {NoRow}
                       /\ rep.rows[s] \in Row \cup {NoRow}
                       /\ last[s] \in Nat /\ answered[s] \in Nat /\ has[s] \in Nat
  BY DEF TypeOK, Store
<1>3. \A c \in Change : /\ c.id \in Nat /\ c.version \in Nat /\ c.time \in Nat
                        /\ c.slot \in Slots
  BY DEF Change
<1>4. response = Nothing \/ response.type \in {"snapshot", "changes"}
  BY DEF TypeOK, Response
<1>5. response.type = "changes" => response.changes \in Seq(Change)
  BY DEF TypeOK, Response, Nothing
<1>6. Coming \in Seq(Change)
  BY <1>1, <1>5 DEF Coming
<1>7. Known \subseteq Change
  BY <1>1, <1>6, ListParts DEF Known
<1> QED BY <1>1, <1>2, <1>3, <1>4, <1>6, <1>7

\* With no answer on its way, what comes first is what is being applied.
LEMMA NoAnswer ==
    /\ response = Nothing => Coming = applying /\ \A s : Base(s) = has[s]
    /\ LinkSound /\ applying # <<>> => response = Nothing
BY DEF Nothing, Coming, Base, LinkSound

\* A commit on the primary, its notification and the history of losses.
LEMMA CommitTypes ==
    ASSUME TypeOK, NEW c \in Change, NEW row \in Row \cup {NoRow},
           CommitPrimary(Commit(pri, c, row), c), timed' \subseteq Slots
    PROVE  TypeOK'
<1>1. pri' \in Store
  BY Types, Committed DEF CommitPrimary
<1>2. last' \in [Slots -> Nat] /\ missed' \subseteq Slots
  BY Types DEF CommitPrimary, TypeOK
<1>3. queue' \in Seq(Change)
  <2>1. queue \in Seq(Change) /\ Append(queue, c) \in Seq(Change)
    BY Types, OneMore
  <2> QED BY <2>1 DEF CommitPrimary
<1> QED BY <1>1, <1>2, <1>3 DEF CommitPrimary, conVars, TypeOK

\* Applying a change keeps the replica's store and history well typed.
LEMMA ApplyTypes ==
    ASSUME TypeOK, NEW c \in Change, c.kind # "delete" => c.value \in Values, Apply(c)
    PROVE  rep' \in Store /\ has' \in [Slots -> Nat]
<1>1. c.id \in Nat /\ c.slot \in Slots
  BY DEF Change
<1> QED BY <1>1, Applied DEF Apply, TypeOK

\* The answer: its changes are a list.
LEMMA ListType ==
    ASSUME NEW S \in SUBSET Change, IsFiniteSet(S), NEW q \in InVersionOrder(S)
    PROVE  q \in Seq(Change) /\ Elems(q) = S /\ Len(q) \in Nat
<1>1. Cardinality(S) \in Nat
  BY FS_CardinalityType
<1>2. q \in [1..Cardinality(S) -> S]
  BY DEF InVersionOrder
<1>3. q \in Seq(S)
  BY <1>1, <1>2
<1>4. Len(q) = Cardinality(S) /\ DOMAIN q = 1..Len(q)
  BY <1>1, <1>2, <1>3
<1>5. q \in Seq(Change)
  BY <1>1, <1>2, <1>4
<1>6. Elems(q) = S
  BY <1>2, <1>4 DEF InVersionOrder, Elems
<1> QED BY <1>1, <1>4, <1>5, <1>6

\* GetChangesSince returns changes of the log.
LEMMA Since ==
    ASSUME TypeOK, LogSound, NEW v \in Nat
    PROVE  /\ GetChangesSince(pri, v) \subseteq pri.log
           /\ GetChangesSince(pri, v) \in SUBSET Change
           /\ IsFiniteSet(GetChangesSince(pri, v))
<1>1. GetChangesSince(pri, v) \subseteq pri.log
  BY DEF GetChangesSince
<1> QED BY <1>1, Types, FS_Subset DEF LogSound

\* Types survive every step; only changes with a value are set on the replica.
LEMMA TypesKept ==
    ASSUME TypeOK, LogSound, LinkSound, KnownTell, [Next]_vars
    PROVE  TypeOK'
<1>1. ASSUME NEW slot \in Slots, NEW v \in Values, NEW expires \in Nat,
             CommitPrimary(SetInternal(pri, SetChange(pri, slot, v, now), expires),
                           SetChange(pri, slot, v, now)),
             timed' \subseteq Slots
      PROVE  TypeOK'
  <2> DEFINE c == SetChange(pri, slot, v, now)
             row == [value |-> c.value, version |-> c.version, expires |-> expires]
  <2>1. c \in Change /\ c.value = v /\ c.version \in Nat
    BY NewSet, Types DEF Change
  <2>2. CommitPrimary(Commit(pri, c, row), c)
    BY <1>1 DEF SetInternal
  <2> HIDE DEF c
  <2>3. row \in Row
    BY <2>1 DEF Row
  <2> HIDE DEF row
  <2> QED BY <1>1, <2>1, <2>2, <2>3, CommitTypes
<1>2. ASSUME NEW slot \in Slots, NEW v \in Values, Set(slot, v) PROVE TypeOK'
  BY <1>1, <1>2 DEF Set, TypeOK
<1>3. ASSUME NEW slot \in Slots, NEW v \in Values, NEW ttl \in TTLs, SetWithTTL(slot, v, ttl)
      PROVE  TypeOK'
  <2>1. now + ttl \in Nat
    BY ReplicationAssumption DEF TypeOK
  <2>2. timed' \subseteq Slots
    BY <1>3 DEF SetWithTTL, TypeOK
  <2> QED BY <1>1, <1>3, <2>1, <2>2 DEF SetWithTTL
<1>4. ASSUME NEW slot \in Slots, Delete(slot) PROVE TypeOK'
  <2>1. DeleteChange(pri, slot, now) \in Change
    BY NewDelete, Types
  <2>2. timed' \subseteq Slots
    BY <1>4 DEF Delete, TypeOK
  <2> QED BY <1>4, <2>1, <2>2, CommitTypes DEF Delete, DeleteRow
<1>5. CASE Cleanup
  <2>1. PICK rowsGo, logGo \in BOOLEAN :
            pri' = CleanupWith(pri, now, Retention, rowsGo, logGo)
    BY <1>5 DEF Cleanup
  <2>2. pri' \in Store
    BY <2>1, Types, Cleaned, ReplicationAssumption
  <2> QED BY <1>5, <2>2 DEF Cleanup, conVars, hist, TypeOK
<1>6. CASE BroadcastChange
  <2>1. queue # <<>> /\ Tail(queue) \in Seq(Change) /\ Head(queue) \in Change
    BY <1>6, Types, ListParts DEF BroadcastChange
  <2>2. stream' \in Seq(Change)
    <3>1. stream \in Seq(Change) /\ Append(stream, Head(queue)) \in Seq(Change)
      BY <2>1, Types, OneMore
    <3> QED BY <1>6, <3>1 DEF BroadcastChange
  <2>3. missed' \subseteq Slots
    BY <1>6, <2>1, Types DEF BroadcastChange, TypeOK
  <2> QED BY <1>6, <2>1, <2>2, <2>3 DEF BroadcastChange, TypeOK
<1>7. ASSUME NEW message \in Response, NEW skipped \in SUBSET Slots, Answer(message, skipped)
      PROVE  TypeOK'
  BY <1>7 DEF Answer, TypeOK
<1>8. CASE SendSnapshot
  <2>1. SnapshotOf(pri) \in Snapshot
    BY Types DEF SnapshotOf, Snapshot, Store
  <2>2. [type |-> "snapshot", snap |-> SnapshotOf(pri)] \in Response
    BY <2>1 DEF Response
  <2> QED BY <1>7, <1>8, <2>2 DEF SendSnapshot
<1>9. CASE SendChanges
  <2> DEFINE changes == GetChangesSince(pri, request)
             skipped == {s \in Slots : /\ has[s] # last[s]
                                  /\ \A c \in changes : c.slot = s => c.id # last[s]}
  <2>1. PICK list \in InVersionOrder(changes) :
            Answer([type |-> "changes", changes |-> list], skipped)
    BY <1>9 DEF SendChanges
  <2>2. changes \in SUBSET Change /\ IsFiniteSet(changes)
    BY Since DEF TypeOK
  <2> HIDE DEF changes
  <2>3. list \in Seq(Change)
    BY <2>2, ListType
  <2>4. [type |-> "changes", changes |-> list] \in Response
    BY <2>3 DEF Response
  <2> QED BY <1>7, <2>1, <2>4
<1>10. CASE RegisterReplica \/ ReadDeadline \/ Tick
  BY <1>10 DEF RegisterReplica, ReadDeadline, Tick, conVars, hist, TypeOK
<1>11. CASE ConnectToPrimary
  BY <1>11 DEF ConnectToPrimary, hist, TypeOK, Store
<1>12. CASE ReceiveResponse
  <2>1. CASE response.type = "snapshot"
    <3>1. response.snap \in Snapshot
      BY <1>12, <2>1 DEF ReceiveResponse, TypeOK, Response, Nothing
    <3>2. Restored(rep, response.snap) \in Store
      BY <3>1, Types DEF Restored, Store, Snapshot
    <3> QED BY <1>12, <2>1, <3>2 DEF ReceiveResponse, TypeOK, Response
  <2>2. CASE response.type # "snapshot"
    <3>1. response.changes \in Seq(Change)
      BY <1>12, <2>2 DEF ReceiveResponse, TypeOK, Response, Nothing
    <3> QED BY <1>12, <2>2, <3>1 DEF ReceiveResponse, TypeOK, Response
  <2> QED BY <2>1, <2>2
<1>13. CASE ApplyNext
  <2>1. /\ applying # <<>> /\ Head(applying) \in Elems(applying)
        /\ Head(applying) \in Change /\ Tail(applying) \in Seq(Change)
    BY <1>13, Types, ListParts DEF ApplyNext
  <2>2. Head(applying).kind # "delete" => Head(applying).value \in Values
    BY <1>13, <2>1, NoAnswer DEF KnownTell, Known, Tells
  <2>3. rep' \in Store /\ has' \in [Slots -> Nat]
    BY <1>13, <2>1, <2>2, ApplyTypes DEF ApplyNext
  <2> QED BY <1>13, <2>1, <2>3 DEF ApplyNext, TypeOK
<1>14. CASE ReceiveUpdate
  <2>1. /\ stream # <<>> /\ Head(stream) \in Elems(stream)
        /\ Head(stream) \in Change /\ Tail(stream) \in Seq(Change)
    BY <1>14, Types, ListParts DEF ReceiveUpdate
  <2>2. Head(stream).kind # "delete" => Head(stream).value \in Values
    BY <2>1 DEF KnownTell, Known, Tells
  <2>3. rep' \in Store /\ has' \in [Slots -> Nat]
    BY <1>14, <2>1, <2>2, ApplyTypes DEF ReceiveUpdate
  <2> QED BY <1>14, <2>1, <2>3 DEF ReceiveUpdate, TypeOK
<1>15. CASE LoseConnection
  BY <1>15 DEF LoseConnection, hist, TypeOK, Response
<1>16. CASE UNCHANGED vars
  BY <1>16 DEF vars, conVars, hist, TypeOK
<1> QED BY <1>2, <1>3, <1>4, <1>5, <1>6, <1>8, <1>9, <1>10, <1>11, <1>12, <1>13, <1>14,
           <1>15, <1>16 DEF Next, PrimaryNext, ReplicaNext

-----------------------------------------------------------------------------
(* Steps                                                                   *)

\* A commit.  Its change overtakes all others of its slot; its notification
\* waits in the queue or the slot counts as missed.
LEMMA CommitKeeps ==
    ASSUME TypeOK, ReplicationInv,
           NEW c \in Change, NEW row \in Row \cup {NoRow},
           c.id = pri.lastID + 1, c.version = pri.version + 1, c.time = now,
           c.kind # "delete" => c.value \in Values,
           Content(row) = IF c.kind = "delete" THEN NoValue ELSE c.value,
           CommitPrimary(Commit(pri, c, row), c),
           timed \subseteq timed', row # NoRow /\ row.expires # 0 => c.slot \in timed'
    PROVE  ReplicationInv'
<1>1. /\ pri'.buckets = pri.buckets /\ pri'.log = pri.log \cup {c}
      /\ pri'.lastID = c.id /\ pri'.version = c.version /\ pri'.rows[c.slot] = row
      /\ \A s \in Slots \ {c.slot} : pri'.rows[s] = pri.rows[s]
  BY Types, Committed DEF CommitPrimary
<1>2. /\ c.slot \in Slots /\ c.id \in Nat /\ c.time \in Nat
      /\ last'[c.slot] = c.id
      /\ \A s \in Slots \ {c.slot} : last'[s] = last[s]
  BY DEF CommitPrimary, TypeOK, Change
<1>3. /\ rep' = rep /\ now' = now /\ answered' = answered /\ has' = has
      /\ link' = link /\ response' = response /\ stream' = stream /\ applying' = applying
      /\ Coming' = Coming
  BY DEF CommitPrimary, conVars, Coming
<1>4. \A s \in Slots : /\ last[s] \in Nat /\ answered[s] \in Nat /\ has[s] \in Nat
                       /\ last[s] < c.id /\ answered[s] < c.id /\ has[s] < c.id
  BY Types DEF ReplicationInv, Counters
<1>5. \A d \in Known : d \in Change /\ d.slot \in Slots /\ d.id \in Nat /\ Tells(d) /\ d.id < c.id
  BY <1>4, Types DEF ReplicationInv, KnownTell, Tells
<1>6. Counters'
  BY <1>1, <1>2, <1>3, <1>4 DEF ReplicationInv, Counters
<1>7. Known' \subseteq Known \cup {c}
  <2>1. Elems(queue') \subseteq Elems(queue) \cup {c}
    <3>1. Elems(Append(queue, c)) \subseteq Elems(queue) \cup {c}
      BY Types, OneMore
    <3> QED BY <3>1 DEF CommitPrimary
  <2> QED BY <1>1, <1>3, <2>1 DEF Known
<1>8. KnownTell'
  <2>1. ASSUME NEW d \in Known PROVE Tells(d)'
    <3>1. CASE d.slot = c.slot
      BY <1>2, <1>5, <3>1 DEF Tells
    <3>2. CASE d.slot # c.slot
      BY <1>1, <1>2, <1>5, <3>2 DEF Tells
    <3> QED BY <3>1, <3>2
  <2>2. Tells(c)'
    BY <1>1, <1>2 DEF Tells
  <2> QED BY <1>7, <2>1, <2>2 DEF KnownTell
<1>9. LogSound'
  <2>1. IsFiniteSet(pri'.log)
    BY <1>1, FS_AddElement DEF ReplicationInv, LogSound
  <2>2. pri.log \subseteq Known
    BY DEF Known
  <2>3. ASSUME NEW d \in pri'.log
        PROVE  /\ d.version = d.id /\ d.time <= now'
               /\ \E e \in pri'.log : e.slot = d.slot /\ e.id = last'[d.slot]
    <3>1. CASE d = c
      BY <1>1, <1>2, <1>3, <3>1 DEF ReplicationInv, Counters
    <3>2. CASE d \in pri.log
      <4>1. d.version = d.id /\ d.time <= now
        BY <3>2 DEF ReplicationInv, LogSound
      <4>2. PICK e \in pri.log : e.slot = d.slot /\ e.id = last[d.slot]
        BY <3>2 DEF ReplicationInv, LogSound
      <4>3. CASE d.slot = c.slot
        BY <1>1, <1>2, <1>3, <4>1, <4>3
      <4>4. CASE d.slot # c.slot
        BY <1>1, <1>2, <1>3, <1>5, <2>2, <3>2, <4>1, <4>2, <4>4
      <4> QED BY <4>3, <4>4
    <3> QED BY <1>1, <3>1, <3>2
  <2>4. ASSUME NEW d \in pri'.log, NEW e \in pri'.log, d.id <= e.id PROVE d.time <= e.time
    <3>1. CASE d \in pri.log /\ e \in pri.log
      BY <2>4, <3>1 DEF ReplicationInv, LogSound
    <3>2. CASE d \in pri.log /\ e = c
      BY <3>2 DEF ReplicationInv, LogSound
    <3>3. CASE d = c /\ e = c
      BY <1>2, <3>3
    <3>4. CASE d = c /\ e \in pri.log
      BY <1>2, <1>5, <2>2, <2>4, <3>4
    <3> QED BY <1>1, <3>1, <3>2, <3>3, <3>4
  <2> QED BY <2>1, <2>3, <2>4 DEF LogSound
<1>10. LinkSound'
  BY <1>3 DEF ReplicationInv, LinkSound
<1>11. RowsSound'
  <2>1. timed \subseteq timed' /\ \A s \in Slots : s \notin timed' => s \notin timed
    OBVIOUS
  <2>2. (Lasting(pri.rows))'
    BY <1>1, <1>2, <2>1 DEF ReplicationInv, RowsSound, Lasting
  <2>3. ASSUME NEW rows, Lasting(rows)
        PROVE  \A s \in Slots \ timed' : rows[s] # NoRow => rows[s].expires = 0
    BY <2>1, <2>3 DEF Lasting
  <2>4. ASSUME NEW rows, NEW ids, Agrees(rows, ids), \A s \in Slots : ids[s] < c.id, ids[c.slot] \in Nat
        PROVE  \A s \in Slots \ timed' :
                   ids[s] = last'[s] => Content(rows[s]) = Content(pri'.rows[s])
    <3> SUFFICES ASSUME NEW s \in Slots \ timed', ids[s] = last'[s]
                 PROVE  Content(rows[s]) = Content(pri'.rows[s])
      OBVIOUS
    <3>1. s # c.slot
      BY <1>2, <2>4
    <3> QED BY <1>1, <1>2, <2>1, <2>4, <3>1 DEF Agrees
  <2>5. (Lasting(rep.rows))'
    BY <1>3, <2>3 DEF ReplicationInv, RowsSound, Lasting
  <2>6. (Agrees(rep.rows, has))'
    BY <1>2, <1>3, <1>4, <2>4 DEF ReplicationInv, RowsSound, Agrees
  <2>7. (response.type = "snapshot" =>
            Lasting(response.snap.rows) /\ Agrees(response.snap.rows, answered))'
    BY <1>2, <1>3, <1>4, <2>3, <2>4 DEF ReplicationInv, RowsSound, Agrees, Lasting
  <2> QED BY <2>2, <2>5, <2>6, <2>7 DEF RowsSound
<1>12. FlowSound'
  <2> SUFFICES ASSUME NEW s \in Slots \ missed'
               PROVE  /\ LastIs(queue', s, last'[s])
                      /\ link' = "answered" =>
                             /\ Settles(Base(s)', Coming', stream', s, answered'[s])
                             /\ Untouched(queue', s) => answered'[s] = last'[s]
                      /\ link' = "registered" /\ Untouched(queue', s) =>
                             Settles(Base(s)', Coming', stream', s, last'[s])
    BY DEF FlowSound
  <2>1. s \notin missed /\ Base(s)' = Base(s)
    BY <1>3 DEF CommitPrimary, Base
  <2>2. CASE s = c.slot
    <3>1. queue' = Append(queue, c)
      BY <2>2 DEF CommitPrimary
    <3>2. ~Untouched(Append(queue, c), c.slot) /\ LastIs(Append(queue, c), c.slot, c.id)
      BY Types, OneMore
    <3> QED BY <1>2, <1>3, <2>1, <2>2, <3>1, <3>2 DEF ReplicationInv, FlowSound
  <2>3. CASE s # c.slot
    <3>1. /\ Untouched(Append(queue, c), s) => Untouched(queue, s)
          /\ \A v : LastIs(queue, s, v) => LastIs(Append(queue, c), s, v)
      BY <2>3, Types, OneMore
    <3>2. /\ Untouched(queue', s) => Untouched(queue, s)
          /\ \A v : LastIs(queue, s, v) => LastIs(queue', s, v)
      BY <3>1 DEF CommitPrimary
    <3> QED BY <1>2, <1>3, <2>1, <2>3, <3>2 DEF ReplicationInv, FlowSound
  <2> QED BY <2>2, <2>3
<1> QED BY <1>6, <1>8, <1>9, <1>10, <1>11, <1>12 DEF ReplicationInv

\* Cleanup: rows with an end go, which no claim is about; of the log the older
\* part goes, so the newest change of a slot stays as long as any of the slot.
LEMMA CleanupKeeps ==
    ASSUME TypeOK, ReplicationInv, Cleanup
    PROVE  ReplicationInv'
<1>1. PICK rowsGo, logGo \in BOOLEAN : pri' = CleanupWith(pri, now, Retention, rowsGo, logGo)
  BY DEF Cleanup
<1>2. /\ pri'.buckets = pri.buckets /\ pri'.lastID = pri.lastID /\ pri'.version = pri.version
      /\ pri'.log = pri.log \/ pri'.log = {c \in pri.log : c.time + Retention >= now}
      /\ \A s \in Slots :
            /\ pri'.rows[s] \in {NoRow, pri.rows[s]}
            /\ pri.rows[s] # NoRow /\ pri.rows[s].expires = 0 => pri'.rows[s] = pri.rows[s]
  <2>1. pri \in Store /\ now \in Nat /\ Retention \in Nat
    BY Types, ReplicationAssumption
  <2> QED BY <1>1, <2>1, Cleaned
<1>3. \A s \in Slots \ timed : pri'.rows[s] = pri.rows[s]
  <2> SUFFICES ASSUME NEW s \in Slots \ timed PROVE pri'.rows[s] = pri.rows[s]
    OBVIOUS
  <2>1. pri.rows[s] # NoRow => pri.rows[s].expires = 0
    BY DEF ReplicationInv, RowsSound, Lasting
  <2> QED BY <1>2, <2>1
<1>4. /\ rep' = rep /\ now' = now /\ queue' = queue /\ last' = last /\ answered' = answered
      /\ has' = has /\ missed' = missed /\ timed' = timed
      /\ link' = link /\ response' = response /\ stream' = stream /\ applying' = applying
      /\ Coming' = Coming /\ \A s : Base(s)' = Base(s)
  BY DEF Cleanup, conVars, hist, Coming, Base
<1>5. pri'.log \subseteq pri.log /\ Known' \subseteq Known
  BY <1>2, <1>4 DEF Known
<1>6. Counters'
  BY <1>2, <1>4 DEF ReplicationInv, Counters
<1>7. KnownTell'
  <2> SUFFICES ASSUME NEW d \in Known PROVE Tells(d)'
    BY <1>5 DEF KnownTell
  <2>1. Tells(d) /\ d.slot \in Slots
    BY Types DEF ReplicationInv, KnownTell
  <2> QED BY <1>3, <1>4, <2>1 DEF Tells
<1>8. LogSound'
  <2>1. IsFiniteSet(pri'.log)
    BY <1>5, FS_Subset DEF ReplicationInv, LogSound
  <2>2. ASSUME NEW d \in pri'.log
        PROVE  \E e \in pri'.log : e.slot = d.slot /\ e.id = last[d.slot]
    <3>1. d \in pri.log /\ d \in Known /\ d \in Change
      BY <1>5, Types DEF Known
    <3>2. PICK e \in pri.log : e.slot = d.slot /\ e.id = last[d.slot]
      BY <3>1 DEF ReplicationInv, LogSound
    <3>3. d.id <= e.id
      BY <3>1, <3>2 DEF ReplicationInv, KnownTell, Tells
    <3>4. d.time <= e.time
      BY <3>1, <3>3 DEF ReplicationInv, LogSound
    <3>5. e \in Change /\ d.time \in Nat /\ e.time \in Nat /\ Retention \in Nat /\ now \in Nat
      BY <3>1, Types, ReplicationAssumption
    <3>6. e \in pri'.log
      BY <1>2, <3>4, <3>5
    <3> QED BY <3>2, <3>6
  <2> QED BY <1>4, <1>5, <2>1, <2>2 DEF ReplicationInv, LogSound
<1>9. LinkSound' /\ FlowSound'
  BY <1>4 DEF ReplicationInv, LinkSound, FlowSound
<1>10. RowsSound'
  BY <1>3, <1>4 DEF ReplicationInv, RowsSound, Lasting, Agrees
<1> QED BY <1>6, <1>7, <1>8, <1>9, <1>10 DEF ReplicationInv

\* The steps that leave the primary's store and its history alone.
LEMMA PrimaryStays ==
    ASSUME UNCHANGED <<pri, last, timed>>
    PROVE  /\ \A d : Tells(d) => Tells(d)'
           /\ \A rows : Lasting(rows) => \A s \in Slots \ timed' : rows[s] # NoRow => rows[s].expires = 0
           /\ \A rows, ids : Agrees(rows, ids) =>
                  \A s \in Slots \ timed' : ids[s] = last'[s] => Content(rows[s]) = Content(pri'.rows[s])
           /\ Lasting(pri.rows) => (Lasting(pri.rows))'
           /\ LogSound /\ now' = now => LogSound'
BY DEF Tells, Lasting, Agrees, LogSound

\* The broadcaster sends a change, or lets it go, which counts as missed
\* unless the answer accounts for it.
LEMMA BroadcastKeeps ==
    ASSUME TypeOK, ReplicationInv, BroadcastChange
    PROVE  ReplicationInv'
<1> DEFINE c == Head(queue)
<1>1. /\ queue \in Seq(Change) /\ stream \in Seq(Change) /\ Coming \in Seq(Change)
      /\ queue # <<>> /\ queue' = Tail(queue)
      /\ c \in Change /\ c \in Elems(queue) /\ Elems(Tail(queue)) \subseteq Elems(queue)
  BY Types, ListParts DEF BroadcastChange
<1>2. \A s : /\ Head(queue).slot # s /\ Untouched(Tail(queue), s) => Untouched(queue, s)
             /\ \A v : LastIs(queue, s, v) =>
                    /\ LastIs(Tail(queue), s, v)
                    /\ Head(queue).slot = s /\ Untouched(Tail(queue), s) => Head(queue).id = v
  BY <1>1, OneLess
<1>3. /\ pri' = pri /\ rep' = rep /\ now' = now /\ last' = last /\ answered' = answered
      /\ has' = has /\ timed' = timed /\ missed \subseteq missed'
      /\ link' = link /\ response' = response /\ applying' = applying
      /\ Coming' = Coming /\ \A s : Base(s)' = Base(s)
  BY DEF BroadcastChange, Coming, Base
<1>4. \/ link = "registered" /\ stream' = Append(stream, c)
      \/ /\ link # "registered" /\ stream' = stream
         /\ link = "answered" /\ c.id > answered[c.slot] => c.slot \in missed'
  BY DEF BroadcastChange
<1>5. \A s \in Slots : last[s] \in Nat /\ answered[s] \in Nat /\ answered[s] <= last[s]
  BY Types DEF ReplicationInv, Counters
<1> HIDE DEF c
<1>6. Elems(stream') \subseteq Elems(stream) \cup {c}
  <2>1. Elems(Append(stream, c)) \subseteq Elems(stream) \cup {c}
    BY <1>1, OneMore
  <2> QED BY <1>4, <2>1
<1>7. Known' \subseteq Known
  BY <1>1, <1>3, <1>6 DEF Known
<1>8. KnownTell'
  BY <1>3, <1>7, PrimaryStays DEF ReplicationInv, KnownTell
<1>9. Counters' /\ LogSound'
  BY <1>3 DEF ReplicationInv, Counters, LogSound
<1>10. LinkSound'
  BY <1>3, <1>4 DEF ReplicationInv, LinkSound
<1>11. RowsSound'
  BY <1>3 DEF ReplicationInv, RowsSound, Lasting, Agrees
<1>12. FlowSound'
  <2> SUFFICES ASSUME NEW s \in Slots \ missed'
               PROVE  /\ LastIs(queue', s, last'[s])
                      /\ link' = "answered" =>
                             /\ Settles(Base(s)', Coming', stream', s, answered'[s])
                             /\ Untouched(queue', s) => answered'[s] = last'[s]
                      /\ link' = "registered" /\ Untouched(queue', s) =>
                             Settles(Base(s)', Coming', stream', s, last'[s])
    BY DEF FlowSound
  <2>1. /\ LastIs(queue, s, last[s])
        /\ link = "answered" =>
               /\ Settles(Base(s), Coming, stream, s, answered[s])
               /\ Untouched(queue, s) => answered[s] = last[s]
        /\ link = "registered" /\ Untouched(queue, s) =>
               Settles(Base(s), Coming, stream, s, last[s])
    BY <1>3 DEF ReplicationInv, FlowSound
  <2>2. /\ LastIs(Tail(queue), s, last[s])
        /\ c.slot # s /\ Untouched(Tail(queue), s) => Untouched(queue, s)
        /\ c.slot = s /\ Untouched(Tail(queue), s) => c.id = last[s]
    BY <1>2, <2>1 DEF c
  <2>3. ASSUME link = "answered", Untouched(Tail(queue), s) PROVE answered[s] = last[s]
    <3>1. CASE c.slot = s
      <4>1. c.id = last[s] /\ ~(c.id > answered[s])
        BY <1>4, <2>2, <2>3, <3>1
      <4> QED BY <1>5, <4>1
    <3>2. CASE c.slot # s
      BY <2>1, <2>2, <2>3, <3>2
    <3> QED BY <3>1, <3>2
  <2>4. ASSUME link = "registered", Untouched(Tail(queue), s)
        PROVE  Settles(Base(s), Coming, Append(stream, c), s, last[s])
    <3>1. CASE c.slot = s
      BY <1>1, <2>2, <2>4, <3>1, MoreToCome
    <3>2. CASE c.slot # s
      BY <1>1, <2>1, <2>2, <2>4, <3>2, MoreToCome
    <3> QED BY <3>1, <3>2
  <2> QED BY <1>1, <1>3, <1>4, <2>1, <2>2, <2>3, <2>4
<1> QED BY <1>8, <1>9, <1>10, <1>11, <1>12 DEF ReplicationInv

\* An answer that, with what the replica has, accounts for the last change of
\* every slot that is not skipped.
LEMMA AnswerKeeps ==
    ASSUME TypeOK, ReplicationInv, NEW message, NEW skipped,
           Answer(message, skipped),
           Elems(Coming') \subseteq Known, LinkSound',
           message.type = "snapshot" =>
               Lasting(message.snap.rows) /\ Agrees(message.snap.rows, last),
           \A s \in Slots \ skipped : Settles(Base(s)', Coming', <<>>, s, last[s])
    PROVE  ReplicationInv'
<1>1. /\ pri' = pri /\ rep' = rep /\ now' = now /\ queue' = queue /\ last' = last
      /\ answered' = last /\ has' = has /\ timed' = timed
      /\ link' = "answered" /\ response' = message /\ stream' = stream
      /\ stream = <<>> /\ Elems(<<>>) = {}
  BY NoChanges DEF Answer, ReplicationInv, LinkSound
<1>2. \A s \in Slots : last[s] \in Nat
  BY Types
<1>3. Counters' /\ LogSound'
  BY <1>1, <1>2 DEF ReplicationInv, Counters, LogSound
<1>4. Known' \subseteq Known
  BY <1>1 DEF Known
<1>5. KnownTell'
  BY <1>1, <1>4, PrimaryStays DEF ReplicationInv, KnownTell
<1>6. RowsSound'
  BY <1>1 DEF ReplicationInv, RowsSound, Lasting, Agrees
<1>7. FlowSound'
  <2> SUFFICES ASSUME NEW s \in Slots \ missed'
               PROVE  /\ LastIs(queue', s, last'[s])
                      /\ Settles(Base(s)', Coming', stream', s, answered'[s])
                      /\ answered'[s] = last'[s]
    BY <1>1 DEF FlowSound
  <2>1. s \notin skipped /\ Settles(Base(s)', Coming', stream', s, answered'[s])
    BY <1>1 DEF Answer
  <2>2. LastIs(queue, s, last[s])
    <3>1. CASE s \in missed
      <4>1. s \notin {queue[i].slot : i \in DOMAIN queue}
        BY <3>1 DEF Answer
      <4>2. DOMAIN queue = 1..Len(queue)
        BY Types
      <4> QED BY <4>1, <4>2 DEF LastIs
    <3>2. CASE s \notin missed
      BY <3>2 DEF ReplicationInv, FlowSound
    <3> QED BY <3>1, <3>2
  <2> QED BY <1>1, <2>1, <2>2
<1> QED BY <1>3, <1>5, <1>6, <1>7 DEF ReplicationInv

\* A snapshot is the primary's rows.
LEMMA SnapshotKeeps ==
    ASSUME TypeOK, ReplicationInv, SendSnapshot
    PROVE  ReplicationInv'
<1> DEFINE message == [type |-> "snapshot", snap |-> SnapshotOf(pri)]
<1>1. Answer(message, {}) /\ response' = message /\ link' = "answered"
  BY DEF SendSnapshot, Answer
<1>2. applying = <<>> /\ applying' = applying /\ stream' = stream
  BY <1>1 DEF Answer, ReplicationInv, LinkSound
<1>3. Coming' = <<>> /\ (\A s : Base(s)' = last[s]) /\ message.type = "snapshot"
  BY <1>1, <1>2 DEF Coming, Base, Answer
<1>4. Elems(Coming') \subseteq Known /\ \A s : Settles(Base(s)', Coming', <<>>, s, last[s])
  BY <1>3, NoChanges DEF Settles
<1>5. LinkSound'
  BY <1>1, <1>2 DEF LinkSound
<1>6. \A s \in Slots : message.snap.rows[s] = pri.rows[s]
  BY DEF SnapshotOf, Slots, ReplicationInv, Counters
<1>7. Lasting(message.snap.rows) /\ Agrees(message.snap.rows, last)
  BY <1>6 DEF ReplicationInv, RowsSound, Lasting, Agrees
<1> HIDE DEF message
<1> QED BY <1>1, <1>4, <1>5, <1>7, AnswerKeeps

\* The list of the changes since the replica's version ends, for each slot in
\* it, with the slot's newest change.
LEMMA ChangesKeep ==
    ASSUME TypeOK, ReplicationInv, SendChanges
    PROVE  ReplicationInv'
<1> DEFINE changes == GetChangesSince(pri, request)
           skipped == {s \in Slots : /\ has[s] # last[s]
                                  /\ \A c \in changes : c.slot = s => c.id # last[s]}
<1>1. PICK list \in InVersionOrder(changes) :
          Answer([type |-> "changes", changes |-> list], skipped)
  BY DEF SendChanges
<1> DEFINE message == [type |-> "changes", changes |-> list]
<1>2. /\ changes \subseteq pri.log /\ changes \in SUBSET Change /\ IsFiniteSet(changes)
      /\ request \in Nat
  BY Since DEF TypeOK, ReplicationInv
<1>3. list \in Seq(Change) /\ Elems(list) = changes /\ Len(list) \in Nat
  <2> HIDE DEF changes
  <2> QED BY <1>2, ListType
<1>4. applying = <<>> /\ applying' = applying /\ stream' = stream /\ link' = "answered"
      /\ response' = message /\ has' = has
  BY <1>1 DEF Answer, ReplicationInv, LinkSound
<1>5. Coming' = list /\ (\A s : Base(s)' = has[s]) /\ message.type # "snapshot"
  BY <1>4 DEF Coming, Base
<1>6. Elems(Coming') \subseteq Known
  BY <1>2, <1>3, <1>5 DEF Known
<1>7. LinkSound'
  BY <1>4 DEF LinkSound
<1>8. \A c \in changes : /\ c \in Change /\ c.slot \in Slots /\ c.id \in Nat /\ c.version = c.id
                         /\ c.id > request /\ c.id <= last[c.slot]
  BY <1>2, Types DEF ReplicationInv, LogSound, KnownTell, Known, Tells, GetChangesSince
<1>9. ASSUME NEW s \in Slots \ skipped PROVE Settles(Base(s)', Coming', <<>>, s, last[s])
  <2>1. \A i \in 1..Len(list) : list[i] \in changes
    BY <1>3 DEF Elems
  <2>2. ASSUME NEW i \in 1..Len(list), list[i].slot = s
        PROVE  \E k \in 1..Len(list) : list[k].slot = s /\ list[k].id = last[s]
    <3>1. PICK d \in pri.log : d.slot = s /\ d.id = last[s]
      BY <1>2, <2>1, <2>2 DEF ReplicationInv, LogSound
    <3>2. d.version = d.id /\ list[i].id <= d.id /\ list[i].id > request /\ d.id \in Nat
      BY <1>8, <2>1, <2>2, <3>1, Types DEF ReplicationInv, LogSound
    <3>3. d \in changes
      BY <1>2, <1>8, <2>1, <3>2 DEF GetChangesSince
    <3> QED BY <1>3, <3>1, <3>3 DEF Elems
  <2>3. LastIs(list, s, last[s])
    <3> SUFFICES ASSUME NEW i \in 1..Len(list), list[i].slot = s,
                        \A j \in 1..Len(list) : i < j => list[j].slot # s
                 PROVE  list[i].id = last[s]
      BY DEF LastIs
    <3>1. PICK k \in 1..Len(list) : list[k].slot = s /\ list[k].id = last[s]
      BY <2>2
    <3>2. ~(i < k)
      BY <3>1
    <3>3. CASE k = i
      BY <3>1, <3>3
    <3>4. CASE k < i
      <4>1. DOMAIN list = 1..Len(list)
        BY <1>3
      <4>2. list[k].version <= list[i].version
        BY <3>4, <4>1 DEF InVersionOrder
      <4>3. list[k].id <= list[i].id /\ list[i].id <= last[s]
        BY <1>8, <2>1, <4>2
      <4> QED BY <1>8, <2>1, <3>1, <4>3
    <3> QED BY <1>3, <3>2, <3>3, <3>4
  <2>4. Untouched(list, s) => has[s] = last[s]
    <3> SUFFICES ASSUME Untouched(list, s), has[s] # last[s] PROVE FALSE
      OBVIOUS
    <3>1. PICK c \in changes : c.slot = s /\ c.id = last[s]
      OBVIOUS
    <3> QED BY <1>3, <3>1 DEF Elems, Untouched
  <2> QED BY <1>5, <2>3, <2>4, NoChanges DEF Settles
<1> HIDE DEF message, changes, skipped
<1> QED BY <1>1, <1>5, <1>6, <1>7, <1>9, AnswerKeeps DEF message

\* A change is applied: of an overtaken one nothing is claimed, and one that
\* is not tells what the primary has.
LEMMA ApplyKeeps ==
    ASSUME TypeOK, ReplicationInv, NEW c \in Known, Apply(c),
           UNCHANGED <<pri, now, queue, link, response, last, answered, missed, timed>>,
           Elems(Coming') \subseteq Elems(Coming), Elems(stream') \subseteq Elems(stream),
           LinkSound',
           \A s \in Slots : \A v : Settles(Base(s), Coming, stream, s, v) =>
                                       Settles(Base(s)', Coming', stream', s, v)
    PROVE  ReplicationInv'
<1>1. /\ c \in Change /\ c.slot \in Slots /\ Tells(c)
      /\ c.kind # "delete" => c.value \in Values
  BY Types DEF ReplicationInv, KnownTell, Tells
<1>2. /\ \A s \in Slots \ {c.slot} : rep'.rows[s] = rep.rows[s]
      /\ Content(rep'.rows[c.slot]) = IF c.kind = "delete" THEN NoValue ELSE c.value
      /\ rep'.rows[c.slot] # NoRow => rep'.rows[c.slot].expires = 0
  BY <1>1, Applied DEF Apply
<1>3. has'[c.slot] = c.id /\ \A s \in Slots \ {c.slot} : has'[s] = has[s]
  BY <1>1 DEF Apply, TypeOK
<1>4. Counters' /\ LogSound'
  BY <1>1, <1>3 DEF ReplicationInv, Counters, LogSound, Tells
<1>5. Known' \subseteq Known
  BY DEF Known
<1>6. KnownTell'
  BY <1>5, PrimaryStays DEF ReplicationInv, KnownTell
<1>7. RowsSound'
  <2>1. (Lasting(rep.rows))'
    BY <1>2 DEF ReplicationInv, RowsSound, Lasting
  <2>2. (Agrees(rep.rows, has))'
    <3> SUFFICES ASSUME NEW s \in Slots \ timed, has'[s] = last[s]
                 PROVE  Content(rep'.rows[s]) = Content(pri.rows[s])
      BY DEF Agrees
    <3>1. CASE s = c.slot
      BY <1>1, <1>2, <1>3, <3>1 DEF Tells
    <3>2. CASE s # c.slot
      BY <1>2, <1>3, <3>2 DEF ReplicationInv, RowsSound, Agrees
    <3> QED BY <3>1, <3>2
  <2> QED BY <2>1, <2>2 DEF ReplicationInv, RowsSound, Lasting, Agrees
<1>8. FlowSound'
  BY DEF ReplicationInv, FlowSound
<1> QED BY <1>4, <1>6, <1>7, <1>8 DEF ReplicationInv

\* The next change of the answer.
LEMMA ApplyNextKeeps ==
    ASSUME TypeOK, ReplicationInv, ApplyNext
    PROVE  ReplicationInv'
<1>1. applying # <<>> /\ response = Nothing /\ response' = Nothing /\ stream' = stream
  BY NoAnswer DEF ApplyNext, ReplicationInv
<1>2. /\ Coming = applying /\ Coming' = Tail(applying)
      /\ \A s : Base(s) = has[s] /\ Base(s)' = has'[s]
  BY <1>1, NoAnswer DEF ApplyNext, Coming, Base, Nothing
<1>3. /\ Head(applying) \in Elems(applying) /\ Elems(Tail(applying)) \subseteq Elems(applying)
      /\ applying \in Seq(Change) /\ stream \in Seq(Change) /\ Head(applying) \in Change
  BY <1>1, Types, ListParts
<1>4. Head(applying) \in Known /\ Apply(Head(applying))
  BY <1>2, <1>3 DEF Known, ApplyNext
<1>5. LinkSound'
  BY <1>1 DEF ApplyNext, ReplicationInv, LinkSound
<1>6. ASSUME NEW s \in Slots, NEW v, Settles(Base(s), Coming, stream, s, v)
      PROVE  Settles(Base(s)', Coming', stream', s, v)
  <2>1. has'[s] = IF Head(applying).slot = s THEN Head(applying).id ELSE has[s]
    BY <1>4 DEF Apply, TypeOK
  <2> QED BY <1>1, <1>2, <1>3, <1>6, <2>1, LessToCome
<1> QED BY <1>1, <1>2, <1>3, <1>4, <1>5, <1>6, ApplyKeeps DEF ApplyNext

\* A broadcast change, with the answer dealt with.
LEMMA ReceiveUpdateKeeps ==
    ASSUME TypeOK, ReplicationInv, ReceiveUpdate
    PROVE  ReplicationInv'
<1>1. applying = <<>> /\ response = Nothing /\ response' = Nothing /\ stream # <<>>
      /\ stream' = Tail(stream) /\ applying' = applying
  BY DEF ReceiveUpdate
<1>2. /\ Coming = <<>> /\ Coming' = <<>>
      /\ \A s : Base(s) = has[s] /\ Base(s)' = has'[s]
  BY <1>1 DEF Coming, Base, Nothing
<1>3. /\ Head(stream) \in Elems(stream) /\ Elems(Tail(stream)) \subseteq Elems(stream)
      /\ stream \in Seq(Change) /\ <<>> \in Seq(Change)
  BY <1>1, Types, ListParts
<1>4. Head(stream) \in Known /\ Apply(Head(stream))
  BY <1>3 DEF Known, ReceiveUpdate
<1>5. LinkSound'
  BY <1>1 DEF ReceiveUpdate, ReplicationInv, LinkSound
<1>6. ASSUME NEW s \in Slots, NEW v, Settles(Base(s), Coming, stream, s, v)
      PROVE  Settles(Base(s)', Coming', stream', s, v)
  <2>1. has'[s] = IF Head(stream).slot = s THEN Head(stream).id ELSE has[s]
    BY <1>4 DEF Apply, TypeOK
  <2> QED BY <1>1, <1>2, <1>3, <1>6, <2>1, LessToCome
<1> QED BY <1>1, <1>2, <1>3, <1>4, <1>5, <1>6, ApplyKeeps DEF ReceiveUpdate

\* The answer arrives: a snapshot takes the place of the replica's rows.
LEMMA ReceiveResponseKeeps ==
    ASSUME TypeOK, ReplicationInv, ReceiveResponse
    PROVE  ReplicationInv'
<1>1. /\ pri' = pri /\ now' = now /\ queue' = queue /\ last' = last /\ answered' = answered
      /\ missed' = missed /\ timed' = timed /\ link' = link /\ stream' = stream
      /\ response' = Nothing /\ response # Nothing /\ applying = <<>>
  BY DEF ReceiveResponse, ReplicationInv, LinkSound
<1>2. Coming' = Coming /\ \A s : Base(s)' = Base(s)
  <2>1. CASE response.type = "snapshot"
    BY <1>1, <2>1 DEF ReceiveResponse, Coming, Base, Nothing
  <2>2. CASE response.type = "changes"
    BY <1>1, <2>2 DEF ReceiveResponse, Coming, Base, Nothing
  <2> QED BY <1>1, <2>1, <2>2, Types
<1>3. Known' = Known
  BY <1>1, <1>2 DEF Known
<1>4. KnownTell'
  BY <1>1, <1>3, PrimaryStays DEF ReplicationInv, KnownTell
<1>5. Counters' /\ LogSound'
  BY <1>1 DEF ReceiveResponse, ReplicationInv, Counters, LogSound
<1>6. LinkSound'
  BY <1>1 DEF ReplicationInv, LinkSound
<1>7. RowsSound'
  <2>1. CASE response.type = "snapshot"
    <3>1. rep'.rows = response.snap.rows /\ has' = answered
      BY <2>1 DEF ReceiveResponse, Restored, TypeOK, Store
    <3> QED BY <1>1, <2>1, <3>1 DEF Nothing, ReplicationInv, RowsSound, Lasting, Agrees
  <2>2. CASE response.type # "snapshot"
    BY <1>1, <2>2 DEF ReceiveResponse, Nothing, ReplicationInv, RowsSound, Lasting, Agrees
  <2> QED BY <2>1, <2>2
<1>8. FlowSound'
  BY <1>1, <1>2 DEF ReplicationInv, FlowSound
<1> QED BY <1>4, <1>5, <1>6, <1>7, <1>8 DEF ReplicationInv

\* Steps that change the connection's state only, or lose what is on its way.
LEMMA LinkKeeps ==
    ASSUME TypeOK, ReplicationInv,
           RegisterReplica \/ ReadDeadline \/ ConnectToPrimary \/ LoseConnection
    PROVE  ReplicationInv'
<1>1. /\ pri' = pri /\ rep' = rep /\ now' = now /\ queue' = queue /\ last' = last
      /\ answered' = answered /\ has' = has /\ missed' = missed /\ timed' = timed
      /\ applying' = applying
  BY DEF RegisterReplica, ReadDeadline, ConnectToPrimary, LoseConnection, hist
<1>2. \/ response' = response /\ stream' = stream
      \/ response' = Nothing /\ stream' = <<>>
  BY DEF RegisterReplica, ReadDeadline, ConnectToPrimary, LoseConnection
<1>3. \/ link' \in {"down", "requested", "closed"}
      \/ link = "answered" /\ link' = "registered" /\ response' = response /\ stream' = stream
  BY DEF RegisterReplica, ReadDeadline, ConnectToPrimary, LoseConnection
<1>4. Elems(Coming') \subseteq Elems(Coming) /\ Elems(stream') \subseteq Elems(stream)
  <2>1. Coming' = Coming \/ (Coming' = applying /\ response # Nothing)
    BY <1>1, <1>2 DEF Coming, Nothing
  <2>2. response # Nothing => applying = <<>>
    BY DEF ReplicationInv, LinkSound
  <2> QED BY <1>2, <2>1, <2>2, NoChanges
<1>5. Known' \subseteq Known
  BY <1>1, <1>4 DEF Known
<1>6. KnownTell'
  BY <1>1, <1>5, PrimaryStays DEF ReplicationInv, KnownTell
<1>7. Counters' /\ LogSound'
  BY <1>1 DEF ReplicationInv, Counters, LogSound
<1>8. LinkSound'
  BY DEF RegisterReplica, ReadDeadline, ConnectToPrimary, LoseConnection, ReplicationInv, LinkSound
<1>9. RowsSound'
  BY <1>1, <1>2 DEF Nothing, ReplicationInv, RowsSound, Lasting, Agrees
<1>10. FlowSound'
  <2>1. CASE link' \in {"down", "requested", "closed"}
    BY <1>1, <2>1 DEF ReplicationInv, FlowSound
  <2>2. CASE link = "answered" /\ link' = "registered" /\ response' = response /\ stream' = stream
    <3>1. Coming' = Coming /\ \A s : Base(s)' = Base(s)
      BY <1>1, <2>2 DEF Coming, Base
    <3> QED BY <1>1, <2>2, <3>1 DEF ReplicationInv, FlowSound
  <2> QED BY <1>3, <2>1, <2>2
<1> QED BY <1>6, <1>7, <1>8, <1>9, <1>10 DEF ReplicationInv

\* The clock, or nothing.
LEMMA TimeKeeps ==
    ASSUME TypeOK, ReplicationInv, Tick \/ UNCHANGED vars
    PROVE  ReplicationInv'
<1>1. /\ pri' = pri /\ rep' = rep /\ queue' = queue /\ UNCHANGED conVars /\ UNCHANGED hist
      /\ now \in Nat /\ (now' = now \/ now' = now + 1)
  BY Types DEF Tick, vars
<1>2. Known' = Known /\ Coming' = Coming /\ \A s : Base(s)' = Base(s)
  BY <1>1 DEF Known, Coming, Base, conVars, hist
<1>3. KnownTell'
  BY <1>1, <1>2, PrimaryStays DEF ReplicationInv, KnownTell, hist
<1>4. LogSound'
  <2>1. \A c \in pri.log : c.time <= now => c.time <= now'
    BY <1>1, Types
  <2> QED BY <1>1, <2>1 DEF ReplicationInv, LogSound, hist
<1>5. Counters' /\ LinkSound'
  BY <1>1 DEF ReplicationInv, Counters, LinkSound, conVars, hist
<1>6. RowsSound'
  BY <1>1 DEF ReplicationInv, RowsSound, Lasting, Agrees, conVars, hist
<1>7. FlowSound'
  BY <1>1, <1>2 DEF ReplicationInv, FlowSound, conVars, hist
<1> QED BY <1>3, <1>4, <1>5, <1>6, <1>7 DEF ReplicationInv

-----------------------------------------------------------------------------
(* The theorem                                                             *)

\* Every step keeps types and invariant.
LEMMA InvariantKept ==
    ASSUME TypeOK, ReplicationInv, [Next]_vars
    PROVE  TypeOK' /\ ReplicationInv'
<1>1. TypeOK'
  BY TypesKept DEF ReplicationInv
<1>2. ASSUME NEW slot \in Slots, NEW v \in Values, NEW expires \in Nat,
             CommitPrimary(SetInternal(pri, SetChange(pri, slot, v, now), expires),
                           SetChange(pri, slot, v, now)),
             timed \subseteq timed', expires # 0 => slot \in timed'
      PROVE  ReplicationInv'
  <2> DEFINE c == SetChange(pri, slot, v, now)
             row == [value |-> c.value, version |-> c.version, expires |-> expires]
  <2>1. /\ c \in Change /\ c.slot = slot /\ c.value = v /\ c.kind # "delete"
        /\ c.id = pri.lastID + 1 /\ c.version = pri.version + 1 /\ c.time = now
    BY NewSet, Types
  <2>2. CommitPrimary(Commit(pri, c, row), c)
    BY <1>2 DEF SetInternal
  <2> HIDE DEF c
  <2>3. c.version \in Nat
    BY <2>1 DEF Change
  <2>4. row \in Row /\ row # NoRow /\ row.value = c.value /\ row.expires = expires
    BY <2>1, <2>3, NoRowAssumption DEF Row
  <2> HIDE DEF row
  <2>5. Content(row) = c.value
    BY <2>4 DEF Content
  <2> QED BY <1>2, <2>1, <2>2, <2>4, <2>5, CommitKeeps
<1>3. ASSUME NEW slot \in Slots, NEW v \in Values, Set(slot, v) PROVE ReplicationInv'
  BY <1>2, <1>3 DEF Set
<1>4. ASSUME NEW slot \in Slots, NEW v \in Values, NEW ttl \in TTLs, SetWithTTL(slot, v, ttl)
      PROVE  ReplicationInv'
  <2>1. now + ttl \in Nat
    BY ReplicationAssumption DEF TypeOK
  <2>2. timed' = timed \cup {slot}
    BY <1>4 DEF SetWithTTL
  <2> QED BY <1>2, <1>4, <2>1, <2>2 DEF SetWithTTL
<1>5. ASSUME NEW slot \in Slots, Delete(slot) PROVE ReplicationInv'
  <2> DEFINE c == DeleteChange(pri, slot, now)
  <2>1. /\ c \in Change /\ c.kind = "delete"
        /\ c.id = pri.lastID + 1 /\ c.version = pri.version + 1 /\ c.time = now
    BY NewDelete, Types
  <2>2. CommitPrimary(Commit(pri, c, NoRow), c) /\ timed' = timed
    BY <1>5 DEF Delete, DeleteRow
  <2> HIDE DEF c
  <2>3. Content(NoRow) = NoValue
    BY DEF Content
  <2> QED BY <2>1, <2>2, <2>3, CommitKeeps
<1> QED BY <1>1, <1>3, <1>4, <1>5, CleanupKeeps, BroadcastKeeps, SnapshotKeeps, ChangesKeep,
           ApplyNextKeeps, ReceiveUpdateKeeps, ReceiveResponseKeeps, LinkKeeps, TimeKeeps
        DEF Next, PrimaryNext, ReplicaNext

\* At rest nothing is on its way: what each slot settles at is what the
\* replica has.
LEMMA RestAgrees ==
    ASSUME TypeOK, ReplicationInv, AtRest, NEW s \in Slots \ (missed \cup timed)
    PROVE  Same(s)
<1>1. queue = <<>> /\ stream = <<>> /\ link = "registered" /\ Coming = <<>> /\ Base(s) = has[s]
  BY NoAnswer DEF AtRest
<1>2. Untouched(queue, s) /\ Untouched(stream, s) /\ Untouched(Coming, s)
  BY <1>1, NoChanges
<1>3. has[s] = last[s]
  BY <1>1, <1>2 DEF ReplicationInv, FlowSound, Settles
<1>4. /\ Content(rep.rows[s]) = Content(pri.rows[s])
      /\ pri.rows[s] # NoRow => pri.rows[s].expires = 0
      /\ rep.rows[s] # NoRow => rep.rows[s].expires = 0
  BY <1>3 DEF ReplicationInv, RowsSound, Agrees, Lasting
<1> QED BY <1>4 DEF Same, Get, Live, Content

\* Whatever is committed, cleaned up, lost, repeated or reordered between two
\* connections: at rest the replica reads as the primary does, except for the
\* slots whose change was lost in one of the known ways and those with a
\* time-to-live.
THEOREM ReplicaCorrect == Spec => []ReplicaAgrees
<1>1. Init => TypeOK /\ ReplicationInv
  <2> SUFFICES ASSUME Init PROVE TypeOK /\ ReplicationInv
    OBVIOUS
  <2>1. EmptyStore \in Store /\ EmptyStore.rows = [s \in Slots |-> NoRow] /\ EmptyStore.log = {}
        /\ EmptyStore.lastID = 0 /\ EmptyStore.version = 0
    BY DEF EmptyStore, Store
  <2>2. /\ pri \in Store /\ pri.buckets = Buckets /\ pri.rows = [s \in Slots |-> NoRow]
        /\ pri.log = {} /\ pri.lastID = 0 /\ pri.version = 0
    BY <2>1 DEF Init, EmptyStore, Store
  <2>3. TypeOK
    BY <2>1, <2>2 DEF Init, TypeOK, Response
  <2>4. Coming = <<>> /\ Known = {}
    BY <2>2, NoChanges DEF Init, Coming, Nothing, Known
  <2>5. Counters /\ LogSound /\ LinkSound /\ KnownTell
    BY <2>2, <2>4, FS_EmptySet DEF Init, Counters, LogSound, LinkSound, KnownTell
  <2>6. RowsSound
    BY <2>1, <2>2 DEF Init, RowsSound, Lasting, Agrees, Nothing
  <2>7. FlowSound
    BY NoChanges DEF Init, FlowSound
  <2> QED BY <2>3, <2>5, <2>6, <2>7 DEF ReplicationInv
<1>2. TypeOK /\ ReplicationInv /\ [Next]_vars => TypeOK' /\ ReplicationInv'
  BY InvariantKept
<1>3. TypeOK /\ ReplicationInv => ReplicaAgrees
  BY RestAgrees DEF ReplicaAgrees, Converged
<1> QED BY <1>1, <1>2, <1>3, PTL DEF Spec
=============================================================================
