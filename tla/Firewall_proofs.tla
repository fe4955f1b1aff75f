---------------------------- MODULE Firewall_proofs ----------------------------
(***************************************************************************)
(* Proofs about the firewall's configuration: FirewallManager, which puts  *)
(* it in force, for any configurations, rules, callers and number of       *)
(* failures; and StagedOrder, where its policies are put in order, for any *)
(* policies, zones, clients and number of requests.                        *)
(***************************************************************************)
EXTENDS FirewallManager, StagedOrder, FiniteSetTheorems, SequenceTheorems, WellFoundedInduction, TLAPS

-----------------------------------------------------------------------------
(***************************************************************************)
(* StagedOrder: a move puts the policy where it was asked to be, and the   *)
(* statuses tell what applying would change.  Two requests may shift one   *)
(* array under each other, lose a policy and have another one twice; what  *)
(* stays is that an array never holds two bodies of one policy, and that a *)
(* request nobody disturbed still has the list it looked its places up in. *)
(***************************************************************************)

\* A nonempty set of places has a last one.
LEMMA LastOfPlaces ==
    ASSUME NEW n \in Nat, NEW I, I \subseteq 1..n, I # {}
    PROVE  Max(I) \in I
<1> DEFINE Above == {m \in Nat : \A i \in I : i <= m}
<1>1. n \in Above
  OBVIOUS
<1>2. PICK m \in Above : \A k \in Above : ~(<<k, m>> \in OpToRel(<, Nat))
  BY <1>1, NatLessThanWellFounded, WFMin
<1>3. \A k \in Above : ~(k < m)
  BY <1>2 DEF OpToRel
<1>4. m \in I
  <2> SUFFICES ASSUME m \notin I PROVE FALSE
    OBVIOUS
  <2>1. \A i \in I : i <= m - 1
    OBVIOUS
  <2>2. m - 1 \in Nat
    <3>1. PICK i \in I : TRUE
      OBVIOUS
    <3> QED BY <3>1, <2>1
  <2>3. m - 1 \in Above
    BY <2>1, <2>2
  <2>4. m - 1 < m
    BY <2>2
  <2> QED BY <1>3, <2>3, <2>4
<1>5. \E x \in I : \A y \in I : x >= y
  BY <1>4
<1> QED BY <1>5 DEF Max

\* SelectLastInSeq, by the places that pass the test.
LEMMA PlaceOfLast ==
    ASSUME NEW S, NEW list \in Seq(S), NEW n
    PROVE  /\ PlaceOf(list, n) \in 0 .. Len(list)
           /\ PlaceOf(list, n) # 0 => list[PlaceOf(list, n)].name = n
           /\ PlaceOf(list, n) = 0 <=> \A i \in 1 .. Len(list) : list[i].name # n
<1> DEFINE I == {i \in 1 .. Len(list) : list[i].name = n}
<1>1. PlaceOf(list, n) = IF I # {} THEN Max(I) ELSE 0
  BY DEF PlaceOf, SelectLastInSeq
<1>2. I \subseteq 1 .. Len(list) /\ Len(list) \in Nat
  OBVIOUS
<1>3. I # {} => Max(I) \in I
  <2> HIDE DEF I
  <2> QED BY <1>2, LastOfPlaces
<1> QED BY <1>1, <1>3

\* The same of the last policy with given zones.
LEMMA KeyPlaceLast ==
    ASSUME NEW S, NEW list \in Seq(S), NEW p
    PROVE  /\ KeyPlace(list, p) \in 0 .. Len(list)
           /\ KeyPlace(list, p) # 0 => PolZones[list[KeyPlace(list, p)].name] = PolZones[p.name]
           /\ KeyPlace(list, p) = 0 <=> \A i \in 1 .. Len(list) : PolZones[list[i].name] # PolZones[p.name]
<1> DEFINE I == {i \in 1 .. Len(list) : PolZones[list[i].name] = PolZones[p.name]}
<1>1. KeyPlace(list, p) = IF I # {} THEN Max(I) ELSE 0
  BY DEF KeyPlace, SelectLastInSeq
<1>2. I \subseteq 1 .. Len(list) /\ Len(list) \in Nat
  OBVIOUS
<1>3. I # {} => Max(I) \in I
  <2> HIDE DEF I
  <2> QED BY <1>2, LastOfPlaces
<1> QED BY <1>1, <1>3

-----------------------------------------------------------------------------
(* What the invariant says of an array, of a list and of a request.        *)
PolItems == [name : PolNames, body : {0, 1}]
PolMoves ==
    [pc : {"idle", "found", "taken", "done"}, move : Nat, target : Nat, pos : {"before", "after"},
     arr : Nat, taken : PolItems \cup {0}, before : Seq(PolItems), after : Seq(PolItems), alone : BOOLEAN]
OneBody(list) == \A i, j \in 1 .. Len(list) : list[i].name = list[j].name => list[i] = list[j]
PlacesIn(r, list) == r.move \in 1 .. Len(list) /\ r.target \in 1 .. Len(list)
FoundSound(r, heap, cur) ==
    /\ r.move >= 1 /\ r.target >= 1
    /\ r.alone => r.before = heap[cur] /\ PlacesIn(r, r.before)
TakenSound(r, heap) ==
    /\ r.move >= 1 /\ r.target >= 1 /\ r.arr \in 1 .. Len(heap) /\ r.taken \in PolItems
    /\ \A i \in 1 .. Len(heap[r.arr]) : heap[r.arr][i].name = r.taken.name => heap[r.arr][i] = r.taken
    /\ r.alone => /\ PlacesIn(r, r.before) /\ r.taken = r.before[r.move]
                  /\ heap[r.arr] = Shifted(r.before, r.move)
ReqSound(r, heap, cur) ==
    /\ r.pc = "found" => FoundSound(r, heap, cur)
    /\ r.pc = "taken" => TakenSound(r, heap)
    /\ r.pc = "done" /\ r.alone /\ r.move # r.target => Moved(r)

PolTypes ==
    /\ polHeap \in Seq(Seq(PolItems)) /\ polCur \in 1 .. Len(polHeap)
    /\ polRunning \in Seq(PolItems) /\ polReq \in [PolClients -> PolMoves]
PolBodies == OneBody(polRunning) /\ \A k \in 1 .. Len(polHeap) : OneBody(polHeap[k])
PolReqs == \A c \in PolClients : ReqSound(polReq[c], polHeap, polCur)
PolInv == PolTypes /\ PolBodies /\ PolReqs

-----------------------------------------------------------------------------
(* Sequences, place by place.                                              *)
IsInserted(a, s, i, e) ==
    /\ Len(a) = Len(s) + 1
    /\ \A j \in 1 .. Len(s) + 1 : a[j] = IF j < i THEN s[j] ELSE IF j = i THEN e ELSE s[j - 1]
IsRemoved(a, s, i) ==
    /\ Len(a) = Len(s) - 1
    /\ \A j \in 1 .. Len(s) - 1 : a[j] = IF j < i THEN s[j] ELSE s[j + 1]
IsShifted(a, s, i) ==
    /\ Len(a) = Len(s)
    /\ \A j \in 1 .. Len(s) : a[j] = IF j < i \/ j = Len(s) THEN s[j] ELSE s[j + 1]
\* The place beside the target, and what is found next to it.
PlaceBeside(k, pos, m, t) == k = IF pos = "before" THEN (IF m < t THEN t - 1 ELSE t) ELSE (IF m < t THEN t ELSE t + 1)
NextTo(a, b, k, pos, t) ==
    LET n == IF pos = "before" THEN k + 1 ELSE k - 1
    IN  n \in 1 .. Len(b) /\ a[n] = b[t]
OnlyFrom(a, s) == \A j \in 1 .. Len(s) : \E k \in 1 .. Len(s) : a[j] = s[k]

LEMMA InsertedAt ==
    ASSUME NEW S, NEW s \in Seq(S), NEW e \in S, NEW i \in 1 .. Len(s) + 1
    PROVE  InsertAt(s, i, e) \in Seq(S) /\ IsInserted(InsertAt(s, i, e), s, i, e)
<1> DEFINE a == SubSeq(s, 1, i - 1)
           b == SubSeq(s, i, Len(s))
<1>1. a \in Seq(S) /\ Len(a) = i - 1 /\ \A j \in 1 .. i - 1 : a[j] = s[j]
  OBVIOUS
<1>2. b \in Seq(S) /\ Len(b) = Len(s) - i + 1 /\ \A j \in 1 .. Len(s) - i + 1 : b[j] = s[i + j - 1]
  OBVIOUS
<1>3. InsertAt(s, i, e) = (a \o <<e>>) \o b
  BY DEF InsertAt
<1> HIDE DEF a, b
<1>4. a \o <<e>> \in Seq(S) /\ Len(a \o <<e>>) = i /\ (a \o <<e>>)[i] = e /\ \A j \in 1 .. i - 1 : (a \o <<e>>)[j] = s[j]
  BY <1>1
<1> DEFINE c == a \o <<e>>
<1> HIDE DEF c
<1>5. c \in Seq(S) /\ Len(c) = i /\ c[i] = e /\ \A j \in 1 .. i - 1 : c[j] = s[j]
  BY <1>4 DEF c
<1>6. c \o b \in Seq(S) /\ Len(c \o b) = Len(s) + 1
  <2>1. c \o b \in Seq(S) /\ Len(c \o b) = Len(c) + Len(b)
    BY <1>2, <1>5, ConcatProperties
  <2> QED BY <1>2, <1>5, <2>1
<1>7. \A j \in 1 .. Len(s) + 1 : (c \o b)[j] = IF j <= i THEN c[j] ELSE b[j - i]
  BY <1>2, <1>5
<1>8. \A j \in 1 .. Len(s) + 1 : j > i => b[j - i] = s[j - 1]
  BY <1>2
<1> DEFINE whole == c \o b
<1>9. \A j \in 1 .. Len(s) + 1 : whole[j] = IF j < i THEN s[j] ELSE IF j = i THEN e ELSE s[j - 1]
  <2>0. \A j \in 1 .. Len(s) + 1 : whole[j] = IF j <= i THEN c[j] ELSE b[j - i]
    BY <1>7
  <2> SUFFICES ASSUME NEW j \in 1 .. Len(s) + 1
               PROVE  whole[j] = IF j < i THEN s[j] ELSE IF j = i THEN e ELSE s[j - 1]
    OBVIOUS
  <2> HIDE DEF b, whole
  <2>1. j \in Int /\ i \in Int
    OBVIOUS
  <2>2. CASE j < i
    <3>1. whole[j] = c[j]
      BY <2>0, <2>1, <2>2
    <3>2. c[j] = s[j]
      BY <1>5, <2>1, <2>2
    <3> QED BY <2>2, <3>1, <3>2
  <2>3. CASE j = i
    <3>1. whole[j] = c[j]
      BY <2>0, <2>1, <2>3
    <3> QED BY <1>5, <2>1, <2>3, <3>1
  <2>4. CASE j > i
    <3>1. whole[j] = b[j - i]
      BY <2>0, <2>1, <2>4
    <3> QED BY <1>8, <2>1, <2>4, <3>1
  <2> QED BY <2>1, <2>2, <2>3, <2>4
<1>10. InsertAt(s, i, e) = c \o b
  BY <1>3 DEF c
<1> QED BY <1>6, <1>9, <1>10 DEF IsInserted

LEMMA RemovedAt ==
    ASSUME NEW S, NEW s \in Seq(S), NEW i \in 1 .. Len(s)
    PROVE  RemoveAt(s, i) \in Seq(S) /\ IsRemoved(RemoveAt(s, i), s, i)
<1> DEFINE a == SubSeq(s, 1, i - 1)
           b == SubSeq(s, i + 1, Len(s))
<1>1. a \in Seq(S) /\ Len(a) = i - 1 /\ \A j \in 1 .. i - 1 : a[j] = s[j]
  OBVIOUS
<1>2. b \in Seq(S) /\ Len(b) = Len(s) - i /\ \A j \in 1 .. Len(s) - i : b[j] = s[i + j]
  OBVIOUS
<1>3. RemoveAt(s, i) = a \o b
  BY DEF RemoveAt
<1> HIDE DEF a, b
<1>4. a \o b \in Seq(S) /\ Len(a \o b) = Len(s) - 1
  <2>1. a \o b \in Seq(S) /\ Len(a \o b) = Len(a) + Len(b)
    BY <1>1, <1>2, ConcatProperties
  <2> QED BY <1>1, <1>2, <2>1
<1>5. \A j \in 1 .. Len(s) - 1 : (a \o b)[j] = IF j < i THEN a[j] ELSE b[j - i + 1]
  BY <1>1, <1>2
<1>6. \A j \in 1 .. Len(s) - 1 : j >= i => b[j - i + 1] = s[j + 1]
  BY <1>2
<1> DEFINE whole == a \o b
<1>7. \A j \in 1 .. Len(s) - 1 : whole[j] = IF j < i THEN s[j] ELSE s[j + 1]
  <2>0. \A j \in 1 .. Len(s) - 1 : whole[j] = IF j < i THEN a[j] ELSE b[j - i + 1]
    BY <1>5
  <2> SUFFICES ASSUME NEW j \in 1 .. Len(s) - 1
               PROVE  whole[j] = IF j < i THEN s[j] ELSE s[j + 1]
    OBVIOUS
  <2> HIDE DEF whole
  <2>1. j \in Int /\ i \in Int /\ 1 <= j
    OBVIOUS
  <2>2. CASE j < i
    <3>1. whole[j] = a[j]
      BY <2>0, <2>2
    <3>2. a[j] = s[j]
      BY <1>1, <2>1, <2>2
    <3> QED BY <2>2, <3>1, <3>2
  <2>3. CASE ~(j < i)
    <3>1. whole[j] = b[j - i + 1]
      BY <2>0, <2>3
    <3>2. b[j - i + 1] = s[j + 1]
      BY <1>6, <2>1, <2>3
    <3> QED BY <2>3, <3>1, <3>2
  <2> QED BY <2>2, <2>3
<1> QED BY <1>3, <1>4, <1>7 DEF IsRemoved

LEMMA ShiftedElements ==
    ASSUME NEW S, NEW s \in Seq(S), NEW i \in 1 .. Len(s)
    PROVE  Shifted(s, i) \in Seq(S) /\ IsShifted(Shifted(s, i), s, i) /\ OnlyFrom(Shifted(s, i), s)
<1>1. \A j \in 1 .. Len(s) : (j < i \/ j = Len(s)) \/ j + 1 \in 1 .. Len(s)
  OBVIOUS
<1>2. Shifted(s, i) = [j \in 1 .. Len(s) |-> IF j < i \/ j = Len(s) THEN s[j] ELSE s[j + 1]]
  BY DEF Shifted
<1>3. Shifted(s, i) \in [1 .. Len(s) -> S]
  BY <1>1, <1>2
<1>4. Shifted(s, i) \in Seq(S) /\ Len(Shifted(s, i)) = Len(s)
  BY <1>3
<1>5. \A j \in 1 .. Len(s) : Shifted(s, i)[j] = IF j < i \/ j = Len(s) THEN s[j] ELSE s[j + 1]
  BY <1>2
<1>6. OnlyFrom(Shifted(s, i), s)
  BY <1>1, <1>5 DEF OnlyFrom
<1>7. IsShifted(Shifted(s, i), s, i)
  BY <1>4, <1>5 DEF IsShifted
<1> QED BY <1>4, <1>6, <1>7

\* Where the target ends up beside the place the element was put in.
LEMMA BesideTarget ==
    ASSUME NEW b, NEW rest, NEW a, NEW m, NEW t, NEW k, NEW pos \in {"before", "after"},
           Len(b) \in Nat, m \in 1 .. Len(b), t \in 1 .. Len(b), m # t, k \in 1 .. Len(b),
           IsRemoved(rest, b, m), IsInserted(a, rest, k, b[m]),
           PlaceBeside(k, pos, m, t)
    PROVE  NextTo(a, b, k, pos, t)
<1> DEFINE L == Len(b)
<1>1. L \in Nat /\ m \in 1 .. L /\ t \in 1 .. L /\ m # t /\ k \in 1 .. L
  OBVIOUS
<1>2. \A j \in 1 .. L - 1 : rest[j] = IF j < m THEN b[j] ELSE b[j + 1]
  BY DEF IsRemoved
<1>3. \A j \in 1 .. L : a[j] = IF j < k THEN rest[j] ELSE IF j = k THEN b[m] ELSE rest[j - 1]
  <2>1. Len(rest) + 1 = L
    BY <1>1 DEF IsRemoved
  <2>2. \A j \in 1 .. Len(rest) + 1 : a[j] = IF j < k THEN rest[j] ELSE IF j = k THEN b[m] ELSE rest[j - 1]
    BY DEF IsInserted
  <2> HIDE DEF L
  <2> QED BY <2>1, <2>2
<1> HIDE DEF L
<1>4. CASE pos = "before" /\ m < t
  <2>1. k = t - 1
    BY <1>4 DEF PlaceBeside
  <2>2. a[t] = rest[t - 1]
    BY <1>1, <1>3, <2>1
  <2>3. rest[t - 1] = b[t]
    BY <1>1, <1>2, <1>4
  <2>4. k + 1 = t
    BY <1>1, <2>1
  <2> QED BY <1>1, <1>4, <2>2, <2>3, <2>4 DEF NextTo, L
<1>5. CASE pos = "before" /\ ~(m < t)
  <2>1. k = t /\ t < m
    BY <1>1, <1>5 DEF PlaceBeside
  <2>2. t \in 1 .. L - 1 /\ t + 1 \in 1 .. L
    BY <1>1, <2>1
  <2>3. a[t + 1] = rest[t]
    BY <1>1, <1>3, <2>1, <2>2
  <2>4. rest[t] = b[t]
    BY <1>2, <2>1, <2>2
  <2> QED BY <1>5, <2>1, <2>2, <2>3, <2>4 DEF NextTo, L
<1>6. CASE pos # "before" /\ m < t
  <2>1. k = t
    BY <1>6 DEF PlaceBeside
  <2>2. t - 1 \in 1 .. L - 1 /\ t - 1 \in 1 .. L
    BY <1>1, <1>6
  <2>3. a[t - 1] = rest[t - 1]
    BY <1>1, <1>3, <2>1, <2>2
  <2>4. rest[t - 1] = b[t]
    BY <1>1, <1>2, <1>6, <2>2
  <2> QED BY <1>6, <2>1, <2>2, <2>3, <2>4 DEF NextTo, L
<1>7. CASE pos # "before" /\ ~(m < t)
  <2>1. k = t + 1 /\ t < m
    BY <1>1, <1>7 DEF PlaceBeside
  <2>2. t \in 1 .. L - 1
    BY <1>1, <2>1
  <2>3. a[t] = rest[t]
    BY <1>1, <1>3, <2>1
  <2>4. rest[t] = b[t]
    BY <1>2, <2>1, <2>2
  <2>5. k - 1 = t
    BY <1>1, <2>1
  <2> QED BY <1>1, <1>7, <2>3, <2>4, <2>5 DEF NextTo, L
<1> QED BY <1>4, <1>5, <1>6, <1>7

\* Taking out what was put in gives the rest back.
LEMMA InsertedRemoved ==
    ASSUME NEW S, NEW rest \in Seq(S), NEW a \in Seq(S), NEW k \in 1 .. Len(rest) + 1, NEW e,
           IsInserted(a, rest, k, e)
    PROVE  k \in 1 .. Len(a) /\ a[k] = e /\ RemoveAt(a, k) = rest
<1> DEFINE L == Len(rest)
<1>1. L \in Nat /\ k \in 1 .. L + 1 /\ Len(a) = L + 1
  BY DEF IsInserted
<1>2. \A j \in 1 .. L + 1 : a[j] = IF j < k THEN rest[j] ELSE IF j = k THEN e ELSE rest[j - 1]
  BY DEF IsInserted
<1>3. RemoveAt(a, k) \in Seq(S) /\ IsRemoved(RemoveAt(a, k), a, k)
  BY <1>1, RemovedAt
<1> DEFINE out == RemoveAt(a, k)
<1> HIDE DEF out, L
<1>4. Len(out) = L /\ \A j \in 1 .. L : out[j] = IF j < k THEN a[j] ELSE a[j + 1]
  <2>1. Len(out) = Len(a) - 1 /\ \A j \in 1 .. Len(a) - 1 : out[j] = IF j < k THEN a[j] ELSE a[j + 1]
    BY <1>3 DEF IsRemoved, out
  <2>2. Len(a) - 1 = L
    BY <1>1
  <2> QED BY <2>1, <2>2
<1>5. ASSUME NEW j \in 1 .. L PROVE out[j] = rest[j]
  <2>1. CASE j < k
    <3>1. a[j] = rest[j]
      BY <1>1, <1>2, <2>1
    <3> QED BY <1>4, <2>1, <3>1
  <2>2. CASE ~(j < k)
    <3>1. j + 1 \in 1 .. L + 1 /\ ~(j + 1 < k) /\ j + 1 # k /\ (j + 1) - 1 = j
      BY <1>1, <2>2
    <3>2. a[j + 1] = rest[j]
      BY <1>2, <3>1
    <3> QED BY <1>4, <2>2, <3>2
  <2> QED BY <2>1, <2>2
<1>6. out = rest
  BY <1>3, <1>4, <1>5, SeqEqual DEF out, L
<1>7. a[k] = e /\ k \in 1 .. Len(a)
  BY <1>1, <1>2
<1> QED BY <1>6, <1>7 DEF out

\* A list whose policy was taken out and put in beside its target is a move.
LEMMA PutIsMoved ==
    ASSUME NEW S, NEW r, r.before \in Seq(S), r.move \in 1 .. Len(r.before), r.target \in 1 .. Len(r.before),
           r.move # r.target, r.pos \in {"before", "after"},
           InsertPlace(r) \in 1 .. Len(r.before),
           r.after = InsertAt(SubSeq(Shifted(r.before, r.move), 1, Len(r.before) - 1), InsertPlace(r), r.before[r.move])
    PROVE  Moved(r)
<1> DEFINE b == r.before
           m == r.move
           t == r.target
           k == InsertPlace(r)
           rest == SubSeq(Shifted(b, m), 1, Len(b) - 1)
<1>1. /\ b \in Seq(S) /\ Len(b) \in Nat /\ Len(b) >= 1
      /\ m \in 1 .. Len(b) /\ t \in 1 .. Len(b) /\ m # t /\ b[m] \in S
  OBVIOUS
<1>2. rest \in Seq(S) /\ IsRemoved(rest, b, m)
  <2> DEFINE sh == Shifted(b, m)
  <2>1. sh \in Seq(S) /\ IsShifted(sh, b, m)
    BY <1>1, ShiftedElements
  <2>2. rest = SubSeq(sh, 1, Len(b) - 1)
    OBVIOUS
  <2> HIDE DEF sh, rest, b, m
  <2>3. Len(sh) = Len(b) /\ \A j \in 1 .. Len(b) : sh[j] = IF j < m \/ j = Len(b) THEN b[j] ELSE b[j + 1]
    BY <2>1 DEF IsShifted
  <2>4. rest \in Seq(S) /\ Len(rest) = Len(b) - 1 /\ \A j \in 1 .. Len(b) - 1 : rest[j] = sh[j]
    BY <1>1, <2>1, <2>2, <2>3
  <2>5. \A j \in 1 .. Len(b) - 1 : j \in 1 .. Len(b) /\ j # Len(b)
    BY <1>1
  <2>6. \A j \in 1 .. Len(b) - 1 : rest[j] = IF j < m THEN b[j] ELSE b[j + 1]
    BY <2>3, <2>4, <2>5
  <2> QED BY <2>4, <2>6 DEF IsRemoved
<1>3. PlaceBeside(k, r.pos, m, t)
  <2>1. t \in Int /\ (t - 1) + 1 = t
    BY <1>1
  <2> QED BY <2>1 DEF InsertPlace, PlaceBeside
<1>4. r.after = InsertAt(rest, k, b[m]) /\ k \in 1 .. Len(b) /\ r.pos \in {"before", "after"}
  OBVIOUS
<1> DEFINE a == r.after
           pos == r.pos
<1>5. a = InsertAt(rest, k, b[m]) /\ pos \in {"before", "after"} /\ k \in 1 .. Len(b)
  BY <1>4
<1>6. PlaceBeside(k, pos, m, t)
  BY <1>3
<1> HIDE DEF rest, k, b, m, t, a, pos
<1>7. Len(rest) + 1 = Len(b)
  BY <1>1, <1>2 DEF IsRemoved
<1>8. a \in Seq(S) /\ IsInserted(a, rest, k, b[m])
  BY <1>1, <1>2, <1>5, <1>7, InsertedAt
<1>9. k \in 1 .. Len(a) /\ a[k] = b[m] /\ RemoveAt(a, k) = rest
  BY <1>2, <1>5, <1>7, <1>8, InsertedRemoved
<1>10. RemoveAt(b, m) = rest
  <2>1. RemoveAt(b, m) \in Seq(S) /\ IsRemoved(RemoveAt(b, m), b, m)
    BY <1>1, RemovedAt
  <2> DEFINE out == RemoveAt(b, m)
  <2> HIDE DEF out
  <2>2. out \in Seq(S) /\ Len(out) = Len(rest) /\ Len(rest) = Len(b) - 1
    BY <1>2, <2>1 DEF IsRemoved, out
  <2>3. \A j \in 1 .. Len(rest) : out[j] = rest[j]
    BY <1>2, <2>1, <2>2 DEF IsRemoved, out
  <2>4. out = rest
    BY <1>2, <2>2, <2>3, SeqEqual
  <2> QED BY <2>4 DEF out
<1> DEFINE n == IF pos = "before" THEN k + 1 ELSE k - 1
<1>11. n \in 1 .. Len(b) /\ a[n] = b[t]
  <2>1. NextTo(a, b, k, pos, t)
    BY <1>1, <1>2, <1>5, <1>6, <1>8, BesideTarget
  <2> QED BY <2>1 DEF NextTo
<1>12. DOMAIN a = 1 .. Len(b)
  <2>1. Len(a) = Len(rest) + 1
    BY <1>8 DEF IsInserted
  <2> QED BY <1>7, <1>8, <2>1
<1>13. k \in DOMAIN a /\ a[k] = b[m] /\ RemoveAt(a, k) = RemoveAt(b, m) /\ n \in DOMAIN a /\ a[n] = b[t]
  BY <1>5, <1>9, <1>10, <1>11, <1>12
<1> QED BY <1>13 DEF Moved, a, b, m, t, pos

-----------------------------------------------------------------------------
(* Requests that others run into.                                          *)

Apart(r) == [r EXCEPT !.alone = FALSE]

LEMMA ApartMove == \A r \in PolMoves : /\ Apart(r) \in PolMoves /\ ~Apart(r).alone
                                       /\ Apart(r).pc = r.pc /\ Apart(r).move = r.move /\ Apart(r).target = r.target
                                       /\ Apart(r).arr = r.arr /\ Apart(r).taken = r.taken
BY DEF Apart, PolMoves

\* A new array leaves the others as they are.
LEMMA ReqAppend ==
    ASSUME NEW heap \in Seq(Seq(PolItems)), NEW cur \in 1 .. Len(heap), NEW new \in Seq(PolItems),
           NEW r \in PolMoves, ReqSound(r, heap, cur)
    PROVE  /\ ReqSound(Apart(r), Append(heap, new), Len(heap) + 1)
           /\ r.pc # "found" => ReqSound(r, Append(heap, new), Len(heap) + 1)
<1>1. /\ Append(heap, new) \in Seq(Seq(PolItems)) /\ Len(Append(heap, new)) = Len(heap) + 1
      /\ \A k \in 1 .. Len(heap) : Append(heap, new)[k] = heap[k]
  OBVIOUS
<1>2. /\ ~Apart(r).alone /\ Apart(r).pc = r.pc /\ Apart(r).move = r.move /\ Apart(r).target = r.target
      /\ Apart(r).arr = r.arr /\ Apart(r).taken = r.taken
  BY ApartMove
<1>3. r.pc = "taken" => TakenSound(r, Append(heap, new)) /\ TakenSound(Apart(r), Append(heap, new))
  BY <1>1, <1>2 DEF ReqSound, TakenSound
<1>4. r.pc = "found" => FoundSound(Apart(r), Append(heap, new), Len(heap) + 1)
  BY <1>2 DEF ReqSound, FoundSound
<1> QED BY <1>2, <1>3, <1>4 DEF ReqSound

\* Shifting the array in place takes nothing into it.
LEMMA ReqShift ==
    ASSUME NEW heap \in Seq(Seq(PolItems)), NEW cur \in 1 .. Len(heap), NEW m \in 1 .. Len(heap[cur]),
           NEW r \in PolMoves, ReqSound(r, heap, cur)
    PROVE  ReqSound(Apart(r), [heap EXCEPT ![cur] = Shifted(@, m)], cur)
<1> DEFINE new == [heap EXCEPT ![cur] = Shifted(@, m)]
<1>1. /\ heap[cur] \in Seq(PolItems) /\ Shifted(heap[cur], m) \in Seq(PolItems) /\ Len(Shifted(heap[cur], m)) = Len(heap[cur])
      /\ \A j \in 1 .. Len(heap[cur]) : \E k \in 1 .. Len(heap[cur]) : Shifted(heap[cur], m)[j] = heap[cur][k]
  <2>1. heap[cur] \in Seq(PolItems)
    OBVIOUS
  <2>2. Shifted(heap[cur], m) \in Seq(PolItems) /\ IsShifted(Shifted(heap[cur], m), heap[cur], m) /\ OnlyFrom(Shifted(heap[cur], m), heap[cur])
    BY <2>1, ShiftedElements
  <2> QED BY <2>1, <2>2 DEF IsShifted, OnlyFrom
<1>2. /\ new \in Seq(Seq(PolItems)) /\ Len(new) = Len(heap)
      /\ \A k \in 1 .. Len(heap) : new[k] = IF k = cur THEN Shifted(heap[cur], m) ELSE heap[k]
  <2> DEFINE sh == Shifted(heap[cur], m)
  <2>1. sh \in Seq(PolItems) /\ new = [heap EXCEPT ![cur] = sh]
    BY <1>1
  <2> HIDE DEF sh, new
  <2>2. /\ new \in Seq(Seq(PolItems)) /\ Len(new) = Len(heap)
        /\ \A k \in 1 .. Len(heap) : new[k] = IF k = cur THEN sh ELSE heap[k]
    BY <2>1
  <2> QED BY <2>2 DEF sh
<1>3. /\ ~Apart(r).alone /\ Apart(r).pc = r.pc /\ Apart(r).move = r.move /\ Apart(r).target = r.target
      /\ Apart(r).arr = r.arr /\ Apart(r).taken = r.taken
  BY ApartMove
<1> HIDE DEF new
<1>4. r.pc = "taken" => TakenSound(Apart(r), new)
  <2> SUFFICES ASSUME r.pc = "taken" PROVE TakenSound(Apart(r), new)
    OBVIOUS
  <2>1. TakenSound(r, heap)
    BY DEF ReqSound
  <2>2. \A i \in 1 .. Len(new[r.arr]) : new[r.arr][i].name = r.taken.name => new[r.arr][i] = r.taken
    <3>1. CASE r.arr = cur
      <4>1. new[r.arr] = Shifted(heap[cur], m)
        BY <1>2, <3>1
      <4>2. \A k \in 1 .. Len(heap[cur]) : heap[cur][k].name = r.taken.name => heap[cur][k] = r.taken
        BY <2>1, <3>1 DEF TakenSound
      <4>3. ASSUME NEW i \in 1 .. Len(new[r.arr]), new[r.arr][i].name = r.taken.name
            PROVE  new[r.arr][i] = r.taken
        <5>1. i \in 1 .. Len(heap[cur])
          BY <1>1, <4>1
        <5>2. PICK k \in 1 .. Len(heap[cur]) : new[r.arr][i] = heap[cur][k]
          BY <1>1, <4>1, <5>1
        <5> QED BY <4>2, <4>3, <5>2
      <4> QED BY <4>3
    <3>2. CASE r.arr # cur
      BY <1>2, <2>1, <3>2 DEF TakenSound
    <3> QED BY <3>1, <3>2
  <2> QED BY <1>2, <1>3, <2>1, <2>2 DEF TakenSound
<1>5. r.pc = "found" => FoundSound(Apart(r), new, cur)
  BY <1>3 DEF ReqSound, FoundSound
<1> QED BY <1>3, <1>4, <1>5 DEF ReqSound, new

-----------------------------------------------------------------------------
(* The steps.                                                              *)

LEMMA StagedTyped ==
    ASSUME PolInv
    PROVE  StagedPolicies \in Seq(PolItems) /\ OneBody(StagedPolicies)
BY DEF PolInv, PolTypes, PolBodies, StagedPolicies

\* Staging a list in which each policy has one body, with no request alone.
LEMMA StageStep ==
    ASSUME PolInv, NEW new \in Seq(PolItems), OneBody(new), StagePolicies(new),
           polReq' = [d \in PolClients |-> [polReq[d] EXCEPT !.alone = FALSE]], polRunning' = polRunning
    PROVE  PolInv'
<1>1. /\ polHeap \in Seq(Seq(PolItems)) /\ polCur \in 1 .. Len(polHeap) /\ polReq \in [PolClients -> PolMoves]
      /\ polHeap' = Append(polHeap, new) /\ polCur' = Len(polHeap) + 1
  BY DEF PolInv, PolTypes, StagePolicies
<1>2. /\ polHeap' \in Seq(Seq(PolItems)) /\ Len(polHeap') = Len(polHeap) + 1
      /\ \A k \in 1 .. Len(polHeap) : polHeap'[k] = polHeap[k]
      /\ polHeap'[Len(polHeap) + 1] = new
  BY <1>1
<1>3. \A d \in PolClients : polReq'[d] = Apart(polReq[d]) /\ polReq'[d] \in PolMoves /\ polReq[d] \in PolMoves
  BY <1>1, ApartMove DEF Apart
<1>4. polReq' \in [PolClients -> PolMoves]
  BY <1>3
<1>5. PolTypes'
  BY <1>1, <1>2, <1>4 DEF PolTypes, PolInv
<1>6. PolBodies'
  BY <1>1, <1>2 DEF PolBodies, PolInv
<1>7. PolReqs'
  <2> SUFFICES ASSUME NEW d \in PolClients PROVE ReqSound(polReq'[d], polHeap', polCur')
    BY DEF PolReqs
  <2>1. ReqSound(polReq[d], polHeap, polCur)
    BY DEF PolInv, PolReqs
  <2>2. ReqSound(Apart(polReq[d]), Append(polHeap, new), Len(polHeap) + 1)
    BY <1>1, <1>3, <2>1, ReqAppend
  <2> QED BY <1>1, <1>3, <2>2
<1> QED BY <1>5, <1>6, <1>7 DEF PolInv

LEMMA OneBodyOfFewer ==
    ASSUME NEW l, NEW l2, Len(l2) = Len(l), OneBody(l),
           \A j \in 1 .. Len(l) : \E k \in 1 .. Len(l) : l2[j] = l[k]
    PROVE  OneBody(l2)
<1> SUFFICES ASSUME NEW i \in 1 .. Len(l), NEW j \in 1 .. Len(l), l2[i].name = l2[j].name PROVE l2[i] = l2[j]
  BY DEF OneBody
<1>1. PICK k \in 1 .. Len(l) : l2[i] = l[k]
  OBVIOUS
<1>2. PICK m \in 1 .. Len(l) : l2[j] = l[m]
  OBVIOUS
<1> QED BY <1>1, <1>2 DEF OneBody

LEMMA NoMoveSound == NoMove \in PolMoves /\ \A heap, cur : ReqSound(NoMove, heap, cur)
<1>1. NoMove \in PolMoves
  <2>1. <<>> \in Seq(PolItems)
    OBVIOUS
  <2> QED BY <2>1 DEF NoMove, PolMoves
<1> QED BY <1>1 DEF NoMove, ReqSound

\* Only c's request changes, and nothing it is about.
LEMMA OneRequest ==
    ASSUME PolInv, NEW c \in PolClients, NEW r \in PolMoves, ReqSound(r, polHeap, polCur),
           polReq' = [polReq EXCEPT ![c] = r], UNCHANGED <<polHeap, polCur, polRunning>>
    PROVE  PolInv'
<1>1. polReq' \in [PolClients -> PolMoves] /\ \A d \in PolClients : polReq'[d] = IF d = c THEN r ELSE polReq[d]
  BY DEF PolInv, PolTypes
<1>2. PolTypes' /\ PolBodies'
  BY <1>1 DEF PolInv, PolTypes, PolBodies
<1>3. PolReqs'
  BY <1>1 DEF PolInv, PolReqs
<1> QED BY <1>2, <1>3 DEF PolInv

LEMMA FindStep ==
    ASSUME PolInv, NEW c \in PolClients, NEW n, NEW t, NEW pos \in {"before", "after"}, FindPlaces(c, n, t, pos)
    PROVE  PolInv'
<1> DEFINE i == PlaceOf(StagedPolicies, n)
           j == PlaceOf(StagedPolicies, t)
           r == [NoMove EXCEPT !.pc = "found", !.move = i, !.target = j, !.pos = pos, !.before = StagedPolicies]
<1>1. i \in 1 .. Len(StagedPolicies) /\ j \in 1 .. Len(StagedPolicies) /\ StagedPolicies \in Seq(PolItems)
  <2>1. StagedPolicies \in Seq(PolItems)
    BY StagedTyped
  <2>2. i \in 0 .. Len(StagedPolicies) /\ j \in 0 .. Len(StagedPolicies)
    BY <2>1, PlaceOfLast
  <2>3. i # 0 /\ j # 0
    BY DEF FindPlaces
  <2> QED BY <2>1, <2>2, <2>3
<1>2. polReq' = [polReq EXCEPT ![c] = r] /\ UNCHANGED <<polHeap, polCur, polRunning>>
  BY DEF FindPlaces
<1> HIDE DEF i, j
<1>3. /\ r.pc = "found" /\ r.move = i /\ r.target = j /\ r.before = StagedPolicies
      /\ r \in PolMoves
  <2>1. NoMove \in PolMoves /\ DOMAIN NoMove = {"pc", "move", "target", "pos", "arr", "taken", "before", "after", "alone"}
    BY NoMoveSound DEF NoMove
  <2>2. NoMove.arr \in Nat /\ NoMove.taken \in PolItems \cup {0} /\ NoMove.after \in Seq(PolItems) /\ NoMove.alone \in BOOLEAN
    BY <2>1 DEF PolMoves
  <2>3. /\ r.pc = "found" /\ r.move = i /\ r.target = j /\ r.pos = pos /\ r.before = StagedPolicies
        /\ r.arr = NoMove.arr /\ r.taken = NoMove.taken /\ r.after = NoMove.after /\ r.alone = NoMove.alone
    BY <2>1
  <2>4. DOMAIN r = DOMAIN NoMove /\ r = [k \in DOMAIN r |-> r[k]]
    OBVIOUS
  <2>5. i \in Nat /\ j \in Nat
    BY <1>1
  <2> HIDE DEF r
  <2> QED BY <1>1, <2>1, <2>2, <2>3, <2>4, <2>5 DEF PolMoves
<1> HIDE DEF r
<1>4. FoundSound(r, polHeap, polCur)
  BY <1>1, <1>3 DEF FoundSound, PlacesIn, StagedPolicies
<1>5. ReqSound(r, polHeap, polCur)
  BY <1>3, <1>4 DEF ReqSound
<1> QED BY <1>2, <1>3, <1>5, OneRequest

LEMMA TakeOutStep ==
    ASSUME PolInv, NEW c \in PolClients, TakeOut(c)
    PROVE  PolInv'
<1> DEFINE r == polReq[c]
<1>1. /\ polHeap \in Seq(Seq(PolItems)) /\ polCur \in 1 .. Len(polHeap) /\ polReq \in [PolClients -> PolMoves]
      /\ \A d \in PolClients : ReqSound(polReq[d], polHeap, polCur)
      /\ r \in PolMoves /\ r.pc = "found"
  BY DEF PolInv, PolTypes, PolReqs, TakeOut
<1>2. FoundSound(r, polHeap, polCur)
  BY <1>1 DEF ReqSound
<1>3. CASE r.move > Len(StagedPolicies)
  <2>1. polReq' = [polReq EXCEPT ![c] = NoMove] /\ UNCHANGED <<polHeap, polCur, polRunning>>
    BY <1>3 DEF TakeOut
  <2> QED BY <2>1, NoMoveSound, OneRequest
<1>4. CASE ~(r.move > Len(StagedPolicies))
  <2> DEFINE p == StagedPolicies[r.move]
             r2 == [r EXCEPT !.pc = "taken", !.arr = polCur, !.taken = p]
             heap == [polHeap EXCEPT ![polCur] = Shifted(@, r.move)]
  <2>1. /\ StagedPolicies = polHeap[polCur] /\ StagedPolicies \in Seq(PolItems) /\ OneBody(StagedPolicies)
    BY StagedTyped DEF StagedPolicies
  <2>2. r.move \in 1 .. Len(polHeap[polCur]) /\ p \in PolItems
    <3>1. r.move \in Nat /\ r.move >= 1 /\ Len(StagedPolicies) \in Nat
      BY <1>1, <1>2, <2>1 DEF PolMoves, FoundSound
    <3> QED BY <1>4, <2>1, <3>1
  <2>3. /\ polHeap' = heap /\ UNCHANGED <<polCur, polRunning>>
        /\ polReq' = [Disturbed(c) EXCEPT ![c].pc = "taken", ![c].arr = polCur, ![c].taken = p]
    BY <1>4 DEF TakeOut
  <2>4. \A d \in PolClients : polReq'[d] = IF d = c THEN r2 ELSE Apart(polReq[d])
    BY <2>3 DEF Disturbed, Apart
  <2>5. /\ r2 \in PolMoves /\ r2.pc = "taken" /\ r2.arr = polCur /\ r2.taken = p /\ r2.move = r.move
        /\ r2.target = r.target /\ r2.alone = r.alone /\ r2.before = r.before
    <3>1. p \in PolItems /\ polCur \in Nat
      BY <1>1, <2>2
    <3> HIDE DEF p
    <3> QED BY <1>1, <3>1 DEF PolMoves
  <2> HIDE DEF r2, p, heap
  <2>6. polReq' \in [PolClients -> PolMoves]
    <3>1. \A d \in PolClients : polReq'[d] \in PolMoves
      BY <1>1, <2>4, <2>5, ApartMove
    <3>2. polReq' = [d \in PolClients |-> polReq'[d]]
      BY <2>3 DEF Disturbed
    <3> QED BY <3>1, <3>2
  <2>7. /\ Shifted(polHeap[polCur], r.move) \in Seq(PolItems)
        /\ Len(Shifted(polHeap[polCur], r.move)) = Len(polHeap[polCur])
        /\ \A j \in 1 .. Len(polHeap[polCur]) : \E k \in 1 .. Len(polHeap[polCur]) : Shifted(polHeap[polCur], r.move)[j] = polHeap[polCur][k]
    <3>1. /\ Shifted(polHeap[polCur], r.move) \in Seq(PolItems)
          /\ IsShifted(Shifted(polHeap[polCur], r.move), polHeap[polCur], r.move)
          /\ OnlyFrom(Shifted(polHeap[polCur], r.move), polHeap[polCur])
      BY <2>1, <2>2, ShiftedElements
    <3> QED BY <3>1 DEF IsShifted, OnlyFrom
  <2>8. /\ heap \in Seq(Seq(PolItems)) /\ Len(heap) = Len(polHeap)
        /\ \A k \in 1 .. Len(polHeap) : heap[k] = IF k = polCur THEN Shifted(polHeap[polCur], r.move) ELSE polHeap[k]
    BY <1>1, <2>7 DEF heap
  <2>9. PolTypes'
    BY <1>1, <2>3, <2>6, <2>8 DEF PolTypes, PolInv
  <2>10. PolBodies'
    <3>1. OneBody(Shifted(polHeap[polCur], r.move))
      BY <2>1, <2>7, OneBodyOfFewer
    <3>2. \A k \in 1 .. Len(heap) : OneBody(heap[k])
      BY <2>8, <3>1 DEF PolInv, PolBodies
    <3> QED BY <2>3, <3>2 DEF PolInv, PolBodies
  <2>11. TakenSound(r2, heap)
    <3>1. p = polHeap[polCur][r.move]
      BY <2>1 DEF p
    <3>2. \A i \in 1 .. Len(heap[polCur]) : heap[polCur][i].name = p.name => heap[polCur][i] = p
      <4>1. heap[polCur] = Shifted(polHeap[polCur], r.move)
        BY <1>1, <2>8
      <4>2. \A k \in 1 .. Len(polHeap[polCur]) : polHeap[polCur][k].name = p.name => polHeap[polCur][k] = p
        BY <2>1, <2>2, <3>1 DEF OneBody
      <4> QED BY <2>7, <4>1, <4>2
    <3>3. r.alone => /\ PlacesIn(r2, r2.before) /\ r2.taken = r2.before[r2.move]
                     /\ heap[r2.arr] = Shifted(r2.before, r2.move)
      BY <1>1, <1>2, <2>5, <2>8, <3>1 DEF FoundSound, PlacesIn
    <3>4. r2.move >= 1 /\ r2.target >= 1 /\ r2.arr \in 1 .. Len(heap) /\ r2.taken \in PolItems
      BY <1>1, <1>2, <2>2, <2>5, <2>8 DEF FoundSound
    <3> QED BY <2>5, <3>2, <3>3, <3>4 DEF TakenSound
  <2>12. PolReqs'
    <3> SUFFICES ASSUME NEW d \in PolClients PROVE ReqSound(polReq'[d], heap, polCur)
      BY <2>3 DEF PolReqs
    <3>1. CASE d = c
      BY <2>4, <2>5, <2>11, <3>1 DEF ReqSound
    <3>2. CASE d # c
      <4>1. ReqSound(Apart(polReq[d]), heap, polCur)
        BY <1>1, <2>2, ReqShift DEF heap
      <4> QED BY <2>4, <3>2, <4>1
    <3> QED BY <3>1, <3>2
  <2> QED BY <2>9, <2>10, <2>12 DEF PolInv
<1> QED BY <1>3, <1>4

LEMMA PutBackStep ==
    ASSUME PolInv, NEW c \in PolClients, PutBack(c)
    PROVE  PolInv'
<1> DEFINE r == polReq[c]
           old == polHeap[r.arr]
           rest == SubSeq(old, 1, Len(old) - 1)
           new == InsertAt(rest, InsertPlace(r), r.taken)
<1>1. /\ polHeap \in Seq(Seq(PolItems)) /\ polCur \in 1 .. Len(polHeap) /\ polReq \in [PolClients -> PolMoves]
      /\ \A d \in PolClients : ReqSound(polReq[d], polHeap, polCur)
      /\ r \in PolMoves /\ r.pc = "taken"
  BY DEF PolInv, PolTypes, PolReqs, PutBack
<1>2. TakenSound(r, polHeap)
  BY <1>1 DEF ReqSound
<1>3. CASE InsertPlace(r) > Len(rest) + 1
  <2>1. polReq' = [polReq EXCEPT ![c] = NoMove] /\ UNCHANGED <<polHeap, polCur, polRunning>>
    BY <1>3 DEF PutBack
  <2> QED BY <2>1, NoMoveSound, OneRequest
<1>4. CASE ~(InsertPlace(r) > Len(rest) + 1)
  <2> DEFINE r2 == [r EXCEPT !.pc = "done", !.after = new]
  <2>1. /\ StagePolicies(new) /\ polRunning' = polRunning
        /\ polReq' = [Disturbed(c) EXCEPT ![c].pc = "done", ![c].after = new]
    BY <1>4 DEF PutBack
  <2>2. old \in Seq(PolItems) /\ OneBody(old) /\ Len(old) \in Nat
    <3>1. r.arr \in 1 .. Len(polHeap)
      BY <1>2 DEF TakenSound
    <3> QED BY <1>1, <3>1 DEF PolInv, PolBodies
  <2>3. /\ rest \in Seq(PolItems) /\ Len(rest) <= Len(old)
        /\ \A j \in 1 .. Len(rest) : j \in 1 .. Len(old) /\ rest[j] = old[j]
    <3> HIDE DEF old
    <3> QED BY <2>2
  <2>4. InsertPlace(r) \in Nat /\ InsertPlace(r) >= 1
    <3>1. r.move \in Nat /\ r.target \in Nat /\ r.move >= 1 /\ r.target >= 1
      BY <1>1, <1>2 DEF PolMoves, TakenSound
    <3> HIDE DEF r
    <3> QED BY <3>1 DEF InsertPlace
  <2>5. InsertPlace(r) \in 1 .. Len(rest) + 1
    <3> HIDE DEF rest
    <3>1. Len(rest) \in Nat
      BY <2>3
    <3> QED BY <1>4, <2>4, <3>1
  <2>6. r.taken \in PolItems /\ \A j \in 1 .. Len(old) : old[j].name = r.taken.name => old[j] = r.taken
    BY <1>2 DEF TakenSound
  <2>7. /\ new \in Seq(PolItems) /\ Len(new) = Len(rest) + 1
        /\ \A j \in 1 .. Len(rest) + 1 :
             new[j] = IF j < InsertPlace(r) THEN rest[j] ELSE IF j = InsertPlace(r) THEN r.taken ELSE rest[j - 1]
    <3> DEFINE e == r.taken
               p == InsertPlace(r)
    <3>1. rest \in Seq(PolItems) /\ e \in PolItems /\ p \in 1 .. Len(rest) + 1
      BY <2>3, <2>5, <2>6
    <3> HIDE DEF rest, e, p, r
    <3>2. InsertAt(rest, p, e) \in Seq(PolItems) /\ IsInserted(InsertAt(rest, p, e), rest, p, e)
      BY <3>1, InsertedAt
    <3> QED BY <3>2 DEF IsInserted, e, p
  <2>8. \A j \in 1 .. Len(new) : new[j] = r.taken \/ \E k \in 1 .. Len(old) : new[j] = old[k]
    <3> SUFFICES ASSUME NEW j \in 1 .. Len(new) PROVE new[j] = r.taken \/ \E k \in 1 .. Len(old) : new[j] = old[k]
      OBVIOUS
    <3> HIDE DEF rest, new, old
    <3>1. Len(rest) \in Nat /\ j \in 1 .. Len(rest) + 1
      BY <2>3, <2>7
    <3>2. CASE j < InsertPlace(r)
      <4>1. j \in 1 .. Len(rest) /\ new[j] = rest[j]
        BY <2>5, <2>7, <3>1, <3>2
      <4> QED BY <2>3, <4>1
    <3>3. CASE j = InsertPlace(r)
      BY <2>7, <3>1, <3>3
    <3>4. CASE j > InsertPlace(r)
      <4>1. j - 1 \in 1 .. Len(rest) /\ new[j] = rest[j - 1]
        BY <2>5, <2>7, <3>1, <3>4
      <4> QED BY <2>3, <4>1
    <3> QED BY <2>5, <3>1, <3>2, <3>3, <3>4
  <2>9. OneBody(new)
    <3> HIDE DEF new, rest, old
    <3> SUFFICES ASSUME NEW i \in 1 .. Len(new), NEW j \in 1 .. Len(new), new[i].name = new[j].name PROVE new[i] = new[j]
      BY DEF OneBody
    <3>1. new[i] = r.taken \/ \E k \in 1 .. Len(old) : new[i] = old[k]
      BY <2>8
    <3>2. new[j] = r.taken \/ \E k \in 1 .. Len(old) : new[j] = old[k]
      BY <2>8
    <3> QED BY <2>2, <2>6, <3>1, <3>2 DEF OneBody
  <2>10. /\ r2 \in PolMoves /\ r2.pc = "done" /\ r2.move = r.move /\ r2.target = r.target /\ r2.pos = r.pos
         /\ r2.alone = r.alone /\ r2.before = r.before /\ r2.after = new
    <3> HIDE DEF new
    <3> QED BY <1>1, <2>7 DEF PolMoves
  <2>11. \A d \in PolClients : polReq'[d] = IF d = c THEN r2 ELSE Apart(polReq[d])
    BY <2>1 DEF Disturbed, Apart
  <2>12. polReq' \in [PolClients -> PolMoves]
    <3> HIDE DEF r2
    <3>1. \A d \in PolClients : polReq'[d] \in PolMoves
      BY <1>1, <2>10, <2>11, ApartMove
    <3>2. polReq' = [d \in PolClients |-> polReq'[d]]
      BY <2>1 DEF Disturbed
    <3> QED BY <3>1, <3>2
  <2>13. polHeap' = Append(polHeap, new) /\ polCur' = Len(polHeap) + 1
    BY <2>1 DEF StagePolicies
  <2>14. /\ polHeap' \in Seq(Seq(PolItems)) /\ Len(polHeap') = Len(polHeap) + 1
         /\ \A k \in 1 .. Len(polHeap) : polHeap'[k] = polHeap[k]
         /\ polHeap'[Len(polHeap) + 1] = new
    <3> HIDE DEF new
    <3> QED BY <1>1, <2>7, <2>13
  <2>15. PolTypes'
    BY <1>1, <2>1, <2>12, <2>13, <2>14 DEF PolTypes, PolInv
  <2>16. PolBodies'
    <3> HIDE DEF new
    <3>1. \A k \in 1 .. Len(polHeap) + 1 : OneBody(polHeap'[k])
      <4>1. \A k \in 1 .. Len(polHeap) : OneBody(polHeap'[k])
        BY <2>14 DEF PolBodies, PolInv
      <4>2. Len(polHeap) \in Nat /\ \A k \in 1 .. Len(polHeap) + 1 : k \in 1 .. Len(polHeap) \/ k = Len(polHeap) + 1
        BY <1>1
      <4> QED BY <2>9, <2>14, <4>1, <4>2
    <3> QED BY <2>1, <2>14, <3>1 DEF PolBodies, PolInv
  <2>17. r.alone /\ r.move # r.target => Moved(r2)
    <3> SUFFICES ASSUME r.alone, r.move # r.target PROVE Moved(r2)
      OBVIOUS
    <3>1. /\ r.move \in 1 .. Len(r.before) /\ r.target \in 1 .. Len(r.before) /\ r.taken = r.before[r.move]
          /\ old = Shifted(r.before, r.move)
      BY <1>2 DEF TakenSound, PlacesIn
    <3>2. r.before \in Seq(PolItems) /\ r.pos \in {"before", "after"}
      BY <1>1 DEF PolMoves
    <3>3. Len(old) = Len(r.before)
      <4>1. IsShifted(old, r.before, r.move)
        BY <3>1, <3>2, ShiftedElements
      <4> QED BY <4>1 DEF IsShifted
    <3>4. new = InsertAt(SubSeq(Shifted(r.before, r.move), 1, Len(r.before) - 1), InsertPlace(r), r.before[r.move])
      BY <3>1, <3>3
    <3>5. InsertPlace(r2) = InsertPlace(r)
      BY <2>10 DEF InsertPlace
    <3>6. InsertPlace(r) \in 1 .. Len(r.before)
      <4>1. Len(r.before) \in Nat /\ Len(r.before) >= 1
        BY <3>1, <3>2
      <4>2. Len(rest) = Len(old) - 1
        <5> HIDE DEF old
        <5> QED BY <2>2, <3>3, <4>1
      <4> QED BY <2>5, <3>3, <4>1, <4>2
    <3> HIDE DEF r2, new, old, rest, r
    <3> QED BY <2>10, <3>1, <3>2, <3>4, <3>5, <3>6, PutIsMoved
  <2>18. PolReqs'
    <3> SUFFICES ASSUME NEW d \in PolClients PROVE ReqSound(polReq'[d], polHeap', polCur')
      BY DEF PolReqs
    <3> HIDE DEF r2, new
    <3>1. CASE d = c
      BY <2>10, <2>11, <2>17, <3>1 DEF ReqSound
    <3>2. CASE d # c
      <4>1. polReq[d] \in PolMoves /\ ReqSound(polReq[d], polHeap, polCur)
        BY <1>1
      <4>2. ReqSound(Apart(polReq[d]), Append(polHeap, new), Len(polHeap) + 1)
        BY <1>1, <2>7, <4>1, ReqAppend
      <4> QED BY <2>11, <2>13, <3>2, <4>2
    <3> QED BY <3>1, <3>2
  <2> QED BY <2>15, <2>16, <2>18 DEF PolInv
<1> QED BY <1>3, <1>4

LEMMA NewOrderStep ==
    ASSUME PolInv, NEW order, IsFiniteSet(ToSet(order)), NewOrder(order)
    PROVE  PolInv'
<1> DEFINE K == {n \in ToSet(order) : PlaceOf(StagedPolicies, n) # 0}
<1>1. PICK known \in SetToSeqs(K) :
         StagePolicies([i \in DOMAIN known |-> StagedPolicies[PlaceOf(StagedPolicies, known[i])]])
  BY DEF NewOrder
<1> DEFINE new == [i \in DOMAIN known |-> StagedPolicies[PlaceOf(StagedPolicies, known[i])]]
<1>2. IsFiniteSet(K) /\ Cardinality(K) \in Nat
  BY FS_Subset, FS_CardinalityType
<1>3. known \in [1 .. Cardinality(K) -> K]
  BY DEF SetToSeqs
<1>4. \A i \in 1 .. Cardinality(K) : PlaceOf(StagedPolicies, known[i]) \in 1 .. Len(StagedPolicies)
  <2> SUFFICES ASSUME NEW i \in 1 .. Cardinality(K) PROVE PlaceOf(StagedPolicies, known[i]) \in 1 .. Len(StagedPolicies)
    OBVIOUS
  <2>1. PlaceOf(StagedPolicies, known[i]) # 0
    BY <1>3
  <2>2. PlaceOf(StagedPolicies, known[i]) \in 0 .. Len(StagedPolicies) /\ Len(StagedPolicies) \in Nat
    BY StagedTyped, PlaceOfLast
  <2> QED BY <2>1, <2>2
<1>5. /\ new \in Seq(PolItems) /\ Len(new) = Cardinality(K)
      /\ \A j \in 1 .. Len(new) : \E k \in 1 .. Len(StagedPolicies) : new[j] = StagedPolicies[k]
  <2> DEFINE n == Cardinality(K)
  <2>1. DOMAIN known = 1 .. n /\ n \in Nat
    BY <1>2, <1>3
  <2> HIDE DEF n, K
  <2>2. new = [i \in 1 .. n |-> StagedPolicies[PlaceOf(StagedPolicies, known[i])]]
    BY <2>1
  <2>3. \A i \in 1 .. n : new[i] = StagedPolicies[PlaceOf(StagedPolicies, known[i])]
    BY <2>2
  <2>4. StagedPolicies \in Seq(PolItems)
    BY StagedTyped
  <2>5. \A i \in 1 .. n : \E k \in 1 .. Len(StagedPolicies) : new[i] = StagedPolicies[k]
    BY <1>4, <2>3 DEF n
  <2>6. \A i \in 1 .. n : new[i] \in PolItems
    BY <2>4, <2>5
  <2>7. new \in [1 .. n -> PolItems]
    BY <2>2, <2>6
  <2>8. new \in Seq(PolItems) /\ Len(new) = n
    BY <2>1, <2>7
  <2> QED BY <2>5, <2>8 DEF n
<1>6. OneBody(new)
  <2>1. OneBody(StagedPolicies)
    BY StagedTyped
  <2> HIDE DEF new
  <2> SUFFICES ASSUME NEW i \in 1 .. Len(new), NEW j \in 1 .. Len(new), new[i].name = new[j].name PROVE new[i] = new[j]
    BY DEF OneBody
  <2>2. PICK k \in 1 .. Len(StagedPolicies) : new[i] = StagedPolicies[k]
    BY <1>5
  <2>3. PICK m \in 1 .. Len(StagedPolicies) : new[j] = StagedPolicies[m]
    BY <1>5
  <2> QED BY <2>1, <2>2, <2>3 DEF OneBody
<1>7. StagePolicies(new)
  BY <1>1
<1>8. polReq' = [d \in PolClients |-> [polReq[d] EXCEPT !.alone = FALSE]] /\ polRunning' = polRunning
  BY DEF NewOrder
<1> HIDE DEF new
<1> QED BY <1>5, <1>6, <1>7, <1>8, StageStep

LEMMA EditStep ==
    ASSUME PolInv, NEW n, EditPolicy(n)
    PROVE  PolInv'
<1> DEFINE s == StagedPolicies
           edited(p) == IF p.name = n THEN [p EXCEPT !.body = 1 - @] ELSE p
           new == [i \in DOMAIN s |-> IF s[i].name = n THEN [s[i] EXCEPT !.body = 1 - @] ELSE s[i]]
<1>1. s \in Seq(PolItems) /\ OneBody(s)
  BY StagedTyped
<1>2. \A p \in PolItems : edited(p) \in PolItems /\ edited(p).name = p.name
  BY DEF PolItems
<1>3. \A i \in 1 .. Len(s) : new[i] = edited(s[i]) /\ s[i] \in PolItems
  BY <1>1
<1>4. new \in Seq(PolItems) /\ Len(new) = Len(s)
  <2>1. DOMAIN new = 1 .. Len(s) /\ Len(s) \in Nat
    BY <1>1
  <2>2. \A i \in 1 .. Len(s) : new[i] \in PolItems
    BY <1>2, <1>3
  <2>3. new = [i \in 1 .. Len(s) |-> new[i]]
    BY <2>1
  <2> HIDE DEF new, s
  <2>4. new \in [1 .. Len(s) -> PolItems]
    BY <2>2, <2>3
  <2> QED BY <2>1, <2>4
<1>5. StagePolicies(new) /\ polReq' = [d \in PolClients |-> [polReq[d] EXCEPT !.alone = FALSE]] /\ polRunning' = polRunning
  BY DEF EditPolicy
<1>6. OneBody(new)
  <2> SUFFICES ASSUME NEW i \in 1 .. Len(s), NEW j \in 1 .. Len(s), new[i].name = new[j].name PROVE new[i] = new[j]
    BY <1>4 DEF OneBody
  <2> HIDE DEF new, s, edited
  <2>1. s[i].name = s[j].name
    BY <1>2, <1>3
  <2>2. s[i] = s[j]
    BY <1>1, <2>1 DEF OneBody
  <2> QED BY <1>3, <2>2
<1> HIDE DEF new
<1> QED BY <1>4, <1>5, <1>6, StageStep

LEMMA PolStep == ASSUME PolInv, [PolNext]_polVars PROVE PolInv'
<1>1. ASSUME NEW c \in PolClients, NEW n \in PolNames, NEW t \in PolNames, NEW pos \in {"before", "after"}, FindPlaces(c, n, t, pos)
      PROVE  PolInv'
  BY <1>1, FindStep
<1>2. ASSUME NEW c \in PolClients, TakeOut(c) PROVE PolInv'
  BY <1>2, TakeOutStep
<1>3. ASSUME NEW c \in PolClients, PutBack(c) PROVE PolInv'
  BY <1>3, PutBackStep
<1>4. ASSUME NEW c \in PolClients, ReorderAnswered(c) PROVE PolInv'
  BY <1>4, NoMoveSound, OneRequest DEF ReorderAnswered
<1>5. ASSUME NEW order \in SetToSeqs(PolNames) \cup {<<n>> : n \in PolNames}, NewOrder(order) PROVE PolInv'
  <2>1. IsFiniteSet(ToSet(order))
    <3>1. ToSet(order) \subseteq PolNames
      <4>1. CASE order \in SetToSeqs(PolNames)
        BY <4>1 DEF ToSet, SetToSeqs
      <4>2. ASSUME NEW n \in PolNames, order = <<n>> PROVE ToSet(order) \subseteq PolNames
        BY <4>2 DEF ToSet
      <4> QED BY <1>5, <4>1, <4>2
    <3> QED BY <3>1, PolAssumption, FS_Subset
  <2> QED BY <1>5, <2>1, NewOrderStep
<1>6. ASSUME NEW n \in PolNames, EditPolicy(n) PROVE PolInv'
  BY <1>6, EditStep
<1>7. CASE ApplyStaged
  <2>1. polRunning' = StagedPolicies /\ UNCHANGED <<polHeap, polCur, polReq>>
    BY <1>7 DEF ApplyStaged
  <2>2. PolTypes' /\ PolBodies'
    BY <2>1, StagedTyped DEF PolInv, PolTypes, PolBodies
  <2>3. PolReqs'
    BY <2>1 DEF PolInv, PolReqs
  <2> QED BY <2>2, <2>3 DEF PolInv
<1>8. CASE DiscardStaged
  <2>1. /\ StagePolicies(polRunning) /\ polRunning' = polRunning
        /\ polReq' = [d \in PolClients |-> [polReq[d] EXCEPT !.alone = FALSE]]
    BY <1>8 DEF DiscardStaged
  <2>2. polRunning \in Seq(PolItems) /\ OneBody(polRunning)
    BY DEF PolInv, PolTypes, PolBodies
  <2> QED BY <2>1, <2>2, StageStep
<1>9. CASE UNCHANGED polVars
  <2>1. UNCHANGED <<polHeap, polCur, polRunning, polReq>>
    BY <1>9 DEF polVars
  <2> QED BY <2>1 DEF PolInv, PolTypes, PolBodies, PolReqs
<1> QED BY <1>1, <1>2, <1>3, <1>4, <1>5, <1>6, <1>7, <1>8, <1>9 DEF PolNext

LEMMA PolStart == PolInit => PolInv
<1> SUFFICES ASSUME PolInit PROVE PolInv
  OBVIOUS
<1>1. PICK names \in SUBSET PolNames : \E order \in SetToSeqs(names) :
             polHeap = <<[i \in DOMAIN order |-> [name |-> order[i], body |-> 0]]>>
  BY DEF PolInit
<1>a. PICK order \in SetToSeqs(names) : polHeap = <<[i \in DOMAIN order |-> [name |-> order[i], body |-> 0]]>>
  BY <1>1
<1> DEFINE list == [i \in DOMAIN order |-> [name |-> order[i], body |-> 0]]
           n == Cardinality(names)
<1>2. n \in Nat /\ order \in [1 .. n -> PolNames]
  <2>1. n \in Nat
    BY PolAssumption, FS_Subset, FS_CardinalityType
  <2>2. order \in [1 .. n -> names]
    BY DEF SetToSeqs
  <2> QED BY <2>1, <2>2
<1> HIDE DEF n
<1>3. /\ list = [i \in 1 .. n |-> [name |-> order[i], body |-> 0]]
      /\ \A i \in 1 .. n : [name |-> order[i], body |-> 0] \in PolItems
  BY <1>2 DEF PolItems
<1>4. list \in Seq(PolItems) /\ Len(list) = n /\ \A i \in 1 .. n : list[i] = [name |-> order[i], body |-> 0]
  <2>1. list \in [1 .. n -> PolItems]
    BY <1>3
  <2> QED BY <1>2, <1>3, <2>1
<1> HIDE DEF list
<1>5. OneBody(list)
  BY <1>4 DEF OneBody
<1>6. polHeap = <<list>> /\ polCur = 1 /\ polRunning = polHeap[1] /\ polReq = [c \in PolClients |-> NoMove]
  BY <1>a DEF PolInit, list
<1>7. polHeap \in Seq(Seq(PolItems)) /\ Len(polHeap) = 1 /\ polHeap[1] = list
  BY <1>4, <1>6
<1>8. PolTypes
  BY <1>4, <1>6, <1>7, NoMoveSound DEF PolTypes
<1>9. PolBodies
  BY <1>5, <1>6, <1>7 DEF PolBodies
<1>10. PolReqs
  BY <1>6, NoMoveSound DEF PolReqs
<1> QED BY <1>8, <1>9, <1>10 DEF PolInv

-----------------------------------------------------------------------------
(* What the invariant says of the statuses.                                *)

LEMMA StatusesFollow ==
    ASSUME NEW staged \in Seq(PolItems), NEW running \in Seq(PolItems), OneBody(running),
           ZonesApart(staged \o running)
    PROVE  BuildConfigWithStatus(staged, running).pending <=> ToSet(staged) # ToSet(running)
<1>1. \A i \in 1 .. Len(staged), j \in 1 .. Len(running) :
         PolZones[staged[i].name] = PolZones[running[j].name] => staged[i].name = running[j].name
  <2> SUFFICES ASSUME NEW i \in 1 .. Len(staged), NEW j \in 1 .. Len(running),
                      PolZones[staged[i].name] = PolZones[running[j].name]
               PROVE  staged[i].name = running[j].name
    OBVIOUS
  <2> DEFINE both == staged \o running
  <2>1. /\ both \in Seq(PolItems) /\ Len(both) = Len(staged) + Len(running)
        /\ \A k \in 1 .. Len(staged) + Len(running) : both[k] = IF k <= Len(staged) THEN staged[k] ELSE running[k - Len(staged)]
    BY ConcatProperties
  <2>2. Len(staged) \in Nat /\ Len(running) \in Nat
    OBVIOUS
  <2> HIDE DEF both
  <2>3. i \in DOMAIN both /\ Len(staged) + j \in DOMAIN both
    BY <2>1, <2>2
  <2>4. both[i] = staged[i] /\ both[Len(staged) + j] = running[j]
    BY <2>1, <2>2
  <2>5. \A k, l \in DOMAIN both : PolZones[both[k].name] = PolZones[both[l].name] => both[k].name = both[l].name
    BY DEF ZonesApart, both
  <2> QED BY <2>3, <2>4, <2>5
<1> DEFINE live(i) == ItemStatus(staged[i], running) = "live"
<1>2. \A i \in 1 .. Len(staged) : live(i) <=> \E j \in 1 .. Len(running) : running[j] = staged[i]
  <2> SUFFICES ASSUME NEW i \in 1 .. Len(staged)
               PROVE  live(i) <=> \E j \in 1 .. Len(running) : running[j] = staged[i]
    OBVIOUS
  <2> DEFINE k == KeyPlace(running, staged[i])
  <2>1. /\ k \in 0 .. Len(running)
        /\ k # 0 => PolZones[running[k].name] = PolZones[staged[i].name]
        /\ k = 0 <=> \A j \in 1 .. Len(running) : PolZones[running[j].name] # PolZones[staged[i].name]
    BY KeyPlaceLast
  <2>2. live(i) <=> k # 0 /\ running[k] = staged[i]
    BY DEF ItemStatus
  <2> HIDE DEF k, live
  <2>3. k # 0 => k \in 1 .. Len(running)
    BY <2>1
  <2>4. ASSUME NEW j \in 1 .. Len(running), running[j] = staged[i] PROVE k # 0 /\ running[k] = staged[i]
    <3>1. k # 0
      BY <2>1, <2>4
    <3>2. running[k].name = staged[i].name
      BY <1>1, <2>1, <2>3, <3>1
    <3> QED BY <2>3, <2>4, <3>1, <3>2 DEF OneBody
  <2> QED BY <2>2, <2>3, <2>4
<1>3. \A j \in 1 .. Len(running) : running[j] \in DeletedItems(staged, running)
                                   <=> \A i \in 1 .. Len(staged) : staged[i].name # running[j].name
  <2> SUFFICES ASSUME NEW j \in 1 .. Len(running)
               PROVE  running[j] \in DeletedItems(staged, running) <=> \A i \in 1 .. Len(staged) : staged[i].name # running[j].name
    OBVIOUS
  <2>1. running[j] \in ToSet(running)
    BY DEF ToSet
  <2>2. KeyPlace(staged, running[j]) = 0 <=> \A i \in 1 .. Len(staged) : PolZones[staged[i].name] # PolZones[running[j].name]
    BY KeyPlaceLast
  <2> QED BY <1>1, <2>1, <2>2 DEF DeletedItems
<1>4. BuildConfigWithStatus(staged, running).pending
        <=> \/ \E i \in 1 .. Len(staged) : ~live(i)
            \/ DeletedItems(staged, running) # {}
  <2> DEFINE st == SectionStatuses(staged, running)
  <2>1. /\ DOMAIN st.items = 1 .. Len(staged) /\ \A i \in 1 .. Len(staged) : st.items[i] = ItemStatus(staged[i], running)
        /\ DOMAIN st.deleted = DeletedItems(staged, running)
        /\ \A p \in DeletedItems(staged, running) : st.deleted[p] = "pending_delete"
    BY DEF SectionStatuses
  <2>2. BuildConfigWithStatus(staged, running).pending = HasAnyPending(st)
    BY DEF BuildConfigWithStatus
  <2> HIDE DEF st
  <2>3. HasAnyPending(st) <=> (\E i \in 1 .. Len(staged) : ~live(i)) \/ DeletedItems(staged, running) # {}
    BY <2>1 DEF HasAnyPending
  <2> QED BY <2>2, <2>3
<1>5. DeletedItems(staged, running) \subseteq {running[j] : j \in 1 .. Len(running)}
  BY DEF DeletedItems, ToSet
<1>6. ToSet(staged) = ToSet(running) <=>
        /\ \A i \in 1 .. Len(staged) : \E j \in 1 .. Len(running) : running[j] = staged[i]
        /\ \A j \in 1 .. Len(running) : \E i \in 1 .. Len(staged) : running[j] = staged[i]
  <2>1. DOMAIN staged = 1 .. Len(staged) /\ DOMAIN running = 1 .. Len(running)
    OBVIOUS
  <2>2. \A x : x \in ToSet(staged) <=> \E i \in 1 .. Len(staged) : x = staged[i]
    BY <2>1 DEF ToSet
  <2>3. \A x : x \in ToSet(running) <=> \E i \in 1 .. Len(running) : x = running[i]
    BY <2>1 DEF ToSet
  <2> DEFINE A == ToSet(staged)
             B == ToSet(running)
             inB == \A i \in 1 .. Len(staged) : \E j \in 1 .. Len(running) : running[j] = staged[i]
             inA == \A j \in 1 .. Len(running) : \E i \in 1 .. Len(staged) : running[j] = staged[i]
  <2>4. A \subseteq B <=> inB
    BY <2>2, <2>3
  <2>5. B \subseteq A <=> inA
    BY <2>2, <2>3
  <2> HIDE DEF A, B, inA, inB
  <2>6. A = B <=> inB /\ inA
    BY <2>4, <2>5
  <2> QED BY <2>6 DEF A, B, inA, inB
<1> HIDE DEF live
<1>7. (\A i \in 1 .. Len(staged) : live(i)) /\ DeletedItems(staged, running) = {} => ToSet(staged) = ToSet(running)
  <2> SUFFICES ASSUME \A i \in 1 .. Len(staged) : live(i), DeletedItems(staged, running) = {},
                      NEW j \in 1 .. Len(running)
               PROVE  \E i \in 1 .. Len(staged) : running[j] = staged[i]
    BY <1>2, <1>6
  <2>1. PICK i \in 1 .. Len(staged) : staged[i].name = running[j].name
    BY <1>3
  <2>2. PICK k \in 1 .. Len(running) : running[k] = staged[i]
    BY <1>2
  <2> QED BY <2>1, <2>2 DEF OneBody
<1>8. ToSet(staged) = ToSet(running) => (\A i \in 1 .. Len(staged) : live(i)) /\ DeletedItems(staged, running) = {}
  <2> SUFFICES ASSUME ToSet(staged) = ToSet(running)
               PROVE  (\A i \in 1 .. Len(staged) : live(i)) /\ DeletedItems(staged, running) = {}
    OBVIOUS
  <2>1. \A i \in 1 .. Len(staged) : live(i)
    BY <1>2, <1>6
  <2>2. \A j \in 1 .. Len(running) : running[j] \notin DeletedItems(staged, running)
    BY <1>3, <1>6
  <2> QED BY <1>5, <2>1, <2>2
<1> QED BY <1>4, <1>7, <1>8

\* With any number of clients that move, reorder, edit, apply and discard the
\* staged policies, in any interleaving: a move of handlePolicyReorder that
\* nothing else disturbed keeps the other policies in their order and puts the
\* moved one beside its target; and, unless policies share their zones, what
\* BuildConfigWithStatus shows announces a change exactly when applying the
\* staged list would change which policies there are.
THEOREM OrderHolds == PolSpec => []OrderAsAsked
<1>1. PolInit => PolInv
  BY PolStart
<1>2. PolInv /\ [PolNext]_polVars => PolInv'
  BY PolStep
<1>3. PolInv => OrderAsAsked
  <2> SUFFICES ASSUME PolInv PROVE OrderAsAsked
    OBVIOUS
  <2>1. MovedWhereAsked
    BY DEF PolInv, PolReqs, ReqSound, MovedWhereAsked
  <2>2. StatusesTrue
    <3>1. StagedPolicies \in Seq(PolItems) /\ polRunning \in Seq(PolItems) /\ OneBody(polRunning)
      BY StagedTyped DEF PolInv, PolTypes, PolBodies
    <3> SUFFICES ASSUME ZonesApart(StagedPolicies \o polRunning)
                 PROVE  BuildConfigWithStatus(StagedPolicies, polRunning).pending <=> ToSet(StagedPolicies) # ToSet(polRunning)
      BY DEF StatusesTrue
    <3> QED BY <3>1, StatusesFollow
  <2> QED BY <2>1, <2>2 DEF OrderAsAsked
<1> QED BY <1>1, <1>2, <1>3, PTL DEF PolSpec

-----------------------------------------------------------------------------
(***************************************************************************)
(* FirewallManager                                                         *)
(***************************************************************************)

USE FirewallAssumption, SentinelAssumption

\* Merging rules into a configuration gives a configuration.
LEMMA MergeType ==
    ASSUME NEW b \in Config, NEW dyn \in [Rules -> Nat], NEW sch \in SUBSET Scheds
    PROVE  Merge(b, dyn, sch) \in Config
<1>1. [r \in Rules |-> b.nat[r] + dyn[r]] \in [Rules -> Nat]
  BY DEF Config
<1>2. [s \in Scheds |-> IF s \in sch THEN b.sched[s] + 1 ELSE b.sched[s]] \in [Scheds -> Nat]
  BY DEF Config
<1> QED BY <1>1, <1>2 DEF Merge, Config

\* A configuration as written is a configuration.
LEMMA PlainType == \A c \in Configs : Plain(c) \in Config
BY DEF Plain, Config

-----------------------------------------------------------------------------
(* Types                                                                   *)

\* ApplyConfig keeps the types of what it changes.
LEMMA ApplyConfigType ==
    ASSUME TypeOK, NEW b \in Config, ApplyConfig(b)
    PROVE  /\ base' \in Config /\ current' \in Config
           /\ dynamic' \in [Rules -> Nat] /\ scheduled' \subseteq Scheds
           /\ expected' \in Gens \cup {0} /\ gen' \in Gens \cup {0}
           /\ enabled' \in BOOLEAN /\ rendered' \in BOOLEAN /\ safeMode' \in BOOLEAN
           /\ kernel' \in Config \cup {NoConfig, SafeRules, Tampered}
           /\ applied' \in BOOLEAN /\ fails' \in Nat
<1>1. Merge(b, dynamic, scheduled) \in Config
  BY MergeType DEF TypeOK
<1>2. base' = b /\ current' = Merge(b, dynamic, scheduled)
  BY DEF ApplyConfig
<1>3. UNCHANGED <<dynamic, scheduled, rendered, safeMode>> /\ enabled' \in BOOLEAN
  BY DEF ApplyConfig
<1>4. /\ kernel' \in Config \cup {NoConfig, SafeRules, Tampered}
      /\ gen' \in Gens \cup {0} /\ expected' \in Gens \cup {0} /\ fails' \in Nat
      /\ applied' \in BOOLEAN
  <2>1. CASE Load(Merge(b, dynamic, scheduled)) /\ applied' = TRUE
             /\ (NoteGeneration \/ UNCHANGED <<expected, fails>>)
    BY <1>1, <2>1 DEF Load, NoteGeneration, Fail, TypeOK
  <2>2. CASE Fail /\ applied' = FALSE /\ UNCHANGED <<kernel, gen, expected>>
    <3>1. applied' \in BOOLEAN
      BY <2>2, Zenon
    <3> QED BY <2>2, <3>1 DEF Fail, TypeOK
  <2> QED BY <2>1, <2>2 DEF ApplyConfig
<1> QED BY <1>1, <1>2, <1>3, <1>4 DEF TypeOK

\* Every variable keeps its type; the monitor restores a configuration, never nil.
LEMMA TypeStep == TypeOK /\ FirewallInv /\ [Next]_vars => TypeOK'
<1> SUFFICES ASSUME TypeOK, FirewallInv, [Next]_vars PROVE TypeOK'
  OBVIOUS
<1>0. ASSUME NEW w \in Callers, Remember(w)
      PROVE  caller' \in [Callers -> Config \cup {NoConfig}] /\ ops' \in Nat
  BY <1>0 DEF Remember, Op, TypeOK
<1>1. ASSUME NEW c \in Configs, Apply(c) PROVE TypeOK'
  <2>1. Plain(c) \in Config /\ ApplyConfig(Plain(c))
    BY <1>1, PlainType DEF Apply
  <2>2. ops' \in Nat /\ UNCHANGED <<caller, monitor, restored>>
    BY <1>1 DEF Apply, Op, TypeOK
  <2> QED BY <2>1, <2>2, ApplyConfigType DEF TypeOK
<1>2. ASSUME NEW w \in Callers, NEW r \in Rules,
             AddDynamicNATRule(w, r) \/ RemoveDynamicNATRule(w, r)
      PROVE  TypeOK'
  BY <1>0, <1>2 DEF AddDynamicNATRule, RemoveDynamicNATRule, TypeOK
<1>3. ASSUME NEW w \in Callers, NEW s \in Scheds, NEW on \in BOOLEAN,
             ApplyScheduledRule(w, s, on)
      PROVE  TypeOK'
  <2>1. scheduled' \subseteq Scheds
    BY <1>3 DEF ApplyScheduledRule, TypeOK
  <2> QED BY <1>0, <1>3, <2>1 DEF ApplyScheduledRule, TypeOK
<1>4. ASSUME NEW w \in Callers, ExitSafeMode(w) PROVE TypeOK'
  <2>1. safeMode' \in BOOLEAN
    BY <1>4, Zenon DEF ExitSafeMode
  <2> QED BY <1>0, <1>4, <2>1 DEF ExitSafeMode, TypeOK
<1>5. ASSUME NEW w \in Callers, Reapply(w) PROVE TypeOK'
  <2>1. caller[w] \in Config /\ ApplyConfig(caller[w])
    BY <1>5 DEF Reapply, TypeOK
  <2>2. caller' \in [Callers -> Config \cup {NoConfig}] /\ UNCHANGED <<monitor, restored, ops>>
    BY <1>5 DEF Reapply, TypeOK
  <2> QED BY <2>1, <2>2, ApplyConfigType DEF TypeOK
<1>6. ASSUME PreRenderSafeMode \/ ApplySafeMode PROVE TypeOK'
  <2>1. rendered' \in BOOLEAN /\ safeMode' \in BOOLEAN
    BY <1>6, Zenon DEF PreRenderSafeMode, ApplySafeMode, TypeOK
  <2> QED BY <1>6, <2>1 DEF PreRenderSafeMode, ApplySafeMode, Load, Op, TypeOK
<1>7. ASSUME Tamper PROVE TypeOK'
  BY <1>7 DEF Tamper, Load, Op, TypeOK, mgr
<1>8. ASSUME MonitorStarts \/ MonitorReads \/ MonitorCompares \/ MonitorCleansUp
      PROVE  TypeOK'
  <2>1. CASE MonitorStarts BY <2>1 DEF MonitorStarts, TypeOK
  <2>2. CASE MonitorReads BY <2>2 DEF MonitorReads, TypeOK, mgr
  <2>3. CASE MonitorCompares BY <2>3 DEF MonitorCompares, Fail, TypeOK, mgr
  <2>4. CASE MonitorCleansUp BY <2>4 DEF MonitorCleansUp, TypeOK, mgr
  <2> QED BY <1>8, <2>1, <2>2, <2>3, <2>4
<1>9. ASSUME MonitorRestores PROVE TypeOK'
  <2>1. monitor.target \in Config /\ ApplyConfig(monitor.target)
    BY <1>9 DEF MonitorRestores, FirewallInv, TypeOK
  <2>2. UNCHANGED <<caller, ops>> /\ restored' \in BOOLEAN
    BY <1>9, Zenon DEF MonitorRestores
  <2>3. monitor' \in [pc : {"off", "idle", "compare", "cleanup", "restore"},
                      expected : Gens \cup {0}, target : Config \cup {NoConfig}]
    BY <1>9 DEF MonitorRestores, TypeOK
  <2> QED BY <2>1, <2>2, <2>3, ApplyConfigType DEF TypeOK
<1>10. CASE UNCHANGED vars
  BY <1>10 DEF vars, mgr, TypeOK
<1> QED BY <1>1, <1>2, <1>3, <1>4, <1>5, <1>6, <1>7, <1>8, <1>9, <1>10 DEF Next, MonitorNext

-----------------------------------------------------------------------------
(* No rule change is lost                                                  *)

\* What ApplyConfig establishes: after a success the ruleset is the merge.
LEMMA ApplyConfigSync ==
    ASSUME TypeOK, NEW b \in Config, ApplyConfig(b)
    PROVE  /\ base' # NoConfig /\ current' # NoConfig
           /\ applied' => /\ kernel' = Merge(base', dynamic', scheduled')
                          /\ kernel' # SafeRules
<1>1. base' = b /\ current' = Merge(b, dynamic, scheduled)
      /\ UNCHANGED <<dynamic, scheduled>>
  BY DEF ApplyConfig
<1>2. Merge(b, dynamic, scheduled) \in Config
  BY MergeType DEF TypeOK
<1>3. applied' = FALSE \/ kernel' = Merge(b, dynamic, scheduled)
  BY DEF ApplyConfig, Load
<1>4. base' # NoConfig /\ current' # NoConfig
  BY <1>1, <1>2
<1>5. kernel' = Merge(b, dynamic, scheduled) => kernel' = Merge(base', dynamic', scheduled')
  BY <1>1
<1>6. kernel' = Merge(b, dynamic, scheduled) => kernel' # SafeRules
  BY <1>2
<1> QED BY <1>3, <1>4, <1>5, <1>6

\* Every step keeps the invariant.
LEMMA SyncStep == TypeOK /\ FirewallInv /\ [Next]_vars => FirewallInv'
<1> SUFFICES ASSUME TypeOK, FirewallInv, [Next]_vars PROVE FirewallInv'
  OBVIOUS
<1>0. ASSUME NEW w \in Callers, Remember(w),
             UNCHANGED <<base, current, enabled, monitor, applied, kernel>>
      PROVE  FirewallInv'
  <2>1. CASE base = NoConfig
    BY <1>0, <2>1 DEF FirewallInv, InSync, LockdownReported
  <2>2. CASE base # NoConfig
    <3>1. ~Quiet'
      BY <1>0, <2>2 DEF Remember, Quiet, TypeOK
    <3> QED BY <1>0, <2>2, <3>1 DEF FirewallInv, InSync, LockdownReported
  <2> QED BY <2>1, <2>2
<1>1. ASSUME NEW c \in Configs, Apply(c) PROVE FirewallInv'
  <2>1. Plain(c) \in Config /\ ApplyConfig(Plain(c)) /\ UNCHANGED monitor
    BY <1>1, PlainType DEF Apply
  <2> QED BY <2>1, ApplyConfigSync DEF FirewallInv, InSync, LockdownReported
<1>2. ASSUME NEW w \in Callers, NEW r \in Rules,
             AddDynamicNATRule(w, r) \/ RemoveDynamicNATRule(w, r)
      PROVE  FirewallInv'
  BY <1>0, <1>2 DEF AddDynamicNATRule, RemoveDynamicNATRule
<1>3. ASSUME NEW w \in Callers, NEW s \in Scheds, NEW on \in BOOLEAN,
             ApplyScheduledRule(w, s, on)
      PROVE  FirewallInv'
  BY <1>0, <1>3 DEF ApplyScheduledRule
<1>4. ASSUME NEW w \in Callers, ExitSafeMode(w) PROVE FirewallInv'
  BY <1>0, <1>4 DEF ExitSafeMode
<1>5. ASSUME NEW w \in Callers, Reapply(w) PROVE FirewallInv'
  <2>1. caller[w] \in Config /\ ApplyConfig(caller[w]) /\ UNCHANGED monitor
    BY <1>5 DEF Reapply, TypeOK
  <2> QED BY <2>1, ApplyConfigSync DEF FirewallInv, InSync, LockdownReported
<1>6. ASSUME PreRenderSafeMode PROVE FirewallInv'
  BY <1>6 DEF PreRenderSafeMode, FirewallInv, InSync, LockdownReported, Quiet, Ours
<1>7. ASSUME ApplySafeMode \/ Tamper PROVE FirewallInv'
  <2>1. UNCHANGED <<base, current, enabled, monitor, applied>>
    BY <1>7 DEF ApplySafeMode, Tamper, mgr
  <2>2. ~Ours'
    BY <1>7 DEF ApplySafeMode, Tamper, Load, Ours
  <2>3. kernel' = SafeRules => safeMode'
    BY <1>7 DEF ApplySafeMode, Tamper, Load
  <2> QED BY <2>1, <2>2, <2>3 DEF FirewallInv, InSync, LockdownReported
<1>8. ASSUME MonitorStarts \/ MonitorReads \/ MonitorCompares \/ MonitorCleansUp
      PROVE  FirewallInv'
  <2>1. UNCHANGED <<base, current, dynamic, scheduled, enabled, safeMode, kernel, caller, applied>>
    BY <1>8 DEF MonitorStarts, MonitorReads, MonitorCompares, MonitorCleansUp, mgr
  <2>2. InSync' /\ LockdownReported'
    BY <1>8, <2>1 DEF FirewallInv, InSync, LockdownReported, Quiet, Ours
  <2>3. monitor'.pc \in {"compare", "cleanup", "restore"} => monitor'.target # NoConfig
    <3>1. CASE MonitorStarts
      BY <3>1 DEF MonitorStarts, TypeOK
    <3>2. CASE MonitorReads
      BY <3>2 DEF MonitorReads, FirewallInv
    <3>3. CASE MonitorCompares
      BY <3>3 DEF MonitorCompares, FirewallInv, TypeOK
    <3>4. CASE MonitorCleansUp
      BY <3>4 DEF MonitorCleansUp, FirewallInv, TypeOK
    <3> QED BY <1>8, <3>1, <3>2, <3>3, <3>4
  <2> QED BY <2>1, <2>2, <2>3 DEF FirewallInv
<1>9. ASSUME MonitorRestores PROVE FirewallInv'
  <2>1. monitor.target \in Config /\ ApplyConfig(monitor.target)
    BY <1>9 DEF MonitorRestores, FirewallInv, TypeOK
  <2>2. monitor'.pc = "idle"
    BY <1>9 DEF MonitorRestores, TypeOK
  <2> QED BY <2>1, <2>2, ApplyConfigSync DEF FirewallInv, InSync, LockdownReported
<1>10. CASE UNCHANGED vars
  BY <1>10 DEF vars, mgr, FirewallInv, InSync, LockdownReported, Quiet, Ours
<1> QED BY <1>1, <1>2, <1>3, <1>4, <1>5, <1>6, <1>7, <1>8, <1>9, <1>10 DEF Next, MonitorNext

\* The initial state.
LEMMA InitInv == Init => TypeOK /\ FirewallInv
<1> SUFFICES ASSUME Init PROVE TypeOK /\ FirewallInv
  OBVIOUS
<1>1. /\ enabled \in BOOLEAN /\ rendered \in BOOLEAN
      /\ safeMode \in BOOLEAN /\ applied \in BOOLEAN /\ restored \in BOOLEAN
  BY Zenon DEF Init
<1>2. TypeOK
  BY <1>1 DEF Init, TypeOK
<1>3. FirewallInv
  BY DEF Init, FirewallInv, InSync, LockdownReported
<1> QED BY <1>2, <1>3

\* Types, and: once all callers are done and the last ApplyConfig succeeded,
\* the ruleset in force is the base configuration with every dynamic and
\* scheduled rule the manager holds; and a lockdown in force is reported.
THEOREM NoRuleChangeLost == Spec => [](TypeOK /\ InSync /\ LockdownReported)
<1>1. TypeOK /\ FirewallInv => TypeOK /\ InSync /\ LockdownReported
  BY DEF FirewallInv
<1> QED BY <1>1, InitInv, TypeStep, SyncStep, PTL DEF Spec

-----------------------------------------------------------------------------
(* Nothing is applied twice until the monitor restores a configuration     *)

\* Configurations the callers and the manager hold are as they were written.
Static ==
    ~restored =>
        /\ BaseIsStatic
        /\ \A w \in Callers : caller[w] # NoConfig => caller[w] = Plain(caller[w].cfg)

\* ApplyConfig of a configuration as written keeps the base configuration so.
LEMMA ApplyPlain ==
    ASSUME NEW b, b = Plain(b.cfg), ApplyConfig(b) PROVE BaseIsStatic'
<1>1. base' = b
  BY DEF ApplyConfig
<1> QED BY <1>1, Zenon DEF BaseIsStatic

\* Every step keeps Static.
LEMMA StaticStep == TypeOK /\ Static /\ [Next]_vars => Static'
<1> SUFFICES ASSUME TypeOK, Static, [Next]_vars PROVE Static'
  OBVIOUS
<1>0. ASSUME NEW w \in Callers, Remember(w), UNCHANGED <<base, restored>>
      PROVE  Static'
  BY <1>0 DEF Remember, Static, BaseIsStatic, TypeOK
<1>1. ASSUME NEW c \in Configs, Apply(c) PROVE Static'
  <2>1. Plain(c) = Plain(Plain(c).cfg)
    BY DEF Plain
  <2>2. ApplyConfig(Plain(c)) /\ UNCHANGED <<caller, restored>>
    BY <1>1 DEF Apply
  <2>3. BaseIsStatic'
    BY <2>1, <2>2, ApplyPlain
  <2> QED BY <2>2, <2>3 DEF Static
<1>2. ASSUME NEW w \in Callers, NEW r \in Rules,
             AddDynamicNATRule(w, r) \/ RemoveDynamicNATRule(w, r)
      PROVE  Static'
  BY <1>0, <1>2 DEF AddDynamicNATRule, RemoveDynamicNATRule
<1>3. ASSUME NEW w \in Callers, NEW s \in Scheds, NEW on \in BOOLEAN,
             ApplyScheduledRule(w, s, on)
      PROVE  Static'
  BY <1>0, <1>3 DEF ApplyScheduledRule
<1>4. ASSUME NEW w \in Callers, ExitSafeMode(w) PROVE Static'
  BY <1>0, <1>4 DEF ExitSafeMode
<1>5. ASSUME NEW w \in Callers, Reapply(w) PROVE Static'
  <2>1. caller[w] # NoConfig /\ ApplyConfig(caller[w])
        /\ caller' = [caller EXCEPT ![w] = NoConfig] /\ UNCHANGED restored
    BY <1>5 DEF Reapply
  <2>2. ~restored => BaseIsStatic'
    BY <2>1, ApplyPlain DEF Static
  <2> QED BY <2>1, <2>2 DEF Static, TypeOK
<1>6. ASSUME \/ PreRenderSafeMode \/ ApplySafeMode \/ Tamper
             \/ MonitorStarts \/ MonitorReads \/ MonitorCompares \/ MonitorCleansUp
      PROVE  Static'
  <2>1. UNCHANGED <<base, caller, restored>>
    BY <1>6 DEF PreRenderSafeMode, ApplySafeMode, Tamper, MonitorStarts, MonitorReads,
                MonitorCompares, MonitorCleansUp, mgr
  <2> QED BY <2>1 DEF Static, BaseIsStatic
<1>7. ASSUME MonitorRestores PROVE Static'
  BY <1>7 DEF MonitorRestores, Static
<1>8. CASE UNCHANGED vars
  BY <1>8 DEF vars, mgr, Static, BaseIsStatic
<1> QED BY <1>1, <1>2, <1>3, <1>4, <1>5, <1>6, <1>7, <1>8 DEF Next, MonitorNext

\* Until the monitor restores a configuration, the ruleset in force carries
\* each dynamic and each scheduled rule as often as it was added, whatever
\* callers, applies and failures do meanwhile.
THEOREM RulesExact == Spec => []ExactRules
<1>1. Init => Static
  BY DEF Init, Static, BaseIsStatic
<1>2. TypeOK /\ FirewallInv /\ Static => ExactRules
  <2> SUFFICES ASSUME TypeOK, FirewallInv, Static, Quiet, applied, Ours, ~restored
               PROVE  /\ kernel.nat = dynamic
                      /\ \A s \in Scheds : kernel.sched[s] = IF s \in scheduled THEN 1 ELSE 0
    BY DEF ExactRules
  <2>1. kernel = Merge(base, dynamic, scheduled)
    BY DEF FirewallInv, InSync, LockdownReported
  <2>2. base = Plain(base.cfg)
    BY DEF FirewallInv, Static, BaseIsStatic
  <2>3. /\ base.nat = [r \in Rules |-> 0]
        /\ base.sched = [s \in Scheds |-> 0]
    BY <2>2 DEF Plain
  <2>4. kernel.nat = [r \in Rules |-> base.nat[r] + dynamic[r]]
    BY <2>1 DEF Merge
  <2>5. kernel.sched = [s \in Scheds |-> IF s \in scheduled THEN base.sched[s] + 1
                                         ELSE base.sched[s]]
    BY <2>1 DEF Merge
  <2>6. kernel.nat = dynamic
    BY <2>3, <2>4 DEF TypeOK
  <2>7. \A s \in Scheds : kernel.sched[s] = IF s \in scheduled THEN 1 ELSE 0
    BY <2>3, <2>5
  <2> QED BY <2>6, <2>7
<1> QED BY <1>1, <1>2, InitInv, TypeStep, SyncStep, StaticStep, PTL DEF Spec

\* Both together: with all callers done, the kernel has the configuration and
\* exactly the rules that were added, and a lockdown in force is reported.
THEOREM FirewallCorrect == Spec => []ChangesInForce
<1>1. TypeOK /\ InSync /\ LockdownReported /\ ExactRules => ChangesInForce
  BY DEF ChangesInForce
<1> QED BY <1>1, NoRuleChangeLost, RulesExact, PTL
=============================================================================
