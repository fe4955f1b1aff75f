---------------------------- MODULE StagedOrder ----------------------------
(***************************************************************************)
(* The order of the staged policies: the API's handlers that move a policy *)
(* or a rule, or set a whole new order, while others edit, apply or        *)
(* discard the staged configuration; and the status the user interface     *)
(* shows beside each item.  A Go slice is a reference to an array: taking  *)
(* an element out with append shifts the array every reader sees.          *)
(***************************************************************************)
EXTENDS Integers, Sequences, SequencesExt, FiniteSets

CONSTANTS PolNames, PolClients,
          PolZones,         \* the zones of each policy, from and to
          PolRequests       \* bound: requests in all

ASSUME PolAssumption == IsFiniteSet(PolNames)

VARIABLES polHeap,     \* arrays by number, each a sequence of [name, body]
          polCur,      \* the array of s.Config.Policies
          polRunning,  \* the control plane's policies
          polReq,      \* the reordering request of each client
          polMade      \* requests made

polVars == <<polHeap, polCur, polRunning, polReq, polMade>>

StagedPolicies == polHeap[polCur]
NoMove == [pc |-> "idle", move |-> 0, target |-> 0, pos |-> "before", arr |-> 0, taken |-> 0,
           before |-> <<>>, after |-> <<>>, alone |-> TRUE]

\* A configuration names each of its policies once.
PolInit ==
    /\ \E names \in SUBSET PolNames : \E order \in SetToSeqs(names) :
          polHeap = <<[i \in DOMAIN order |-> [name |-> order[i], body |-> 0]]>>
    /\ polCur = 1 /\ polRunning = polHeap[1]
    /\ polReq = [c \in PolClients |-> NoMove] /\ polMade = 0

PolBegin == polMade < PolRequests /\ polMade' = polMade + 1
\* A new array becomes the staged list.
StagePolicies(new) == polHeap' = Append(polHeap, new) /\ polCur' = Len(polHeap) + 1
\* The requests other than c's are no longer undisturbed.
Disturbed(c) == [d \in PolClients |-> IF d = c THEN polReq[d] ELSE [polReq[d] EXCEPT !.alone = FALSE]]

-----------------------------------------------------------------------------
\* handlePolicyReorder, handleRuleReorder: the two places are looked up ...
PlaceOf(list, n) == SelectLastInSeq(list, LAMBDA p : p.name = n)
FindPlaces(c, n, t, pos) ==
    /\ PolBegin /\ polReq[c].pc = "idle"
    /\ PlaceOf(StagedPolicies, n) # 0 /\ PlaceOf(StagedPolicies, t) # 0
    /\ polReq' = [polReq EXCEPT ![c] =
          [NoMove EXCEPT !.pc = "found", !.move = PlaceOf(StagedPolicies, n), !.target = PlaceOf(StagedPolicies, t),
                         !.pos = pos, !.before = StagedPolicies]]
    /\ UNCHANGED <<polHeap, polCur, polRunning>>

\* ... the policy is taken out by shifting the rest of the shared array ...
Shifted(list, i) == [j \in DOMAIN list |-> IF j < i \/ j = Len(list) THEN list[j] ELSE list[j + 1]]
TakeOut(c) ==
    /\ polReq[c].pc = "found"
    /\ IF polReq[c].move > Len(StagedPolicies)
       THEN polReq' = [polReq EXCEPT ![c] = NoMove] /\ UNCHANGED polHeap   \* panics
       ELSE /\ polHeap' = [polHeap EXCEPT ![polCur] = Shifted(@, polReq[c].move)]
            /\ polReq' = [Disturbed(c) EXCEPT ![c].pc = "taken", ![c].arr = polCur,
                                              ![c].taken = StagedPolicies[polReq[c].move]]
    /\ UNCHANGED <<polCur, polRunning, polMade>>

\* ... the target's place is adjusted, and the list with the policy put in
\* again replaces the old one.
InsertPlace_NoAdjust(r) == IF r.pos = "after" THEN r.target + 1 ELSE r.target
InsertPlace(r) ==
    LET target == IF r.move < r.target THEN r.target - 1 ELSE r.target
    IN  IF r.pos = "after" THEN target + 1 ELSE target
PutBack(c) ==
    LET r == polReq[c]
        rest == SubSeq(polHeap[r.arr], 1, Len(polHeap[r.arr]) - 1)
        new == InsertAt(rest, InsertPlace(r), r.taken)
    IN  /\ r.pc = "taken"
        /\ IF InsertPlace(r) > Len(rest) + 1
           THEN polReq' = [polReq EXCEPT ![c] = NoMove] /\ UNCHANGED <<polHeap, polCur>>   \* panics
           ELSE /\ StagePolicies(new)
                /\ polReq' = [Disturbed(c) EXCEPT ![c].pc = "done", ![c].after = new]
        /\ UNCHANGED <<polRunning, polMade>>

ReorderAnswered(c) ==
    /\ polReq[c].pc = "done" /\ polReq' = [polReq EXCEPT ![c] = NoMove]
    /\ UNCHANGED <<polHeap, polCur, polRunning, polMade>>

\* new_order: names without a policy are passed over, policies without a name
\* in it are dropped.
NewOrder(order) ==
    /\ PolBegin /\ order # <<>>
    /\ \E known \in SetToSeqs({n \in ToSet(order) : PlaceOf(StagedPolicies, n) # 0}) :
          /\ \A i, j \in DOMAIN known : i < j =>
                \E k, l \in DOMAIN order : k < l /\ order[k] = known[i] /\ order[l] = known[j]
          /\ StagePolicies([i \in DOMAIN known |-> StagedPolicies[PlaceOf(StagedPolicies, known[i])]])
    /\ polReq' = [d \in PolClients |-> [polReq[d] EXCEPT !.alone = FALSE]]
    /\ UNCHANGED polRunning

\* Another handler stages a list of its own: here, one policy's body changes.
EditPolicy(n) ==
    /\ PolBegin /\ PlaceOf(StagedPolicies, n) # 0
    /\ StagePolicies([i \in DOMAIN StagedPolicies |-> IF StagedPolicies[i].name = n THEN [StagedPolicies[i] EXCEPT !.body = 1 - @] ELSE StagedPolicies[i]])
    /\ polReq' = [d \in PolClients |-> [polReq[d] EXCEPT !.alone = FALSE]]
    /\ UNCHANGED polRunning

\* handleApplyConfig clones the staged configuration under the lock.
ApplyStaged ==
    /\ PolBegin /\ polRunning' = StagedPolicies
    /\ UNCHANGED <<polHeap, polCur, polReq>>

\* handleDiscardConfig takes the running configuration.
DiscardStaged ==
    /\ PolBegin /\ StagePolicies(polRunning)
    /\ polReq' = [d \in PolClients |-> [polReq[d] EXCEPT !.alone = FALSE]]
    /\ UNCHANGED polRunning

PolNext ==
    \/ \E c \in PolClients :
          \/ \E n, t \in PolNames, pos \in {"before", "after"} : FindPlaces(c, n, t, pos)
          \/ TakeOut(c) \/ PutBack(c) \/ ReorderAnswered(c)
    \/ \E order \in SetToSeqs(PolNames) \cup {<<n>> : n \in PolNames} : NewOrder(order)
    \/ \E n \in PolNames : EditPolicy(n)
    \/ ApplyStaged \/ DiscardStaged

-----------------------------------------------------------------------------
(* BuildConfigWithStatus: the items of a section by their key, the zones.  *)
KeyPlace(list, p) == SelectLastInSeq(list, LAMBDA q : PolZones[q.name] = PolZones[p.name])
ItemStatus(p, running) ==
    LET k == KeyPlace(running, p)
    IN  IF k = 0 THEN "pending_add" ELSE IF running[k] = p THEN "live" ELSE "pending_edit"
DeletedItems_None(staged, running) == {}
DeletedItems(staged, running) == {p \in ToSet(running) : KeyPlace(staged, p) = 0}
SectionStatuses(staged, running) ==
    [items |-> [i \in DOMAIN staged |-> ItemStatus(staged[i], running)],
     deleted |-> [p \in DeletedItems(staged, running) |-> "pending_delete"]]
HasAnyPending(statuses) ==
    \/ \E i \in DOMAIN statuses.items : statuses.items[i] # "live"
    \/ \E p \in DOMAIN statuses.deleted : statuses.deleted[p] # "live"
BuildConfigWithStatus(staged, running) ==
    LET statuses == SectionStatuses(staged, running)
    IN  [statuses |-> statuses, pending |-> HasAnyPending(statuses)]

PolSpec == PolInit /\ [][PolNext]_polVars

-----------------------------------------------------------------------------
\* A move that nothing else disturbed keeps the other policies in their order
\* and puts the moved one directly before or after its target, in both
\* directions and at both ends of the list, and of a list, too, that requests
\* which ran into each other have left with one policy twice.
Moved(r) ==
    \E k \in DOMAIN r.after :
        /\ r.after[k] = r.before[r.move]
        /\ RemoveAt(r.after, k) = RemoveAt(r.before, r.move)
        /\ LET n == IF r.pos = "before" THEN k + 1 ELSE k - 1
           IN  n \in DOMAIN r.after /\ r.after[n] = r.before[r.target]
MovedWhereAsked ==
    \A c \in PolClients :
        polReq[c].pc = "done" /\ polReq[c].alone /\ polReq[c].move # polReq[c].target => Moved(polReq[c])

\* The statuses shown announce a change exactly when applying would change
\* which policies there are: no edit, addition or deletion goes unannounced,
\* and nothing is announced that is not there.  (A pure change of order is
\* never announced, and of policies that share their zones, as one may with
\* the one it inherits from, only the last is compared.)
ZonesApart(list) == \A i, j \in DOMAIN list : PolZones[list[i].name] = PolZones[list[j].name] => list[i].name = list[j].name
StatusesTrue ==
    \/ BuildConfigWithStatus(StagedPolicies, polRunning).pending <=> ToSet(StagedPolicies) # ToSet(polRunning)
    \/ ~ZonesApart(StagedPolicies \o polRunning)

\* A policy is moved to where it was asked to be, and the statuses tell what
\* applying would change.
OrderAsAsked == MovedWhereAsked /\ StatusesTrue
=============================================================================
