------------------------------- MODULE Events -------------------------------
(***************************************************************************)
(* What happens, on its way to those who want to know: the notifications   *)
(* of the control plane, and the event bus with its statistics.            *)
(***************************************************************************)
EXTENDS Integers, FiniteSets, Sequences, SequencesExt, Functions

-----------------------------------------------------------------------------
(***************************************************************************)
(* Notifications on their way from the control plane to the browsers: the  *)
(* control plane keeps the last ones in a ring, the API server polls them  *)
(* with a cursor and publishes them to its WebSocket clients, each with a  *)
(* bounded queue and two goroutines.  The control plane may restart, which *)
(* begins the numbers again; the API server then still holds its cursor.   *)
(***************************************************************************)
CONSTANTS Browsers,
          FeedSize,    \* maxSize of the hub
          QueueSize,   \* buffer of wsClient.send
          FeedNotes, FeedRestarts  \* bounds: notifications, restarts

ASSUME FeedAssumption == FeedSize \in Nat \ {0}   \* NewNotificationHub sees to it

VARIABLES ring,       \* notifyHub.notifications: [run, id]
          nextID,
          ctlRun,     \* which run of the control plane this is
          cursor,     \* lastNotifyID of statusLoop
          poll,       \* statusLoop: [pc, got, last]
          browser,    \* [state, topic, queue, open, shown], see below
          broken,     \* somebody sent on a closed channel: the server panics
          noted

feedVars == <<ring, nextID, ctlRun, cursor, poll, browser, broken, noted>>

\* state: "away", "joining" (register <- client), "in" (m.clients), "leaving"
\* (readPump ended, unregister <- c), "gone".  topic: it asked for
\* notifications.  open: client.send is not closed.  shown: what the browser
\* received.
FeedInit ==
    /\ ring = << >> /\ nextID = 1 /\ ctlRun = 0 /\ cursor = 0 /\ broken = FALSE /\ noted = 0
    /\ poll = [pc |-> "wait", got |-> << >>, last |-> 0]
    /\ browser = [b \in Browsers |-> [state |-> "away", topic |-> FALSE, queue |-> << >>,
                                      open |-> TRUE, shown |-> << >>]]

-----------------------------------------------------------------------------
\* NotificationHub.Publish
Notify ==
    /\ noted < FeedNotes /\ noted' = noted + 1
    /\ nextID' = nextID + 1
    /\ ring' = Append(IF Len(ring) >= FeedSize THEN Tail(ring) ELSE ring,
                      [run |-> ctlRun, id |-> nextID])
    /\ UNCHANGED <<ctlRun, cursor, poll, browser, broken>>

\* The control plane starts again; a call under way fails and is dropped.
CtlRestart ==
    /\ ctlRun < FeedRestarts /\ ctlRun' = ctlRun + 1
    /\ ring' = << >> /\ nextID' = 1
    /\ poll' = IF poll.pc = "last" THEN [poll EXCEPT !.pc = "wait", !.got = << >>] ELSE poll
    /\ UNCHANGED <<cursor, browser, broken, noted>>

\* m.clients
WsClients == {b \in Browsers : browser[b].state \in {"in", "leaving"}}

\* The ticker fires and somebody is subscribed: GetSince, those newer than the
\* cursor in their order ...
GetSince ==
    /\ poll.pc = "wait" /\ \E b \in WsClients : browser[b].topic
    /\ \E newer \in SetToSeqs({i \in DOMAIN ring : ring[i].id > cursor}) :
          /\ \A i, j \in DOMAIN newer : i < j => newer[i] < newer[j]
          /\ poll' = [poll EXCEPT !.pc = "last", !.got = [i \in DOMAIN newer |-> ring[newer[i]]]]
    /\ UNCHANGED <<ring, nextID, ctlRun, cursor, browser, broken, noted>>

\* ... and then LastID, under the lock a second time.
LastID ==
    /\ poll.pc = "last"
    /\ poll' = [poll EXCEPT !.pc = IF poll.got = << >> THEN "wait" ELSE "publish",
                            !.last = IF ring = << >> THEN 0 ELSE Last(ring).id]
    /\ UNCHANGED <<ring, nextID, ctlRun, cursor, browser, broken, noted>>

\* WSManager.Publish of the next one: a full queue is skipped.
AfterSend(b, n) ==
    IF b.topic /\ Len(b.queue) < QueueSize THEN [b EXCEPT !.queue = Append(@, n)] ELSE b

NextCursor_Kept == IF Len(poll.got) = 1 THEN cursor ELSE cursor
NextCursor == IF Len(poll.got) = 1 THEN poll.last ELSE cursor

SendNext ==
    /\ poll.pc = "publish"
    /\ browser' = [b \in Browsers |-> IF b \in WsClients THEN AfterSend(browser[b], Head(poll.got))
                                                       ELSE browser[b]]
    /\ broken' = (broken \/ \E b \in WsClients : browser[b].topic /\ ~browser[b].open)
    /\ poll' = [poll EXCEPT !.got = Tail(@), !.pc = IF Len(poll.got) = 1 THEN "wait" ELSE @]
    /\ cursor' = NextCursor
    /\ UNCHANGED <<ring, nextID, ctlRun, noted>>

-----------------------------------------------------------------------------
Feed(b, r) == /\ browser' = [browser EXCEPT ![b] = r]
              /\ UNCHANGED <<ring, nextID, ctlRun, cursor, poll, broken, noted>>

\* handleStatusWS of an authorised request.
Connect(b) == browser[b].state = "away" /\ Feed(b, [browser[b] EXCEPT !.state = "joining"])

\* run: register
RegisterWs(b) == browser[b].state = "joining" /\ Feed(b, [browser[b] EXCEPT !.state = "in"])

\* readPump, started after the registration: subscribe and unsubscribe.
ReadTopics(b) ==
    /\ browser[b].state = "in"
    /\ Feed(b, [browser[b] EXCEPT !.topic = ~@])

\* readPump: the connection fails (or writePump closed it).
ReadFails(b) == browser[b].state = "in" /\ Feed(b, [browser[b] EXCEPT !.state = "leaving"])

\* writePump
WriteMessage(b) ==
    /\ browser[b].queue # << >> /\ browser[b].state \in {"in", "leaving"}
    /\ Feed(b, [browser[b] EXCEPT !.queue = Tail(@), !.shown = Append(@, Head(browser[b].queue))])

\* run: unregister, under the lock: out of the map, and its channel closed.
AfterUnregister_Left(r) == [r EXCEPT !.open = FALSE]
AfterUnregister(r) == [r EXCEPT !.state = "gone", !.open = FALSE]

Unregister(b) == browser[b].state = "leaving" /\ browser[b].open /\ Feed(b, AfterUnregister(browser[b]))

FeedNext ==
    \/ Notify \/ CtlRestart \/ GetSince \/ LastID \/ SendNext
    \/ \E b \in Browsers : \/ Connect(b) \/ RegisterWs(b) \/ ReadTopics(b) \/ ReadFails(b)
                           \/ WriteMessage(b) \/ Unregister(b)

-----------------------------------------------------------------------------
Before(m, n) == m.run < n.run \/ (m.run = n.run /\ m.id < n.id)

\* A browser sees no notification twice and none out of order, whatever the
\* control plane publishes between the two halves of a poll, however slowly
\* the browser reads, and when the numbers begin again.
ShownInOrder ==
    \A b \in Browsers : LET s == browser[b].shown \o browser[b].queue
                        IN  \A i, j \in DOMAIN s : i < j => Before(s[i], s[j])

\* A client that leaves while a notification is published is never sent to on
\* a closed channel, which would end the server.
NoSendOnClosed == ~broken

-----------------------------------------------------------------------------
(***************************************************************************)
(* The event bus and its statistics: counter events go through a           *)
(* subscriber's bounded channel into a buffer, from there into the raw     *)
(* table, and a janitor adds them up by hour and by day and deletes what   *)
(* is old.  Time counts hours; one rule, and every event counts 1.         *)
(***************************************************************************)
CONSTANTS ChanSize,     \* the buffer of a subscription
          RawHours,     \* RawRetention
          HourlyHours,  \* HourlyRetention, whole days
          DayHours,     \* hours of a day
          HubEvents, HubHours   \* bounds: events, the clock

ASSUME HubAssumption == HubHours \in Nat /\ RawHours \in Nat \ {0}

VARIABLES hubClock,
          janitorAt,  \* when the janitor last ran
          chan,       \* events in the aggregator's channel
          dropped,
          buffered,    \* a.buffer
          raw,        \* hour -> rows of stats_raw written then
          hourly,     \* hour -> what stats_hourly says, daily likewise per day
          daily,
          events, lostEvents   \* published; gone with a failed transaction

hubVars == <<hubClock, janitorAt, chan, dropped, buffered, raw, hourly, daily, events, lostEvents>>

Hours == 0..HubHours
DayOf(h) == h \div DayHours
Days == {DayOf(h) : h \in Hours}

HubInit ==
    /\ hubClock = 0 /\ janitorAt = 0 /\ chan = 0 /\ dropped = 0 /\ buffered = 0
    /\ raw = [h \in Hours |-> 0] /\ hourly = [h \in Hours |-> 0] /\ daily = [d \in Days |-> 0]
    /\ events = 0 /\ lostEvents = 0

\* Hub.Publish does not wait: a full channel loses the event.
HubPublish ==
    /\ events < HubEvents /\ events' = events + 1
    /\ IF chan < ChanSize THEN chan' = chan + 1 /\ UNCHANGED dropped
                          ELSE dropped' = dropped + 1 /\ UNCHANGED chan
    /\ UNCHANGED <<hubClock, janitorAt, buffered, raw, hourly, daily, lostEvents>>

Consume ==
    /\ chan > 0 /\ chan' = chan - 1 /\ buffered' = buffered + 1
    /\ UNCHANGED <<hubClock, janitorAt, dropped, raw, hourly, daily, events, lostEvents>>

\* flush takes the buffer first; a transaction that fails loses it.
Flush ==
    /\ buffered > 0 /\ buffered' = 0
    /\ \/ raw' = [raw EXCEPT ![hubClock] = @ + buffered] /\ UNCHANGED lostEvents
       \/ lostEvents' = lostEvents + buffered /\ UNCHANGED raw
    /\ UNCHANGED <<hubClock, janitorAt, chan, dropped, hourly, daily, events>>

\* runJanitor, every hour: older than an hour into its hour, older than the
\* retention deleted, older hours into their day and deleted.
RawCutoff_Hour == hubClock
RawCutoff == hubClock - RawHours
HourlyCutoff == ((hubClock - HourlyHours) \div DayHours) * DayHours

Janitor ==
    /\ hubClock > janitorAt /\ janitorAt' = hubClock
    /\ LET up == [h \in Hours |-> IF h < hubClock - 1 THEN hourly[h] + raw[h] ELSE hourly[h]]
       IN  /\ raw' = [h \in Hours |-> IF h < RawCutoff THEN 0 ELSE raw[h]]
           /\ daily' = [d \in Days |-> daily[d] + SumFunctionOnSet(up, {h \in Hours : h < HourlyCutoff /\ DayOf(h) = d})]
           /\ hourly' = [h \in Hours |-> IF h < HourlyCutoff THEN 0 ELSE up[h]]
    /\ UNCHANGED <<hubClock, chan, dropped, buffered, events, lostEvents>>

Hour == /\ hubClock < HubHours /\ hubClock = janitorAt /\ hubClock' = hubClock + 1
        /\ UNCHANGED <<janitorAt, chan, dropped, buffered, raw, hourly, daily, events, lostEvents>>

HubNext == HubPublish \/ Consume \/ Flush \/ Janitor \/ Hour

-----------------------------------------------------------------------------
Kept == SumFunctionOnSet(raw, Hours) + SumFunctionOnSet(hourly, Hours) + SumFunctionOnSet(daily, Days)

\* No event disappears on its way through the channel, the buffer and the
\* three tables: what is not there was dropped by a full channel or lost with
\* a transaction, however publishing, flushing and the janitor interleave.
NothingLost == events <= chan + buffered + dropped + lostEvents + Kept
=============================================================================
