--------------------------- MODULE EventPipeline ---------------------------
(***************************************************************************)
(* The path of a chat message from the messenger's database to a bot:      *)
(*                                                                         *)
(*   KakaoTalk --insert--> db1.chat_logs --poller--> broadcast channel     *)
(*      --SubscribeEvents stream--> HTTP/2 window --> Airi.run / dispatch  *)
(*                                                                         *)
(* The poller is an operating system thread with a private position in the *)
(* table (src/database/poller.rs); the channel is tokio's broadcast        *)
(* ring, which drops an event nobody listens for and overruns a slow       *)
(* receiver; the stream silently skips the overrun (src/service.rs);       *)
(* the bot reconnects for ever (python/src/airi/client.py).  The           *)
(* server process may crash, be told to shut down, and be started again,   *)
(* while the messenger goes on inserting and deleting rows.                *)
(*                                                                         *)
(* A row is its id and the one thing the pipeline can tell about it:       *)
(*   "msg"   a message that is to become an event,                         *)
(*   "sync"  a row whose metadata has origin SYNCMSG or MCHATLOGS,         *)
(*   "bad"   a row read_message cannot read (a NULL or a mistyped column). *)
(***************************************************************************)
EXTENDS Naturals, Sequences, FiniteSets

CONSTANTS
    Clients,      \* bots; each has at most one subscription at a time
    PollLimit,    \* rows per poll: 100 in poller.rs
    Capacity,     \* capacity of the broadcast channel: 128 in main.rs
    Window,       \* events in flight between server and bot (flow control)
    MaxRows,      \* bound: rows the messenger ever inserts
    MaxStarts     \* bound: times the server process is started

ASSUME PipelineConstants ==
    /\ PollLimit \in Nat \ {0}
    /\ Capacity \in Nat \ {0}
    /\ Window \in Nat \ {0}
    /\ MaxRows \in Nat
    /\ MaxStarts \in Nat

Kinds == {"msg", "sync", "bad"}
Ids == 1..MaxRows

VARIABLES
    \* the messenger's table: ids are assigned 1, 2, ... and never reused
    rows,      \* rows[id]: the kind of row id
    deleted,   \* ids of rows the messenger has deleted again
    \* the server process
    server,    \* "down", "up", or "draining" after its stdin was closed
    starts,    \* how often it has been started
    \* the poller thread
    pc,        \* "down", "start", "poll" or "map"
    last,      \* last_database_id
    batch,     \* ids of the rows of this poll still to be handled
    sent,      \* events the broadcast channel has accepted, oldest first
    \* subscriptions
    stream,    \* stream[c]: "idle", "open", or "broken" (not yet cleaned up)
    next,      \* next[c]: how many events of sent its receiver is past
    wire,      \* wire[c]: events sent to c and not yet dispatched
    \* history, read by no action's guard
    got,       \* got[c]: ids c has dispatched, over all its subscriptions
    since,     \* since[c]: Len(got[c]) when c subscribed last
    mark,      \* mark[c]: Len(rows) when c subscribed last
    overrun,   \* overrun[c]: this subscription has skipped events
    base,      \* Len(rows) when the poller read MAX(_id); 0 after a failure
    failed,    \* ids of rows map_message has failed on
    published, \* ids of all rows the channel has ever accepted
    replay     \* some start took the unwrap_or(0) arm

tableVars  == <<rows, deleted>>
serverVars == <<server, starts>>
pollVars   == <<pc, last, batch, sent>>
streamVars == <<stream, next, wire>>
botHist    == <<got, since, mark, overrun>>
feedHist   == <<base, failed, published, replay>>
vars == <<tableVars, serverVars, pollVars, streamVars, botHist, feedHist>>

TypeOK ==
    /\ rows \in Seq(Kinds)
    /\ Len(rows) <= MaxRows
    /\ deleted \in SUBSET (1..Len(rows))
    /\ server \in {"down", "up", "draining"}
    /\ starts \in 0..MaxStarts
    /\ pc \in {"down", "start", "poll", "map"}
    /\ last \in 0..Len(rows)
    /\ batch \in SUBSET (1..Len(rows))
    /\ sent \in Seq(1..Len(rows))
    /\ stream \in [Clients -> {"idle", "open", "broken"}]
    /\ next \in [Clients -> Nat]
    /\ wire \in [Clients -> Seq(Ids)]
    /\ got \in [Clients -> Seq(Ids)]
    /\ since \in [Clients -> Nat]
    /\ mark \in [Clients -> Nat]
    /\ overrun \in [Clients -> BOOLEAN]
    /\ base \in 0..Len(rows)
    /\ failed \in SUBSET Ids
    /\ published \in SUBSET Ids
    /\ replay \in BOOLEAN

Init ==
    /\ rows = <<>> /\ deleted = {}
    /\ server = "down" /\ starts = 0
    /\ pc = "down" /\ last = 0 /\ batch = {} /\ sent = <<>>
    /\ stream = [c \in Clients |-> "idle"]
    /\ next = [c \in Clients |-> 0]
    /\ wire = [c \in Clients |-> <<>>]
    /\ got = [c \in Clients |-> <<>>]
    /\ since = [c \in Clients |-> 0]
    /\ mark = [c \in Clients |-> 0]
    /\ overrun = [c \in Clients |-> FALSE]
    /\ base = 0 /\ failed = {} /\ published = {} /\ replay = FALSE

-----------------------------------------------------------------------------
(* The messenger.                                                          *)

Present == (1..Len(rows)) \ deleted

\* The messenger stores a message; AUTOINCREMENT gives it a fresh id.
Insert(kind) ==
    /\ Len(rows) < MaxRows
    /\ rows' = Append(rows, kind)
    /\ UNCHANGED <<deleted, serverVars, pollVars, streamVars, botHist, feedHist>>

Delete(id) ==
    /\ id \in Present
    /\ deleted' = deleted \cup {id}
    /\ UNCHANGED <<rows, serverVars, pollVars, streamVars, botHist, feedHist>>

-----------------------------------------------------------------------------
(* The poller thread.                                                      *)

\* Fault: SELECT COALESCE(MAX(_id), 0) + 1.
LatestRowPlusOne == Len(rows) + 1

LatestRow == IF Present = {} THEN 0
             ELSE CHOOSE m \in Present : \A i \in Present : i <= m

\* Fault: WHERE _id > last + 1.
RowsAfterOffByOne(l) ==
    {i \in Present :
        /\ i > l + 1
        /\ Cardinality({j \in Present : l < j /\ j <= i}) <= PollLimit}

\* SELECT ... WHERE _id > last ORDER BY _id ASC LIMIT PollLimit
RowsAfter(l) ==
    {i \in Present :
        /\ i > l
        /\ Cardinality({j \in Present : l < j /\ j <= i}) <= PollLimit}

\* Fault: the position is not initialised from the table.
StartPollerAtZero ==
    /\ pc = "start"
    /\ pc' = "poll"
    /\ last' = 0
    /\ base' = Len(rows)
    /\ UNCHANGED <<tableVars, serverVars, batch, sent, streamVars, botHist,
                   failed, published, replay>>

\* latest_message_database_id succeeds: polling starts at the table's end.
StartPollerOk ==
    /\ pc = "start"
    /\ pc' = "poll"
    /\ last' = LatestRow
    /\ base' = Len(rows)
    /\ UNCHANGED <<tableVars, serverVars, batch, sent, streamVars, botHist,
                   failed, published, replay>>

\* ... or fails, and unwrap_or(0) has the whole table replayed.
StartPollerFallback ==
    /\ pc = "start"
    /\ pc' = "poll"
    /\ last' = 0
    /\ base' = 0
    /\ replay' = TRUE
    /\ UNCHANGED <<tableVars, serverVars, batch, sent, streamVars, botHist,
                   failed, published>>

\* Fault: unreadable rows are filtered out instead of failing the query.
PollDroppingBadRows ==
    /\ pc = "poll"
    /\ batch' = {i \in RowsAfter(last) : rows[i] # "bad"}
    /\ batch' # {}
    /\ pc' = "map"
    /\ UNCHANGED <<tableVars, serverVars, last, sent, streamVars, botHist, feedHist>>

\* messages_after: one unreadable row fails the whole query.
PollOk ==
    /\ pc = "poll"
    /\ \A i \in RowsAfter(last) : rows[i] # "bad"
    /\ RowsAfter(last) # {}
    /\ batch' = RowsAfter(last)
    /\ pc' = "map"
    /\ UNCHANGED <<tableVars, serverVars, last, sent, streamVars, botHist, feedHist>>

\* The error arm (and a poll that finds no row): sleep and try again.
PollAgain ==
    /\ pc = "poll"
    /\ UNCHANGED vars

Receivers == {c \in Clients : stream[c] = "open"}

\* Fault: the position is left behind, so the next poll reads the row again.
TakeRowKeepingPosition(id) ==
    /\ pc = "map"
    /\ id \in batch
    /\ \A j \in batch : id <= j
    /\ last' = last
    /\ batch' = batch \ {id}
    /\ pc' = IF batch = {id} THEN "poll" ELSE "map"

\* Every row of the batch moves the position, whatever becomes of it.
TakeRow(id) ==
    /\ pc = "map"
    /\ id \in batch
    /\ \A j \in batch : id <= j
    /\ last' = IF last < id THEN id ELSE last
    /\ batch' = batch \ {id}
    /\ pc' = IF batch = {id} THEN "poll" ELSE "map"

\* origin SYNCMSG or MCHATLOGS
SkipRow(id) ==
    /\ TakeRow(id)
    /\ rows[id] = "sync"
    /\ UNCHANGED <<tableVars, serverVars, sent, streamVars, botHist, feedHist>>

\* Fault: one absent bot costs every bot the event.
SendRowToAllOrNone(id) ==
    /\ TakeRow(id)
    /\ rows[id] # "sync"
    /\ IF Receivers # Clients
       THEN UNCHANGED <<sent, published>>
       ELSE /\ sent' = Append(sent, id)
            /\ published' = published \cup {id}
    /\ UNCHANGED <<tableVars, serverVars, streamVars, botHist,
                   base, failed, replay>>

\* map_message succeeds; events.send is refused when nobody is subscribed.
SendRow(id) ==
    /\ TakeRow(id)
    /\ rows[id] # "sync"
    /\ IF Receivers = {}
       THEN UNCHANGED <<sent, published>>
       ELSE /\ sent' = Append(sent, id)
            /\ published' = published \cup {id}
    /\ UNCHANGED <<tableVars, serverVars, streamVars, botHist,
                   base, failed, replay>>

\* map_message fails: the error is logged and the row is not tried again.
FailRow(id) ==
    /\ TakeRow(id)
    /\ rows[id] # "sync"
    /\ failed' = failed \cup {id}
    /\ UNCHANGED <<tableVars, serverVars, sent, streamVars, botHist,
                   base, published, replay>>

-----------------------------------------------------------------------------
(* Subscriptions.                                                          *)

\* Fault: streams are accepted during the graceful shutdown.
SubscribeWhileDraining(c) ==
    /\ server # "down"
    /\ stream[c] = "idle"
    /\ stream' = [stream EXCEPT ![c] = "open"]
    /\ next' = [next EXCEPT ![c] = Len(sent)]
    /\ since' = [since EXCEPT ![c] = Len(got[c])]
    /\ mark' = [mark EXCEPT ![c] = Len(rows)]
    /\ overrun' = [overrun EXCEPT ![c] = FALSE]
    /\ UNCHANGED <<tableVars, serverVars, pollVars, wire, got, feedHist>>

\* subscribe_events: the new receiver starts at the tail of the channel.
Subscribe(c) ==
    /\ server = "up"
    /\ stream[c] = "idle"
    /\ stream' = [stream EXCEPT ![c] = "open"]
    /\ next' = [next EXCEPT ![c] = Len(sent)]
    /\ since' = [since EXCEPT ![c] = Len(got[c])]
    /\ mark' = [mark EXCEPT ![c] = Len(rows)]
    /\ overrun' = [overrun EXCEPT ![c] = FALSE]
    /\ UNCHANGED <<tableVars, serverVars, pollVars, wire, got, feedHist>>

\* Fault: the receiver's position is not advanced.
ForwardAgain(c) ==
    /\ stream[c] = "open"
    /\ Len(wire[c]) < Window
    /\ next[c] < Len(sent)
    /\ wire' = [wire EXCEPT ![c] = Append(@, sent[next[c] + 1])]
    /\ UNCHANGED <<tableVars, serverVars, pollVars, stream, next, botHist, feedHist>>

\* The stream is polled and its receiver is at most Capacity events behind.
Forward(c) ==
    /\ stream[c] = "open"
    /\ Len(wire[c]) < Window
    /\ next[c] < Len(sent)
    /\ Len(sent) - next[c] <= Capacity
    /\ wire' = [wire EXCEPT ![c] = Append(@, sent[next[c] + 1])]
    /\ next' = [next EXCEPT ![c] = @ + 1]
    /\ UNCHANGED <<tableVars, serverVars, pollVars, stream, botHist, feedHist>>

\* It is further behind: Err(Lagged) moves it to the oldest event still in
\* the ring, and filter_map drops the error.
Lag(c) ==
    /\ stream[c] = "open"
    /\ Len(wire[c]) < Window
    /\ Len(sent) - next[c] > Capacity
    /\ next' = [next EXCEPT ![c] = Len(sent) - Capacity]
    /\ overrun' = [overrun EXCEPT ![c] = TRUE]
    /\ UNCHANGED <<tableVars, serverVars, pollVars, stream, wire,
                   got, since, mark, feedHist>>

\* async for event in stream: await self.dispatch(event).  What has reached
\* the bot is still read after the connection broke.
Dispatch(c) ==
    /\ wire[c] # <<>>
    /\ got' = [got EXCEPT ![c] = Append(@, Head(wire[c]))]
    /\ wire' = [wire EXCEPT ![c] = Tail(@)]
    /\ UNCHANGED <<tableVars, serverVars, pollVars, stream, next,
                   since, mark, overrun, feedHist>>

\* The connection breaks or the bot closes it; the receiver is dropped.
Disconnect(c) ==
    /\ stream[c] = "open"
    /\ stream' = [stream EXCEPT ![c] = "broken"]
    /\ UNCHANGED <<tableVars, serverVars, pollVars, next, wire, botHist, feedHist>>

\* run() notices, drops the channel (_disconnect) and sleeps before it
\* subscribes again; what was still in flight is lost.
Reset(c) ==
    /\ stream[c] = "broken"
    /\ stream' = [stream EXCEPT ![c] = "idle"]
    /\ wire' = [wire EXCEPT ![c] = <<>>]
    /\ UNCHANGED <<tableVars, serverVars, pollVars, next, botHist, feedHist>>

-----------------------------------------------------------------------------
(* The server process.                                                     *)

Start ==
    /\ server = "down"
    /\ starts < MaxStarts
    /\ server' = "up"
    /\ starts' = starts + 1
    /\ pc' = "start"
    /\ UNCHANGED <<tableVars, last, batch, sent, streamVars, botHist, feedHist>>

\* All of the process's memory goes, and its connections break.
Halt ==
    /\ server' = "down"
    /\ pc' = "down"
    /\ batch' = {}
    /\ last' = 0
    /\ sent' = <<>>
    /\ stream' = [c \in Clients |->
                    IF stream[c] = "open" THEN "broken" ELSE stream[c]]
    /\ next' = [c \in Clients |-> 0]
    /\ UNCHANGED <<tableVars, starts, wire, botHist, feedHist>>

Crash ==
    /\ server # "down"
    /\ Halt

\* shutdown_signal: no new stream is accepted, the open ones go on ...
StdinClosed ==
    /\ server = "up"
    /\ server' = "draining"
    /\ UNCHANGED <<tableVars, starts, pollVars, streamVars, botHist, feedHist>>

\* ... and serve_with_shutdown, and with it main, returns after the last.
Exit ==
    /\ server = "draining"
    /\ Receivers = {}
    /\ Halt

-----------------------------------------------------------------------------
ProcessRow == \E id \in Ids : SkipRow(id) \/ SendRow(id) \/ FailRow(id)

Next ==
    \/ \E kind \in Kinds : Insert(kind)
    \/ \E id \in Ids : Delete(id)
    \/ StartPollerOk
    \/ StartPollerFallback
    \/ PollOk
    \/ PollAgain
    \/ \E id \in Ids : SkipRow(id)
    \/ \E id \in Ids : SendRow(id)
    \/ \E id \in Ids : FailRow(id)
    \/ \E c \in Clients :
        \/ Subscribe(c)
        \/ Forward(c)
        \/ Lag(c)
        \/ Dispatch(c)
        \/ Disconnect(c)
        \/ Reset(c)
    \/ Start
    \/ Crash
    \/ StdinClosed
    \/ Exit

Spec == Init /\ [][Next]_vars

\* The thread and the runtime's tasks are scheduled, a query does not fail
\* for ever, and the bot's handlers return.
Fairness ==
    /\ WF_vars(StartPollerOk \/ StartPollerFallback)
    /\ WF_vars(PollOk)
    /\ WF_vars(ProcessRow)
    /\ WF_vars(Exit)
    /\ \A c \in Clients : /\ WF_vars(Forward(c) \/ Lag(c))
                          /\ WF_vars(Dispatch(c))

FairSpec == Spec /\ Fairness

-----------------------------------------------------------------------------
(* Properties.                                                             *)

Feed == INSTANCE EventFeed WITH
            Ids <- Ids, Clients <- Clients,
            published <- published, got <- got, replay <- replay

\* The pipeline implements the abstract feed: rows are published in table
\* order and a bot gets published rows only, in order and once.
ImplementsFeed == Feed!Spec

\* Across reconnects, restarts and deletions no bot dispatches a row twice
\* or after a younger one, unless a start fell back to position 0.
InOrderOnce == Feed!InOrderOnce

\* Within one subscription that holds even after such a fallback: the
\* poller's position never moves back while the process lives.
SessionInOrder ==
    \A c \in Clients :
        Feed!Ascending(SubSeq(got[c], since[c] + 1, Len(got[c])) \o wire[c])

\* A server that could read MAX(_id) sends no row stored before its start,
\* although deletions may have put that maximum below older ids.
NoHistoryReplay == \A i \in 1..Len(sent) : sent[i] > base

Session(c) ==
    {got[c][i] : i \in (since[c] + 1)..Len(got[c])}
        \cup {wire[c][i] : i \in 1..Len(wire[c])}

Pending(c) == {sent[i] : i \in (next[c] + 1)..Len(sent)}

\* No silent gap: while c is subscribed, every message stored after both its
\* subscription and the poller's start, and passed by the poller, is with c
\* or on its way to c, unless map_message failed on it or c was overrun.
NoSilentGap ==
    \A c \in Clients : stream[c] = "open" /\ ~overrun[c] /\ pc \in {"poll", "map"} =>
        \A id \in Present :
            /\ id > mark[c] /\ id > base
            /\ id <= last
            /\ rows[id] = "msg"
            /\ id \notin failed
            => id \in Session(c) \cup Pending(c)

\* An unreadable row stops the poller in front of it: it is never stepped
\* over, so nothing younger is ever sent while it is there.
StopsAtBadRow ==
    pc \in {"poll", "map"} =>
        \A id \in Present : rows[id] = "bad" /\ id > base => last < id

\* The next query fails, and every row it would have read waits, those in
\* front of the unreadable one included.
Blocked == \E id \in RowsAfter(last) : rows[id] = "bad"

\* A message stored while c is subscribed and the poller runs reaches c,
\* unless the poller is blocked by an unreadable row, the mapping fails, c is
\* overrun, the row is deleted, or somebody hangs up.
MessageArrives ==
    \A c \in Clients, id \in Ids :
        (/\ stream[c] = "open" /\ ~overrun[c]
         /\ pc \in {"poll", "map"}
         /\ id \in Present /\ rows[id] = "msg"
         /\ id > mark[c] /\ id > base)
        ~> \/ id \in Feed!Elems(got[c])
           \/ stream[c] # "open" \/ overrun[c]
           \/ pc = "down" \/ Blocked
           \/ id \in deleted \/ id \in failed

\* Once stdin is closed the server stops, unless from some time on there is
\* always a subscriber that stays: bots that come and go cannot keep it up.
DrainEnds ==
    server = "draining" ~> (server = "down" \/ [](Receivers # {}))
=============================================================================
