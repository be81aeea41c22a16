-------------------------- MODULE MCMessageMapping --------------------------
(* The poller and one handler on a pool of one connection.  Logs of three   *)
(* messages in which feeds refer to feeds, back, forward and in circles,    *)
(* are tried in an ordinary room; every kind of room is tried with one log. *)
EXTENDS MessageMapping

MCTasks == {"poller", "handler"}
MCUsers == {"me", "you"}

LogRow(type, feed, meta) == [type |-> type, feed |-> feed, meta |-> meta, author |-> "you"]
FeedOf(number, fields, ids) == [json |-> TRUE, number |-> number, fields |-> fields, ids |-> ids]

Text == LogRow(1, [FeedOf(0, {}, <<>>) EXCEPT !.json = FALSE], {})
Plain == LogRow(0, FeedOf(2, {}, <<>>), {})
NoJson == LogRow(0, [FeedOf(26, {"chatLogInfos"}, <<1>>) EXCEPT !.json = FALSE], {})
NoRevision == LogRow(0, FeedOf(25, {"logId"}, <<1>>), {})
Rewritten == LogRow(0, FeedOf(Rewrite, {}, <<>>), PreviousFields)
Deleted(id) == LogRow(0, FeedOf(14, {"logId"}, <<id>>), {})
Changed(id) == LogRow(0, FeedOf(25, {"logId", "targetRevision"}, <<id>>), {})
Hidden(ids) == LogRow(0, FeedOf(26, {"chatLogInfos"}, ids), PreviousFields)

NestedLogs == {<<a, b, c>> :
    a \in {Text, Rewritten}, b \in {NoRevision, Changed(1), Hidden(<<2, 1>>)},
    c \in {Deleted(2), Hidden(<<2, 1>>), Hidden(<<2, 3>>)}}

\* Feeds that refer to each other through one or two others, and a feed of a
\* later one that lists a message twice.
Circles == {<<Hidden(<<3, 1>>), Changed(1), Deleted(2)>>, <<Hidden(<<2>>), Hidden(<<2, 1>>), Deleted(1)>>,
            <<Changed(3), Text, Hidden(<<2, 2>>)>>}

SomeLog == <<Text, Plain, Deleted(1)>>

Ordinary == [exists |-> TRUE, om |-> FALSE, open |-> FALSE, link |-> FALSE, named |-> FALSE,
             display |-> {"you"}, profile |-> FALSE, members |-> {"you"}]

\* A room of type OM and another one whose id has the bit are both open rooms.
OM == [Ordinary EXCEPT !.om = TRUE, !.open = TRUE, !.members = {}]
Open == [Ordinary EXCEPT !.open = TRUE, !.display = MCUsers]

SomeRooms == {[Ordinary EXCEPT !.exists = FALSE], [Ordinary EXCEPT !.members = {}],
              [Ordinary EXCEPT !.members = {}, !.named = TRUE], [Ordinary EXCEPT !.display = {"me"}],
              OM, [OM EXCEPT !.link = TRUE], [OM EXCEPT !.link = TRUE, !.open = FALSE],
              Open, [Open EXCEPT !.profile = TRUE], [Open EXCEPT !.profile = TRUE, !.members = {}],
              [Open EXCEPT !.named = TRUE], [Open EXCEPT !.display = {"you"}]}

MCInputs == {[log |-> log, room |-> Ordinary] : log \in NestedLogs \cup Circles \cup {<<NoJson, Text, Plain>>}}
                \cup {[log |-> SomeLog, room |-> room] : room \in SomeRooms}
=============================================================================
