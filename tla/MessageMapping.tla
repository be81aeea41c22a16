--------------------------- MODULE MessageMapping ---------------------------
(***************************************************************************)
(* How a row of chat_logs becomes an event: map_message of                 *)
(* src/database/mapping.rs with the queries it makes, for the poller       *)
(* and the gRPC handlers at once.  Every query takes a connection of one   *)
(* r2d2 pool; a feed that tells of other messages fetches and maps each of *)
(* them in turn, which may be feeds again, so a task has a stack of        *)
(* messages it is mapping.  Nothing in the code bounds that stack: feeds   *)
(* that refer to each other in a circle are mapped until the thread's own  *)
(* stack overflows and takes the process down.  The messenger may delete   *)
(* rows meanwhile.                                                         *)
(*                                                                         *)
(* Of a row only its type, its author, its text as far as it is a feed     *)
(* (module Feed) and the fields of its metadata that hold a previous text  *)
(* are left.                                                               *)
(***************************************************************************)
EXTENDS Naturals, Sequences, FiniteSets, SequencesExt, FiniteSetsExt, Feed

CONSTANTS
    Tasks,         \* the poller and the handlers that map at the same time
    NumMessages,
    PoolSize,      \* connections: 10 in database/mod.rs
    MaxDeleted,    \* bound: messages the messenger deletes
    StackDepth,    \* mappings inside each other that a thread's stack has room for
    Users,         \* members that can be looked up
    Self,          \* current_user_id
    Inputs         \* the databases that are tried

ASSUME MappingConstants ==
    /\ NumMessages \in Nat \ {0}
    /\ PoolSize \in Nat \ {0}
    /\ MaxDeleted \in Nat
    /\ StackDepth \in Nat \ {0}
    /\ Self \in Users

Messages == 1..NumMessages
PreviousFields == {"previous_message", "previous_enc"}

LogRows == [type   : Nat,
            feed   : [json : BOOLEAN, number : Nat, fields : SUBSET Fields,
                      ids : Seq(Messages)],
            meta   : SUBSET PreviousFields,
            author : Users]

\* A feed may list any messages, in any order and more than once; the one that
\* has a logId has one.
Logs == {log \in [Messages -> LogRows] : \A m \in Messages :
            "logId" \in log[m].feed.fields => Len(log[m].feed.ids) = 1}

Rooms == [exists  : BOOLEAN,         \* the row in chat_rooms
          om      : BOOLEAN,         \* its type is OM
          open    : BOOLEAN,         \* its id has the bit of OPEN_CHANNEL_ID_MASK
          link    : BOOLEAN,         \* the row in open_link
          named   : BOOLEAN,         \* a name in its metadata
          display : SUBSET Users,    \* display_user_ids
          profile : BOOLEAN,         \* the own row in open_profile
          members : SUBSET Users]    \* rows in user and friends, open_chat_member

ASSUME InputsAreDatabases ==
    \A input \in Inputs : input.room \in Rooms /\ input.log \in Logs

VARIABLES
    db,        \* the input; never changes
    deleted,   \* messages deleted since
    holding,   \* tasks that hold a connection of the pool
    stack,     \* stack[t]: the messages t is mapping, innermost last
    target,    \* target[t]: the message t set out to map, or 0
    outcome,   \* outcome[t]: "none", "ok" or "error"
    result,    \* result[t]: the previous messages of the event
    overflow,  \* the task whose thread overflowed its stack: the process is gone
    excuse     \* history: tasks that a query has failed

vars == <<db, deleted, holding, stack, target, outcome, result, overflow, excuse>>

Sources == {"log", "meta"}
Snapshots == [id : Messages, src : Sources]
Frames == [msg : Messages, phase : {"row", "author", "channel", "enrich"},
           next : Nat \ {0}, found : Seq(Snapshots)]

TypeOK ==
    /\ db \in Inputs
    /\ deleted \in SUBSET Messages
    /\ holding \in SUBSET Tasks /\ Cardinality(holding) <= PoolSize
    /\ \A t \in Tasks : Len(stack[t]) <= StackDepth /\ ToSet(stack[t]) \subseteq Frames
    /\ target \in [Tasks -> Messages \cup {0}]
    /\ outcome \in [Tasks -> {"none", "ok", "error"}]
    /\ \A t \in Tasks : ToSet(result[t]) \subseteq Snapshots
    /\ overflow \in SUBSET Tasks /\ excuse \in SUBSET Tasks

Init ==
    /\ db \in Inputs
    /\ deleted = {} /\ holding = {} /\ overflow = {} /\ excuse = {}
    /\ stack = [t \in Tasks |-> <<>>]
    /\ target = [t \in Tasks |-> 0]
    /\ outcome = [t \in Tasks |-> "none"]
    /\ result = [t \in Tasks |-> <<>>]

Frame(m, phase) == [msg |-> m, phase |-> phase, next |-> 1, found |-> <<>>]

In(t, phase) == stack[t] # <<>> /\ Last(stack[t]).phase = phase
Querying(t) == In(t, "row") \/ In(t, "author") \/ In(t, "channel")

\* The innermost message of t is at this phase now.
SetPhase(t, phase) ==
    stack' = [stack EXCEPT ![t] = Front(@) \o <<[Last(@) EXCEPT !.phase = phase]>>]

Release(t) == holding' = holding \ {t}

-----------------------------------------------------------------------------
(* The messenger and the pool.                                             *)

Delete(m) ==
    /\ m \notin deleted
    /\ Cardinality(deleted) < MaxDeleted
    /\ deleted' = deleted \cup {m}
    /\ UNCHANGED <<db, holding, stack, target, outcome, result, overflow, excuse>>

\* Fault: connections are opened without a limit.
AcquireBeyondPool(t) ==
    /\ Querying(t) /\ t \notin holding
    /\ holding' = holding \cup {t}
    /\ UNCHANGED <<db, deleted, stack, target, outcome, result, overflow, excuse>>

\* pool.get()
Acquire(t) ==
    /\ Querying(t) /\ t \notin holding
    /\ Cardinality(holding) < PoolSize
    /\ holding' = holding \cup {t}
    /\ UNCHANGED <<db, deleted, stack, target, outcome, result, overflow, excuse>>

\* Any error but MessageNotFound ends the whole mapping, however deep it is.
Fail(t) ==
    /\ stack' = [stack EXCEPT ![t] = <<>>]
    /\ outcome' = [outcome EXCEPT ![t] = "error"]
    /\ UNCHANGED <<db, deleted, target, result>>

-----------------------------------------------------------------------------
(* map_message.                                                            *)

\* The poller or get_messages has the row in hand.
Begin(t, m) ==
    /\ target[t] = 0 /\ m \notin deleted /\ overflow = {}
    /\ target' = [target EXCEPT ![t] = m]
    /\ stack' = [stack EXCEPT ![t] = <<Frame(m, "author")>>]
    /\ UNCHANGED <<db, deleted, holding, outcome, result, overflow, excuse>>

\* Fault: the author is asked for with ? instead of .ok().
AuthorOrFail(t) ==
    /\ In(t, "author") /\ t \in holding
    /\ Release(t)
    /\ IF db.log[Last(stack[t]).msg].author \in db.room.members \cup {Self}
       THEN SetPhase(t, "channel") /\ UNCHANGED <<db, deleted, target, outcome, result>>
       ELSE Fail(t)
    /\ UNCHANGED <<overflow, excuse>>

\* get_user(..).ok(): an author who cannot be found is left out.
Author(t) ==
    /\ In(t, "author") /\ t \in holding
    /\ Release(t)
    /\ SetPhase(t, "channel")
    /\ UNCHANGED <<db, deleted, target, outcome, result, overflow, excuse>>

\* get_users_with_connection finds every one of ids.
MembersFound(ids) ==
    /\ ids \ {Self} \subseteq db.room.members
    /\ Self \in ids /\ db.room.open => db.room.profile

\* Fault: the id of the room is asked whether it has a link, not its type.
ChannelByMask ==
    /\ db.room.exists
    /\ IF db.room.open THEN db.room.link
       ELSE db.room.named \/ MembersFound(db.room.display)

\* get_channel: the row, and a name if the channel's type asks for one.
ChannelFound ==
    /\ db.room.exists
    /\ IF db.room.om THEN db.room.link
       ELSE db.room.named \/ MembersFound(db.room.display)

IsFeed(m) == db.log[m].type = 0

\* A message, or a feed that feed::parse accepts
Assembled(m) == IsFeed(m) => Parses(db.log[m].feed)

IsHidden(m) == IsFeed(m) /\ FeedType(db.log[m].feed.number) = "MessageHidden"

\* The messages a feed is about, as it lists them
Ids(m) == IF IsFeed(m) THEN About(db.log[m].feed, m) ELSE <<>>

\* hidden_message_from_metadata
HasPrevious(m) == IsHidden(m) /\ db.log[m].meta = PreviousFields /\ Ids(m) # <<>>

\* Fault: get_channel looks its members up on a connection of its own.
ChannelOnTwoConnections(t) ==
    /\ In(t, "channel") /\ t \in holding
    /\ ~db.room.om /\ ~db.room.named => Cardinality(holding) < PoolSize
    /\ Release(t)
    /\ IF ChannelFound /\ Assembled(Last(stack[t]).msg)
       THEN SetPhase(t, "enrich") /\ UNCHANGED <<db, deleted, target, outcome, result>>
       ELSE Fail(t)
    /\ UNCHANGED <<overflow, excuse>>

\* get_channel(..)? and assemble_message(..)?
Channel(t) ==
    /\ In(t, "channel") /\ t \in holding
    /\ Release(t)
    /\ IF ChannelFound /\ Assembled(Last(stack[t]).msg)
       THEN SetPhase(t, "enrich") /\ UNCHANGED <<db, deleted, target, outcome, result>>
       ELSE Fail(t)
    /\ UNCHANGED <<overflow, excuse>>

\* A query fails, or waits too long for a connection: fatal unless it is the
\* one for the author.
QueryError(t) ==
    /\ Querying(t)
    /\ t \in holding \/ Cardinality(holding) = PoolSize
    /\ Release(t)
    /\ IF In(t, "author")
       THEN SetPhase(t, "channel") /\ UNCHANGED <<db, deleted, target, outcome, result, overflow, excuse>>
       ELSE Fail(t) /\ excuse' = excuse \cup {t} /\ UNCHANGED overflow

-----------------------------------------------------------------------------
(* enrich_feed and get_message_snapshot.                                   *)

\* The next id on the list of the innermost message of t.
Listed(t) == Ids(Last(stack[t]).msg)[Last(stack[t]).next]

Asking(t) == In(t, "enrich") /\ Last(stack[t]).next <= Len(Ids(Last(stack[t]).msg))

\* The innermost message of t has had its turn with one more id.
Advanced(t) == Front(stack[t]) \o <<[Last(stack[t]) EXCEPT !.next = @ + 1]>>

\* The message of the next id is mapped inside this one, if the stack has room.
Descend(t) ==
    IF Len(stack[t]) < StackDepth
    THEN /\ stack' = [stack EXCEPT ![t] = Advanced(t) \o <<Frame(Listed(t), "row")>>]
         /\ UNCHANGED <<holding, overflow>>
    ELSE /\ overflow' = {t}
         /\ stack' = [u \in Tasks |-> <<>>] /\ holding' = {}

\* Fault: a feed's reference to itself is followed.
AskItself(t) ==
    /\ Asking(t)
    /\ Descend(t)
    /\ UNCHANGED <<db, deleted, target, outcome, result, excuse>>

\* The ids are asked for one after the other, but not the feed's own.
Ask(t) ==
    /\ Asking(t)
    /\ IF Listed(t) = Last(stack[t]).msg
       THEN stack' = [stack EXCEPT ![t] = Advanced(t)] /\ UNCHANGED <<holding, overflow>>
       ELSE Descend(t)
    /\ UNCHANGED <<db, deleted, target, outcome, result, excuse>>

\* get_message_rows; MessageNotFound only means that there is no snapshot.
Row(t) ==
    /\ In(t, "row") /\ t \in holding
    /\ Release(t)
    /\ IF Last(stack[t]).msg \in deleted
       THEN stack' = [stack EXCEPT ![t] = Front(@)]
       ELSE SetPhase(t, "author")
    /\ UNCHANGED <<db, deleted, target, outcome, result, overflow, excuse>>

\* Where the snapshots of message id are.
Positions(found, id) == {i \in 1..Len(found) : found[i].id = id}

Merge(found, id) ==
    IF Positions(found, id) = {}
    THEN Append(found, [id |-> id, src |-> "meta"])
    ELSE [found EXCEPT ![Min(Positions(found, id))] = [id |-> id, src |-> "meta"]]

\* Fault: the text in the metadata is always taken for the first message.
PreviousOfFirst(frame) ==
    IF HasPrevious(frame.msg)
    THEN Merge(frame.found, Ids(frame.msg)[1])
    ELSE frame.found

\* What the event tells of earlier messages.  The text in the metadata of a
\* hidden feed is that of the feed's own row if it is among them, else that of
\* the first; it replaces or joins what was found.
Previous(frame) ==
    LET ids == Ids(frame.msg) IN
    IF HasPrevious(frame.msg)
    THEN Merge(frame.found, IF frame.msg \in ToSet(ids) THEN frame.msg ELSE ids[1])
    ELSE frame.found

\* A message is its own snapshot; of a feed only a hidden one has one, the
\* previous text of its own row.
Snapshot(frame) ==
    LET own == Positions(Previous(frame), frame.msg) IN
    IF ~IsFeed(frame.msg) THEN <<[id |-> frame.msg, src |-> "log"]>>
    ELSE IF IsHidden(frame.msg) /\ own # {}
    THEN <<Previous(frame)[Min(own)]>>
    ELSE <<>>

\* map_message returns, to get_message_snapshot or to the task.
Return(t) ==
    LET frame == Last(stack[t])
        outer == Front(stack[t])
    IN
    /\ In(t, "enrich") /\ ~Asking(t)
    /\ IF outer = <<>>
       THEN /\ stack' = [stack EXCEPT ![t] = <<>>]
            /\ outcome' = [outcome EXCEPT ![t] = "ok"]
            /\ result' = [result EXCEPT ![t] = Previous(frame)]
       ELSE /\ stack' = [stack EXCEPT ![t] =
                Front(outer) \o <<[Last(outer) EXCEPT !.found = @ \o Snapshot(frame)]>>]
            /\ UNCHANGED <<outcome, result>>
    /\ UNCHANGED <<db, deleted, holding, target, overflow, excuse>>

-----------------------------------------------------------------------------
\* What a task does when nothing goes wrong.
Step(t) ==
    \/ Acquire(t)
    \/ Author(t)
    \/ Channel(t)
    \/ Ask(t)
    \/ Row(t)
    \/ Return(t)

Next ==
    \/ \E m \in Messages : Delete(m)
    \/ \E t \in Tasks, m \in Messages : Begin(t, m)
    \/ \E t \in Tasks :
        \/ Acquire(t)
        \/ Author(t)
        \/ Channel(t)
        \/ QueryError(t)
        \/ Ask(t)
        \/ Row(t)
        \/ Return(t)

Spec == Init /\ [][Next]_vars

\* Threads are scheduled and queries return; nothing relies on an error.
FairSpec == Spec /\ WF_vars(\E t \in Tasks : Step(t))

-----------------------------------------------------------------------------
(* Properties.                                                             *)

\* The messages m refers to besides itself.
Cited(m) == ToSet(Ids(m)) \ {m}

\* m and every message it refers to, directly or through other feeds: the
\* messages of every set that holds m and what its members refer to.
Reachable(m) ==
    {id \in Messages : \A S \in SUBSET Messages :
        m \in S /\ (\A k \in S : Cited(k) \subseteq S) => id \in S}

\* m refers to itself through other feeds.
Circular(m) == \E id \in Cited(m) : m \in Reachable(id)

\* A message is mapped inside its own mapping only if it refers to itself
\* through other feeds, and such a circle is the only thing that overflows a
\* stack with room for as many mappings as there are messages: a feed that
\* lists itself, or a message twice, does neither.
RecursesOnlyInCircles ==
    /\ \A t \in Tasks : \A i, j \in 1..Len(stack[t]) :
          i < j /\ stack[t][i].msg = stack[t][j].msg => Circular(stack[t][i].msg)
    /\ \A t \in overflow :
          StackDepth < NumMessages \/ \E m \in Reachable(target[t]) : Circular(m)

\* Whatever the poller and the handlers ask for at once, the pool of
\* connections never brings them to a halt: every mapping that began ends,
\* unless a stack overflow ends the process.
MappingEnds ==
    \A t \in Tasks : target[t] # 0 ~> outcome[t] # "none" \/ overflow # {}

\* The tables have every row that get_channel needs: a channel of type OM needs
\* its link; another one without a name of its own needs every member it
\* displays, and of those the current user only where the id says open.
RoomIsWhole ==
    LET Known(u) == IF u = Self THEN db.room.open => db.room.profile
                    ELSE u \in db.room.members
    IN  /\ db.room.exists
        /\ db.room.om => db.room.link
        /\ ~db.room.om /\ ~db.room.named => \A u \in db.room.display : Known(u)

\* A message is lost to an error only if a query failed, the tables lack a row
\* for its channel, or it or a message it refers to, however indirectly, is a
\* broken feed; a missing author or referred message costs only itself.
FailsForAReason ==
    \A t \in Tasks : outcome[t] = "error" =>
        \/ t \in excuse
        \/ ~RoomIsWhole
        \/ \E m \in Reachable(target[t]) : ~Assembled(m)

\* The text a message had, as far as the database still knows it.
LastText(m) ==
    IF ~IsFeed(m) THEN "log"
    ELSE IF HasPrevious(m) /\ m \in ToSet(Ids(m)) THEN "meta" ELSE "none"

Told(m, id) ==
    IF HasPrevious(m) /\ id = (IF m \in ToSet(Ids(m)) THEN m ELSE Ids(m)[1]) THEN "meta"
    ELSE IF id = m THEN "none" ELSE LastText(id)

\* What is told of id first; a reader looks no further.
FirstText(snapshots, id) ==
    LET own == Positions(snapshots, id)
    IN  IF own = {} THEN "none" ELSE snapshots[Min(own)].src

\* Each snapshot is of a message that the list names at a place of its own.
Placed(snapshots, ids, places) ==
    \E f \in Injection(1..Len(snapshots), places) :
        \A k \in 1..Len(snapshots) : ids[f[k]] = snapshots[k].id

\* The event tells of each message the feed is about the text the database
\* still has, even if the row was itself rewritten to a feed, and of none more
\* often than the feed lists it; a row deleted meanwhile may be missing.
PreviousIsRight ==
    \A t \in Tasks : outcome[t] = "ok" =>
        LET ids == Ids(target[t]) IN
        /\ Placed(result[t], ids, 1..Len(ids))
        /\ \A id \in ToSet(ids) :
            \/ FirstText(result[t], id) = Told(target[t], id)
            \/ id \in deleted /\ FirstText(result[t], id) = "none"
=============================================================================
