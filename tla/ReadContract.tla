---------------------------- MODULE ReadContract ----------------------------
(***************************************************************************)
(* What the read requests of the Arisa server promise, with connections,   *)
(* statements, chunks, files and keys abstracted away.  No request reads   *)
(* its data at one point in time: the messenger writes on while it is      *)
(* answered.  So an answer is judged by the rows that were there at some   *)
(* time since the request was made (ever) and by those that were there all *)
(* the time (always): it tells only of the former and misses none of the   *)
(* latter.                                                                 *)
(***************************************************************************)
EXTENDS Naturals, Sequences

CONSTANTS
    Tasks,         \* calls in progress at the same time
    Requests,      \* what they may ask for
    Valid,         \* those of them that are well formed
    Rows,          \* <<table, key>>: the rows and files that may exist
    Self,          \* current_user_id
    OpenChannels,  \* channels with the bit of OPEN_CHANNEL_ID_MASK
    Rooms,         \* Rooms[c]: what the row of channel c says
    ChannelOf,     \* ChannelOf[m]: the channel of message m
    Garbled        \* members whose texts name an unknown encryption type

VARIABLES
    present,   \* rows that exist now
    request,   \* request[t]: what t asks for; never changes
    asked,     \* tasks that have asked
    always,    \* always[t]: rows that have been there ever since t asked
    ever,      \* ever[t]: rows that have been there at some time since
    broke,     \* tasks with a statement, a file or a thread that failed
    answer     \* answer[t]: <<>>, or <<the answer>>

contractVars == <<present, request, asked, always, ever, broke, answer>>

Init ==
    /\ present \in SUBSET Rows
    /\ request \in [Tasks -> Requests]
    /\ asked = {}
    /\ always = [t \in Tasks |-> {}] /\ ever = [t \in Tasks |-> {}]
    /\ broke = {}
    /\ answer = [t \in Tasks |-> <<>>]

-----------------------------------------------------------------------------
(* Members.                                                                *)

IsOpen(channel) == channel \in OpenChannels

\* The texts of a member come from a table that holds them encrypted.
Encrypted == {"friends", "open_chat_member"}

TextOf(id, from) == IF from \in Encrypted /\ id \in Garbled THEN "same" ELSE "clear"

\* An answer may take member id from this table.
MayTell(channel, id, from, A, E) ==
    \/ id = Self /\ ~IsOpen(channel) /\ from = "own"
    \/ id = Self /\ IsOpen(channel) /\ from = "open_profile" /\ <<from, channel>> \in E
    \/ id # Self /\ IsOpen(channel) /\ from = "open_chat_member" /\ <<from, id>> \in E
    \/ id # Self /\ ~IsOpen(channel) /\ from = "user" /\ <<from, id>> \in E
    \/ /\ id # Self /\ ~IsOpen(channel) /\ from = "friends" /\ <<from, id>> \in E
       /\ <<"user", id>> \notin A

\* An answer may say that there is no member id.  Of two tables one is read
\* after the other: a member who moves between them may be missed.
MayMiss(channel, id, A) ==
    /\ id # Self
    /\ IF IsOpen(channel)
       THEN ~({<<"open_chat_member", id>>, <<"chat_rooms", channel>>} \subseteq A)
       ELSE {<<"user", id>>, <<"friends", id>>} \cap A = {}

\* The own profile of an open channel is an error where others are missing.
MayLackProfile(channel, ids, A) ==
    /\ IsOpen(channel) /\ \E i \in 1..Len(ids) : ids[i] = Self
    /\ ~({<<"open_profile", channel>>, <<"chat_rooms", channel>>} \subseteq A)

\* One entry for each id asked for, in that order, as often as it is asked for.
TellsMembers(channel, ids, items, A, E) ==
    /\ Len(items) = Len(ids)
    /\ \A i \in 1..Len(ids) :
        /\ items[i].id = ids[i]
        /\ MayTell(channel, ids[i], items[i].from, A, E)
        /\ items[i].text = TextOf(ids[i], items[i].from)

-----------------------------------------------------------------------------
(* The other requests.                                                     *)

\* Whether get_channel has to look members up for a name.
NamedByMembers(channel) ==
    ~Rooms[channel].om /\ ~Rooms[channel].named /\ Rooms[channel].display # <<>>

TellsMessages(q, items, E) ==
    /\ Len(items) = Len(q.ids)
    /\ \A i \in 1..Len(q.ids) :
        /\ items[i] = [id |-> q.ids[i], from |-> "chat_logs", text |-> "clear"]
        /\ <<"chat_logs", q.ids[i]>> \in E
        /\ ChannelOf[q.ids[i]] = q.channel

\* A raw SELECT ... ORDER BY id: the first rows, no more than asked for, and
\* none left out in front of them.
TellsFirstRows(q, items, A, E) ==
    /\ Len(items) <= q.limit
    /\ \A i \in 1..Len(items) :
        /\ <<"chat_logs", items[i].id>> \in E
        /\ i > 1 => items[i - 1].id < items[i].id
    /\ \A row \in A : row[1] = "chat_logs" =>
        \/ \E i \in 1..Len(items) : items[i].id = row[2]
        \/ Len(items) = q.limit /\ (q.limit = 0 \/ items[q.limit].id < row[2])

\* The device id and the tokens, each as it was at some time.
TellsCredential(items, E) ==
    /\ Len(items) = 2
    /\ <<"device", items[1].id>> \in E /\ <<"aot", items[2].id>> \in E

MayMissSomething(q, ans, A) ==
    CASE q.kind = "messages" ->
            \E i \in 1..Len(q.ids) :
                /\ ans.id = q.ids[i]
                /\ <<"chat_logs", ans.id>> \notin A \/ ChannelOf[ans.id] # q.channel
      [] q.kind = "users" ->
            \E i \in 1..Len(q.ids) : ans.id = q.ids[i] /\ MayMiss(q.channel, ans.id, A)
      [] q.kind = "channel" ->
            /\ NamedByMembers(q.channel)
            /\ \E i \in 1..Len(Rooms[q.channel].display) :
                    ans.id = Rooms[q.channel].display[i] /\ MayMiss(q.channel, ans.id, A)
      [] OTHER -> FALSE

MayFail(q, A) ==
    CASE q.kind = "users" -> MayLackProfile(q.channel, q.ids, A)
      [] q.kind = "members" -> <<"chat_rooms", q.channel>> \notin A
      [] q.kind = "channel" ->
            \/ <<"chat_rooms", q.channel>> \notin A
            \/ Rooms[q.channel].om /\ <<"open_link", q.channel>> \notin A
            \/ /\ NamedByMembers(q.channel)
               /\ MayLackProfile(q.channel, Rooms[q.channel].display, A)
      [] q.kind = "credential" ->
            \E table \in {"device", "aot"} : \A row \in A : row[1] # table
      [] OTHER -> FALSE

Tells(q, items, A, E) ==
    CASE q.kind = "users" -> TellsMembers(q.channel, q.ids, items, A, E)
      [] q.kind = "messages" -> TellsMessages(q, items, E)
      [] q.kind = "members" ->
            <<"chat_rooms", q.channel>> \in E /\ Len(items) = 1 /\ items[1].id = q.channel
      [] q.kind = "channel" ->
            /\ <<"chat_rooms", q.channel>> \in E
            /\ Rooms[q.channel].om => <<"open_link", q.channel>> \in E
            /\ IF NamedByMembers(q.channel)
               THEN TellsMembers(q.channel, Rooms[q.channel].display, items, A, E)
               ELSE items = <<>>
      [] q.kind = "raw" -> q \in Valid /\ TellsFirstRows(q, items, A, E)
      [] q.kind = "credential" -> TellsCredential(items, E)
      [] q.kind = "decrypt" ->
            Len(items) = 1 /\ items[1].text = (IF q \in Valid THEN "clear" ELSE "same")

Allowed(q, ans, A, E) ==
    \/ ans.outcome = "ok" /\ Tells(q, ans.items, A, E)
    \/ ans.outcome = "missing" /\ MayMissSomething(q, ans, A)
    \/ ans.outcome = "failed" /\ MayFail(q, A)
    \/ ans.outcome = "invalid" /\ q.kind = "raw" /\ q \notin Valid

-----------------------------------------------------------------------------
(* Steps.                                                                  *)

\* The messenger changes what is there.
Write ==
    /\ present' \in SUBSET Rows
    /\ always' = [t \in Tasks |-> always[t] \cap present']
    /\ ever' = [t \in Tasks |-> IF t \in asked THEN ever[t] \cup present' ELSE ever[t]]
    /\ UNCHANGED <<request, asked, broke, answer>>

Ask(t) ==
    /\ t \notin asked
    /\ asked' = asked \cup {t}
    /\ always' = [always EXCEPT ![t] = present]
    /\ ever' = [ever EXCEPT ![t] = present]
    /\ UNCHANGED <<present, request, broke, answer>>

\* t, and nobody else, is given an answer.
Answered(t) ==
    /\ t \in asked /\ answer[t] = <<>>
    /\ Len(answer'[t]) = 1
    /\ answer' = [answer EXCEPT ![t] = answer'[t]]
    /\ UNCHANGED <<present, request, asked, always, ever>>

Answer(t) ==
    /\ Answered(t)
    /\ Allowed(request[t], answer'[t][1], always[t], ever[t])
    /\ UNCHANGED broke

\* Something the server relies on fails, and the call with it.
Break(t) ==
    /\ Answered(t)
    /\ answer'[t][1].outcome = "failed"
    /\ broke' = broke \cup {t}

Next ==
    \/ Write
    \/ \E t \in Tasks : Ask(t) \/ Answer(t) \/ Break(t)

Spec == Init /\ [][Next]_contractVars
=============================================================================
