--------------------------- MODULE MCReadRequests ---------------------------
(* Two calls on a pool of one connection, with statements of at most two    *)
(* ids.  1 is the current user.  Channel 10 is an ordinary one that takes   *)
(* its name from its members, 20 an open one with a name of its own, 30 an  *)
(* open one that takes it from its members.  Bytes are digits in base 4,    *)
(* and a polynomial stands for SHA-1.                                       *)
EXTENDS ReadRequests

MCTasks == {"a", "b"}
MCIds == {1, 2, 3, 4}
MCMessages == {5, 6, 7, 8}
MCChannels == {10, 20, 30}
MCOpenChannels == {20, 30}
MCLogins == {1, 2}

MCRooms == [c \in MCChannels |->
    [om |-> c = 20, named |-> FALSE, display |-> IF c = 10 THEN <<3, 2>> ELSE <<2, 1>>]]
MCChannelOf == [m \in MCMessages |-> IF m = 8 THEN 20 ELSE 10]

MCPassword == <<0, 3, 1, 0>>
\* 0 and 1 have no prefix; 2 and 3 can make one salt of two users; 4 leaves
\* no room for a user.
MCPrefix == <<<<>>, <<>>, <<1>>, <<1, 2>>, <<2, 3, 1>>>>
MCDigits == <<<<2, 3>>, <<3>>, <<3, 3, 1>>, <<2, 0, 1, 3>>>>
MCEncOf == <<0, 2, 1, 9>>

MCSha1(bytes) ==
    LET hash[i \in 0..Len(bytes)] ==
            IF i = 0 THEN 7 ELSE (hash[i - 1] * 5 + bytes[i] + 3) % 16
    IN  <<hash[Len(bytes)] \div 4, hash[Len(bytes)] % 4>>

Request(kind, channel, list) ==
    [kind |-> kind, channel |-> channel, ids |-> list, limit |-> 0, enc |-> 0, sql |-> "SELECT",
     params |-> <<>>]

Users == Request("users", 10, <<4, 1, 3, 2, 3>>)
OpenUsers == Request("users", 30, <<2, 1, 2>>)
NoUsers == Request("users", 10, <<>>)
SomeMessages == Request("messages", 10, <<6, 7, 5, 6>>)
OtherMessages == Request("messages", 10, <<8>>)
NoMessages == Request("messages", 10, <<>>)
ChannelMembersOf10 == Request("members", 10, <<>>)
Channel10 == Request("channel", 10, <<>>)
Channel20 == Request("channel", 20, <<>>)
Channel30 == Request("channel", 30, <<>>)
Raw(limit) == [Request("raw", 10, <<>>) EXCEPT !.limit = limit, !.params = <<"integer">>]
BadRaw == [Raw(1) EXCEPT !.params = <<"null", "array">>]
EmptyRaw == [Raw(1) EXCEPT !.sql = ""]
Credential == Request("credential", 10, <<>>)
DecryptText(enc, user) ==
    [Request("decrypt", 10, <<user>>) EXCEPT !.enc = enc]

Stored == ({"user"} \X {2}) \cup ({"friends"} \X {2, 3, 4}) \cup {<<"open_chat_member", 2>>}
              \cup ({"chat_rooms"} \X MCChannels) \cup {<<"open_link", 20>>, <<"open_profile", 30>>}
              \cup ({"chat_logs"} \X MCMessages) \cup ({"device", "aot"} \X {1})

\* Two requests, and the rows that come and go meanwhile.
Scenarios == {
    <<Users, OpenUsers, {"user", "friends"} \X {2}>>,
    <<Users, Channel30, {<<"open_chat_member", 2>>, <<"open_profile", 30>>, <<"chat_rooms", 30>>}>>,
    <<Channel10, DecryptText(0, 1), {<<"user", 2>>, <<"friends", 3>>, <<"chat_rooms", 10>>}>>,
    <<OpenUsers, DecryptText(2, 1), {<<"open_chat_member", 2>>, <<"open_profile", 30>>}>>,
    <<DecryptText(2, 1), DecryptText(3, 3), {}>>,
    <<DecryptText(4, 2), DecryptText(9, 1), {}>>,
    <<SomeMessages, SomeMessages, {"chat_logs"} \X {6}>>,
    <<SomeMessages, Channel20, {"chat_rooms", "open_link"} \X {20}>>,
    <<OtherMessages, NoMessages, {}>>,
    <<NoUsers, ChannelMembersOf10, {<<"chat_rooms", 10>>}>>,
    <<Raw(2), Raw(0), {"chat_logs"} \X {5, 6}>>,
    <<Raw(9), BadRaw, {"chat_logs"} \X {5, 8}>>,
    <<EmptyRaw, BadRaw, {}>>,
    <<Credential, Credential, {"device", "aot"} \X MCLogins>>}

MCInputs == {[present |-> Stored \ gone, moving |-> scenario[3],
              request |-> [t \in MCTasks |-> scenario[IF t = "a" THEN 1 ELSE 2]]] :
                scenario \in Scenarios, gone \in {{}, {<<"user", 2>>}}}
=============================================================================
