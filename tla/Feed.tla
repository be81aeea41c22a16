-------------------------------- MODULE Feed --------------------------------
(***************************************************************************)
(* What feed::parse (src/database/feed.rs) makes of the text of a row      *)
(* of type 0: the type its feedType stands for, the fields it cannot do    *)
(* without, and the messages it is about.  Of the JSON nothing is left but *)
(* whether there is one, feedType, which fields have a value of the right  *)
(* form, and the message ids in logId and chatLogInfos.                    *)
(***************************************************************************)
EXTENDS Naturals, TLC

\* OPEN_CHAT_REWRITE_TYPE: the row itself was rewritten to a feed.
Rewrite == 13

Types == 1 :> "UserJoined" @@ 2 :> "UserLeft" @@ 4 :> "OpenLinkUserJoined"
      @@ 5 :> "OpenLinkDeleted" @@ 6 :> "UserKicked" @@ 11 :> "ModeratorAdded"
      @@ 12 :> "ModeratorRemoved" @@ Rewrite :> "MessageHidden" @@ 14 :> "MessageDeleted"
      @@ 15 :> "HostChanged" @@ 25 :> "MessageChanged" @@ 26 :> "MessageHidden"
      @@ 27 :> "ManagerSpeakerMode"

FeedType(number) == IF number \in DOMAIN Types THEN Types[number] ELSE "Unknown"

Fields == {"members", "logId", "targetRevision", "chatLogInfos", "eventType"}

\* required_array, required_id, required_i64; the only eventTypes are 1 and 2.
Required(number) ==
    CASE FeedType(number) \in {"UserJoined", "OpenLinkUserJoined"} -> {"members"}
      [] FeedType(number) = "MessageDeleted" -> {"logId"}
      [] FeedType(number) = "MessageChanged" -> {"logId", "targetRevision"}
      [] FeedType(number) = "MessageHidden" /\ number # Rewrite -> {"chatLogInfos"}
      [] FeedType(number) = "ManagerSpeakerMode" -> {"eventType"}
      [] OTHER -> {}

Parses(feed) == feed.json /\ Required(feed.number) \subseteq feed.fields

\* The messages that the feed in row own is about, in the order of its list.
About(feed, own) ==
    IF ~Parses(feed) THEN <<>>
    ELSE IF feed.number = Rewrite THEN <<own>>
    ELSE IF FeedType(feed.number) \in {"MessageDeleted", "MessageChanged", "MessageHidden"}
    THEN feed.ids
    ELSE <<>>
=============================================================================
