----------------------------- MODULE EventFeed -----------------------------
(***************************************************************************)
(* What the event feed of the Arisa server promises a bot, with the        *)
(* database, the poller, the broadcast channel and the gRPC streams        *)
(* abstracted away: message rows are published in the order in which the   *)
(* messenger stored them, and a bot is handed some of the published rows,  *)
(* each at most once and in that order, however often the bot or the       *)
(* server reconnects.  The promise ends when the server has come up        *)
(* without knowing where the table ended (replay).                         *)
(***************************************************************************)
EXTENDS Naturals, Sequences

CONSTANTS
    Ids,       \* row ids of the table db1.chat_logs, natural numbers
    Clients    \* bots

VARIABLES
    published, \* ids of the rows handed to the broadcast channel
    got,       \* got[c]: the ids whose events bot c has dispatched, in order
    replay     \* the poller has once started from 0 instead of MAX(_id)

feedVars == <<published, got, replay>>

Above(id, S) == \A x \in S : x < id

Ascending(s) == \A i, j \in 1..Len(s) : i < j => s[i] < s[j]

Elems(s) == {s[i] : i \in 1..Len(s)}

FeedTypeOK ==
    /\ published \in SUBSET Ids
    /\ got \in [Clients -> Seq(Ids)]
    /\ replay \in BOOLEAN

Init ==
    /\ published = {}
    /\ got = [c \in Clients |-> <<>>]
    /\ replay = FALSE

\* A new event; it comes after every earlier one unless history is replayed.
Publish(id) ==
    /\ replay \/ Above(id, published)
    /\ published' = published \cup {id}
    /\ UNCHANGED <<got, replay>>

\* A bot dispatches a published event, newer than all it has dispatched.
Deliver(c, id) ==
    /\ id \in published
    /\ replay \/ Above(id, Elems(got[c]))
    /\ got' = [got EXCEPT ![c] = Append(@, id)]
    /\ UNCHANGED <<published, replay>>

LoseTrack ==
    /\ replay' = TRUE
    /\ UNCHANGED <<published, got>>

Next ==
    \/ \E id \in Ids : Publish(id)
    \/ \E c \in Clients, id \in Ids : Deliver(c, id)
    \/ LoseTrack

Spec == Init /\ [][Next]_feedVars

\* Every bot sees the rows in table order and none twice, across all its
\* subscriptions, as long as no start has lost track of the end of the table.
InOrderOnce == ~replay => \A c \in Clients : Ascending(got[c])
=============================================================================
