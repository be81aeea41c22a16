----------------------------- MODULE BotClient -----------------------------
(***************************************************************************)
(* The connection of a bot, BotClient of python/src/airi/client.py.        *)
(* The tasks of one asyncio loop share the client's channel: run(), which  *)
(* subscribes and dispatches events for as long as the bot lives, the      *)
(* callers of reply(), get_user() and the like, and whoever calls close(). *)
(* A task runs undisturbed from one await to the next; connect() awaits    *)
(* the health check between looking at the channel and setting it.         *)
(*                                                                         *)
(* A channel is a number, 0 is None; a number is used again once no task   *)
(* and nothing open has it.  What a request asks for and what an event     *)
(* holds is left out; the order of events is EventPipeline's concern.      *)
(***************************************************************************)
EXTENDS Naturals, Sequences, FiniteSets, SequencesExt

CONSTANTS
    Callers,      \* tasks that call reply() and the like
    NumRoutes,    \* handlers registered with on()
    MaxChannels   \* bound: channels that exist at a time, leaked ones included

ASSUME ClientConstants ==
    /\ "run" \notin Callers
    /\ NumRoutes \in Nat /\ MaxChannels \in Nat

Tasks == Callers \cup {"run"}
Routes == 1..NumRoutes
Channels == 1..MaxChannels

VARIABLES
    server,     \* the server answers
    reconnect,  \* the constructor's argument; never changes
    channel,    \* _channel
    stub,       \* the channel of _stub
    open,       \* channels that are not closed
    closed,     \* _closed
    pc,         \* where each task is
    mine,       \* mine[t]: the channel t is connecting or working with
    lost,       \* the connection under run()'s stream has broken
    matched,    \* routes whose type and filters the event at hand passes
    called,     \* handlers called for it, in order
    overlaps    \* history: times connect() replaced another channel

clientVars == <<channel, stub, open, closed>>
taskVars   == <<pc, mine, lost>>
eventVars  == <<matched, called>>
vars == <<server, reconnect, clientVars, taskVars, eventVars, overlaps>>

RunStates == {"idle", "connecting", "using", "dispatching", "sleeping", "returned", "raised"}

TypeOK ==
    /\ server \in BOOLEAN /\ reconnect \in BOOLEAN /\ lost \in BOOLEAN
    /\ channel \in Channels \cup {0} /\ stub = channel
    /\ open \in SUBSET Channels
    /\ closed \in BOOLEAN
    /\ pc \in [Tasks -> RunStates]
    /\ \A c \in Callers : pc[c] \in {"idle", "connecting", "using"}
    /\ mine \in [Tasks -> Channels \cup {0}]
    /\ matched \in SUBSET Routes
    /\ called \in Seq(Routes)
    /\ overlaps \in Nat

Init ==
    /\ server \in BOOLEAN /\ reconnect \in BOOLEAN /\ lost = FALSE
    /\ channel = 0 /\ stub = 0 /\ open = {}
    /\ closed = FALSE
    /\ pc = [t \in Tasks |-> "idle"]
    /\ mine = [t \in Tasks |-> 0]
    /\ matched = {} /\ called = <<>>
    /\ overlaps = 0

Subscribed == {"using", "dispatching"}

Goto(t, state, ch) ==
    /\ pc' = [pc EXCEPT ![t] = state]
    /\ mine' = [mine EXCEPT ![t] = ch]
    /\ lost' = (lost /\ (t = "run" => pc["run"] \in Subscribed /\ state \in Subscribed))

\* The server goes down, and with it every connection; it comes up again.
ServerChanges ==
    /\ server' = ~server
    /\ lost' = (lost \/ (server /\ pc["run"] \in Subscribed))
    /\ UNCHANGED <<reconnect, clientVars, pc, mine, eventVars, overlaps>>

-----------------------------------------------------------------------------
(* connect(), close() and _disconnect().                                   *)

Free == Channels \ (open \cup {mine[t] : t \in Tasks})

\* _get_stub up to its first await: the channel there is, or a new one whose
\* health check is awaited.  connect() on an open client changes nothing.
GetStub(t, wasClosed) ==
    IF channel # 0
    THEN /\ Goto(t, "using", stub)
         /\ closed' = wasClosed
         /\ UNCHANGED <<channel, stub, open>>
    ELSE \E new \in Free :
            /\ \A ch \in Free : new <= ch
            /\ open' = open \cup {new}
            /\ closed' = FALSE
            /\ Goto(t, "connecting", new)
            /\ UNCHANGED <<channel, stub>>

\* The health check succeeds; whatever _channel is by now, it is replaced.
HealthOk(t) ==
    /\ pc[t] = "connecting"
    /\ server
    /\ channel' = mine[t] /\ stub' = mine[t]
    /\ Goto(t, "using", mine[t])
    /\ overlaps' = IF channel = 0 THEN overlaps ELSE overlaps + 1
    /\ UNCHANGED <<server, reconnect, open, closed, eventVars>>

\* Fault: the stub of the closed channel is kept.
DisconnectKeepingStub(gone) ==
    /\ open' = open \ (gone \cup {channel})
    /\ channel' = 0
    /\ UNCHANGED stub

\* _disconnect, after the channels in gone were closed.
Disconnect(gone) ==
    /\ open' = open \ (gone \cup {channel})
    /\ channel' = 0 /\ stub' = 0

\* It may be called again: a connect() that was in its health check the first
\* time has set a channel since then.
Close ==
    /\ closed' = TRUE
    /\ Disconnect({})
    /\ UNCHANGED <<server, reconnect, taskVars, eventVars, overlaps>>

-----------------------------------------------------------------------------
(* A call: reply(), get_user(), ...                                        *)

CallBegin(c) ==
    /\ pc[c] = "idle"
    /\ GetStub(c, closed)
    /\ UNCHANGED <<server, reconnect, eventVars, overlaps>>

\* Fault: a failed health check leaves its channel open.
CallHealthErrorLeaving(c) ==
    /\ pc[c] = "connecting"
    /\ open' = open
    /\ Goto(c, "idle", 0)
    /\ UNCHANGED <<server, reconnect, channel, stub, closed,
                   eventVars, overlaps>>

\* The health check fails, its channel is closed and the call raises.
CallHealthError(c) ==
    /\ pc[c] = "connecting"
    /\ open' = open \ {mine[c]}
    /\ Goto(c, "idle", 0)
    /\ UNCHANGED <<server, reconnect, channel, stub, closed,
                   eventVars, overlaps>>

\* The call returns or raises.
CallEnd(c) ==
    /\ pc[c] = "using"
    /\ Goto(c, "idle", 0)
    /\ UNCHANGED <<server, reconnect, clientVars, eventVars, overlaps>>

-----------------------------------------------------------------------------
(* run().                                                                  *)

RunBegin ==
    /\ pc["run"] \in {"idle", "returned", "raised"}
    /\ GetStub("run", FALSE)
    /\ UNCHANGED <<server, reconnect, eventVars, overlaps>>

\* The except arm and the else arm, after the channels in gone were closed.
\* how: "end" of the stream, a "reconnectable" error, or a "fatal" one.
Leave(gone, how) ==
    /\ IF closed \/ (how = "end" /\ ~reconnect)
       THEN /\ Goto("run", "returned", 0)
            /\ open' = open \ gone
            /\ UNCHANGED <<channel, stub>>
       ELSE IF how = "fatal" \/ ~reconnect
       THEN /\ Goto("run", "raised", 0)
            /\ open' = open \ gone
            /\ UNCHANGED <<channel, stub>>
       ELSE /\ Goto("run", "sleeping", 0)
            /\ Disconnect(gone)
    /\ matched' = {} /\ called' = <<>>
    /\ UNCHANGED <<server, reconnect, closed, overlaps>>

\* OSError, StreamTerminatedError and UNAVAILABLE are reconnectable, any
\* other status is fatal.
RunHealthError(how) ==
    /\ pc["run"] = "connecting"
    /\ how # "end"
    /\ Leave({mine["run"]}, how)

StreamEnds(how) ==
    /\ pc["run"] = "using"
    /\ Leave({}, how)

\* Fault: the loop does not look at _closed again after the sleep.
WakeBlindly ==
    /\ pc["run"] = "sleeping"
    /\ GetStub("run", FALSE)
    /\ UNCHANGED <<server, reconnect, eventVars, overlaps>>

\* Fault: run() gives up after its first reconnection.
WakeNoMore ==
    /\ pc["run"] = "sleeping"
    /\ Goto("run", "idle", 0)
    /\ UNCHANGED <<server, reconnect, clientVars, eventVars, overlaps>>

\* asyncio.sleep(1) is over; while not self._closed.
Wake ==
    /\ pc["run"] = "sleeping"
    /\ IF closed
       THEN Goto("run", "returned", 0) /\ UNCHANGED clientVars
       ELSE GetStub("run", FALSE)
    /\ UNCHANGED <<server, reconnect, eventVars, overlaps>>

-----------------------------------------------------------------------------
(* dispatch().                                                             *)

\* The stream is about to end, but may still hold events it has received.
Broken == lost \/ mine["run"] \notin open

\* An event arrives; the middlewares let it through and it is matched.
EventBegin(routes) ==
    /\ pc["run"] = "using"
    /\ server \/ Broken
    /\ Goto("run", "dispatching", mine["run"])
    /\ matched' = routes /\ called' = <<>>
    /\ UNCHANGED <<server, reconnect, clientVars, overlaps>>

Remaining == {r \in matched : \A i \in 1..Len(called) : called[i] < r}

\* Fault: a handler's exception ends the loop over the routes.
HandleOrStop(r) ==
    /\ pc["run"] = "dispatching"
    /\ r \in Remaining /\ \A q \in Remaining : r <= q
    /\ called' = Append(called, r)
    /\ \/ UNCHANGED taskVars
       \/ Goto("run", "using", mine["run"])
    /\ UNCHANGED <<server, reconnect, clientVars, matched, overlaps>>

\* The handler returns or raises; an exception is printed and the loop goes on.
Handle(r) ==
    /\ pc["run"] = "dispatching"
    /\ r \in Remaining /\ \A q \in Remaining : r <= q
    /\ called' = Append(called, r)
    /\ UNCHANGED <<server, reconnect, clientVars, taskVars, matched, overlaps>>

EventEnd ==
    /\ pc["run"] = "dispatching"
    /\ Remaining = {}
    /\ Goto("run", "using", mine["run"])
    /\ UNCHANGED <<server, reconnect, clientVars, eventVars, overlaps>>

\* A filter or a middleware raises: outside of the try, so the exception
\* leaves dispatch() and _run_once(); an OSError counts as a lost connection.
\* Any other exception is not caught by run() at all.
DispatchRaises(caught) ==
    /\ pc["run"] = "dispatching"
    /\ IF caught
       THEN Leave({}, "reconnectable")
       ELSE /\ Goto("run", "raised", 0)
            /\ matched' = {} /\ called' = <<>>
            /\ UNCHANGED <<server, reconnect, clientVars, overlaps>>

-----------------------------------------------------------------------------
Endings == {"end", "reconnectable", "fatal"}

Next ==
    \/ ServerChanges
    \/ Close
    \/ RunBegin
    \/ Wake
    \/ EventEnd
    \/ \E how \in Endings : RunHealthError(how)
    \/ \E how \in Endings : StreamEnds(how)
    \/ \E routes \in SUBSET Routes : EventBegin(routes)
    \/ \E r \in Routes : Handle(r)
    \/ \E caught \in BOOLEAN : DispatchRaises(caught)
    \/ \E t \in Tasks : HealthOk(t)
    \/ \E c \in Callers : CallBegin(c) \/ CallHealthError(c) \/ CallEnd(c)

Spec == Init /\ [][Next]_vars

\* The loop runs every task that is ready: a sleep ends, handlers return and
\* a health check is answered.  One that is tried again and again while the
\* server is up succeeds, and a broken stream, or one on a server that is
\* down, ends when the events it holds are used up.
Fairness ==
    /\ WF_vars(Wake)
    /\ WF_vars(\E r \in Routes : Handle(r))
    /\ WF_vars(EventEnd)
    /\ WF_vars(RunHealthError("reconnectable"))
    /\ SF_vars(HealthOk("run"))
    /\ SF_vars((Broken \/ ~server) /\ StreamEnds("reconnectable"))

FairSpec == Spec /\ Fairness

-----------------------------------------------------------------------------
(* Properties.                                                             *)

Connecting == {mine[t] : t \in {u \in Tasks : pc[u] = "connecting"}}

\* Every open channel is the client's, or one whose health check is awaited;
\* the only ones that leak are those that another task's connect() replaced.
LeaksOnlyByOverlap ==
    Cardinality(open \ ({channel} \cup Connecting)) <= overlaps

\* A handler that raises keeps no other handler from the event: when run()
\* awaits the next event, every matching handler was called once, in the
\* order of registration.
HandlersAreIsolated ==
    pc["run"] = "using" =>
        /\ ToSet(called) = matched
        /\ \A i, j \in 1..Len(called) : i < j => called[i] < called[j]

\* close() ends run(), with three exceptions the code has: a task is inside
\* connect() at that moment, a task calls it later, or run()'s own channel is
\* one that another task's connect() replaced, which close() cannot reach.
CloseEndsRun ==
    closed /\ channel = 0 /\ Connecting = {} /\ mine["run"] \notin open
        ~> \/ pc["run"] \in {"idle", "returned", "raised"}
           \/ \E c \in Callers : pc[c] = "connecting"

\* A bot that reconnects does not give up: once the server stays up, run()
\* comes back from every lost connection to its stream, unless it is closed
\* or an error is fatal.  (The model runs out of channels when enough of them
\* have leaked.)
Resubscribes ==
    <>[]server =>
        [](pc["run"] = "sleeping"
            => <>(pc["run"] \in {"using", "returned", "raised"} \/ Free = {}))
=============================================================================
